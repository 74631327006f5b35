--------------------------- MODULE UserAccountProofs ---------------------------
(***************************************************************************)
(* Proofs about UserAccount that hold for both controllers of users.  What *)
(* differs between the two is gathered in a record k, so that a theorem    *)
(* about a controller follows when its steps are steps of AccountNext(k):  *)
(*   k.crs      its custom resources        k.new     those users create   *)
(*   k.policies its policies                k.spec    the fields of a spec *)
(*   k.fins     finalizers of an object     k.fin     the one for cleanup  *)
(*   k.wanted   the finalizers that an object should have                  *)
(*   k.pol      the policy that an object asks for                         *)
(*   k.home     the instances on which the user of an object may be        *)
(*                                                                         *)
(* The first part is about types and edits, for any number of pods.  The   *)
(* second is about what a reconcile of a single pod has established of the *)
(* account when the others have names of their own on the servers.         *)
(***************************************************************************)
EXTENDS UserAccount, CompanionProofs

(* What the operator does not write in an object. *)
SameUser(k, d, c) ==
  /\ \A field \in k.spec \cup {"uid", "deleting"} : d[field] = c[field]
  /\ d.uid = c.uid
  /\ d.deleting = c.deleting
  /\ d.cleanup = c.cleanup
  /\ d.fins \cap Foreign = c.fins \cap Foreign
  /\ k.pol[d] = k.pol[c]
  /\ k.home[d] = k.home[c]

SameStatus(d, c) ==
  /\ d.conditions = c.conditions
  /\ d.password_hash = c.password_hash

(* A member of k.crs has the fields that are known here. *)
Fields(k, c) ==
  /\ c.uid \in Uids
  /\ c.deleting \in BOOLEAN
  /\ c.cleanup \in BOOLEAN
  /\ c.fins \in SUBSET k.fins
  /\ c.conditions \in [ConditionTypes -> ConditionStatus]
  /\ c.password_hash \in Passwords \cup {NoData}

(* The changes of one field that both controllers make. *)
WithConditions(c, x) == [c EXCEPT !.conditions = x]

WithHash(c, h) == [c EXCEPT !.password_hash = h]

WithFins(c, f) == [c EXCEPT !.fins = f]

WithDeletion(c) == [c EXCEPT !.deleting = TRUE]

Writable(k, c) ==
  /\ \A x \in [ConditionTypes -> ConditionStatus] :
       LET d == WithConditions(c, x) IN
       /\ d \in k.crs /\ SameUser(k, d, c) /\ d.fins = c.fins
       /\ d.conditions = x /\ d.password_hash = c.password_hash
  /\ \A h \in Passwords \cup {NoData} :
       LET d == WithHash(c, h) IN
       /\ d \in k.crs /\ SameUser(k, d, c) /\ d.fins = c.fins
       /\ d.conditions = c.conditions /\ d.password_hash = h
  /\ \A f \in SUBSET k.fins :
       LET d == WithFins(c, f) IN
       /\ d \in k.crs /\ d.fins = f /\ SameStatus(d, c)
       /\ d.uid = c.uid /\ d.deleting = c.deleting /\ d.cleanup = c.cleanup
       /\ f \cap Foreign = c.fins \cap Foreign => SameUser(k, d, c)
  /\ LET d == WithDeletion(c) IN
       /\ d \in k.crs /\ d.fins = c.fins /\ SameStatus(d, c)
       /\ d.uid = c.uid /\ d.deleting = TRUE /\ d.cleanup = c.cleanup

Controller(k) ==
  /\ UserConstantsAssumption
  /\ Absent \notin k.crs
  /\ NoData \notin k.policies
  /\ k.fin \in k.fins \ Foreign
  /\ k.pol \in [k.crs -> k.policies]
  /\ k.home \in [k.crs -> SUBSET Instances]
  /\ \A c \in k.crs :
       /\ Fields(k, c)
       /\ Writable(k, c)
       /\ k.wanted[c] \in SUBSET k.fins
       /\ k.wanted[c] \cap Foreign = c.fins \cap Foreign
       /\ c.cleanup => k.fin \in k.wanted[c]
       /\ ~c.cleanup => k.fin \notin k.wanted[c]
  /\ \A c \in k.new, n \in Uids :
       LET d == [c EXCEPT !.uid = n] IN
       /\ d \in k.crs /\ d.uid = n
       /\ d.deleting = FALSE /\ d.conditions = NoConditions(ConditionTypes)

--------------------------------------------------------------------------------
(* The steps of both controllers. *)

KubeStep(p, u) ==
  \/ GetsSecret(p, u)
  \/ /\ \/ CreateCompanion(p, u) \/ RereadCompanion(p, u)
        \/ LabelCompanion(p, u) \/ OwnCompanion(p, u)
     /\ OnlyKube

FinalizerStep(k, p, u) ==
  LET c == task[p][u].cr IN
  /\ ReplaceFinalizers(p, u, UserReady(c), k.wanted[c])
  /\ OnlyKube

(* The instance of the user is found, or a call on the way there fails. *)
LocateStep(k, p, u) ==
  /\ task[p][u].pc \in {"checked", "located"}
  /\ \/ \E again \in BOOLEAN : Ends(p, u, again) /\ UNCHANGED local
     \/ \E n \in k.home[task[p][u].cr], step \in {"located", "connected"} :
          /\ Continues(p, u, step)
          /\ local' = [local EXCEPT ![p][u].instance = n]
  /\ UNCHANGED <<companion, uid, ready, account>>

StatusStep(k, p, u) ==
  \/ InitializesUser(p, u)
  \/ SavesSecretReady(p, u)
  \/ SavesSecretInvalid(p, u)
  \/ PublishesUser(p, u)

ServerStep(k, p, u) ==
  \/ RemovesUser(p, u, k.fin)
  \/ CredentialsFit(p, u) /\ AddsUser(p, u)
  \/ LooksUser(p, u)
  \/ GrantsPolicy(p, u, k.pol[task[p][u].cr])
  \/ AttachesPolicy(p, u)

UserStep(k, p, u) ==
  \/ StartsUser(p, u) \/ KubeStep(p, u) \/ FinalizerStep(k, p, u)
  \/ LocateStep(k, p, u) \/ StatusStep(k, p, u) \/ ServerStep(k, p, u)
  \/ FinalizesUser(p, u, k.fin)
  \/ DrawsPassword(p, u) \/ FillsSecret(p, u)

(* An edit of the spec. *)
EditSpec(k, u) ==
  /\ cr[u] # Absent
  /\ \E object \in k.crs :
       /\ object.uid = cr[u].uid /\ object.deleting = cr[u].deleting
       /\ object.fins = cr[u].fins /\ SameStatus(object, cr[u])
       /\ WriteCr(u, object)
  /\ OnlyCr

Owners(k, u) ==
  \/ \E object \in k.new : CreateOwner(u, object) /\ OnlyKube
  \/ EditSpec(k, u)
  \/ (DeleteCr(u) \/ DropForeign(u)) /\ OnlyCr

(* A step of a user that changes nothing here. *)
ElsewhereEdit ==
  /\ Edit
  /\ UNCHANGED <<cr, task, due, companion, uid, ready, account, local>>

AccountNext(k) ==
  \/ \E p \in Pods, u \in Users : UserStep(k, p, u)
  \/ \E p \in Pods : UserFault(p)
  \/ \E n \in Instances : ChangeInstance(n)
  \/ \E u \in Users : ChangeSecret(u) \/ Owners(k, u)
  \/ ElsewhereEdit

accountVars ==
  <<cr, task, due, edits, faults, companion, uid, ready, account, local>>

--------------------------------------------------------------------------------
(* The inductive invariant for any number of pods. *)

(* The steps of a reconcile that has found the instance of its user.       *)
Onward == (UserSteps \ CompanionSteps) \cup {"written", "filled"}

(* It goes on with that instance. *)
Located(k) ==
  \A p \in Pods, u \in Users :
    task[p][u].pc \in Onward => local[p][u].instance \in k.home[task[p][u].cr]

AccountType(policies) ==
  [password: Passwords \cup {NoData}, policy: policies \cup {NoData},
   attached: BOOLEAN]

ServerTypes(k) ==
  /\ ready \subseteq Instances
  /\ account \in [Instances -> [Names -> AccountType(k.policies)]]
  /\ local \in [Pods -> [Users -> Local]]

AInv(k) == CInv(UserSteps, k.crs, Passwords) /\ ServerTypes(k) /\ Located(k)

(* What every step keeps. *)
Good(k) == AInv(k)' /\ (edits' = edits => SpecsKept(k.spec))

(* A controller of users is one that CompanionProofs is about.             *)
LEMMA Constants ==
  ASSUME NEW k, Controller(k)  PROVE Typed(UserSteps, k.crs, Passwords)
  BY DEF Controller, UserConstantsAssumption, Typed, UserSteps, Secret, Fields

(* Where the steps of a reconcile are, for provers that expand no sets.    *)
LEMMA StepTypes ==
  /\ {"idle", "read", "connected", "removed", "generated", "added", "informed",
      "granted", "attached", "written", "located", "checked"} \subseteq UserSteps
  /\ {"connected", "removed", "generated", "added", "informed", "granted",
      "attached", "written", "located"} \subseteq Onward
  /\ \A step \in CompanionSteps : step \in Onward => step \in {"written", "filled"}
  BY DEF UserSteps, CompanionSteps, Onward

(* A reconcile that runs has a copy of its user. *)
LEMMA HasCopy ==
  ASSUME NEW k, Controller(k), AInv(k), NEW p \in Pods, NEW u \in Users,
         ~At(p, u, "idle")
  PROVE  /\ task[p][u] \in TaskOf(UserSteps, k.crs, CompanionOf(Passwords))
         /\ task[p][u].cr \in k.crs
         /\ task[p][u].crFresh => cr[u] # Absent /\ task[p][u].cr = cr[u]
         /\ HoldsOK(task[p][u])
         /\ task[p][u].dep \in Secret \cup {Absent}
         /\ Fields(k, task[p][u].cr)
         /\ Writable(k, task[p][u].cr)
<1>1. /\ Typed(UserSteps, k.crs, Passwords)
      /\ CInv(UserSteps, k.crs, Passwords)
      /\ u \in Objects
  BY Constants DEF AInv, Users
<1>2. /\ task[p][u] \in TaskOf(UserSteps, k.crs, CompanionOf(Passwords))
      /\ task[p][u].cr \in k.crs
      /\ task[p][u].crFresh => cr[u] # Absent /\ task[p][u].cr = cr[u]
      /\ HoldsOK(task[p][u])
      /\ task[p][u].dep \in CompanionOf(Passwords) \cup {Absent}
  BY <1>1, Running
<1> QED BY <1>2 DEF Controller, Secret

(* A step that writes no custom resource keeps what users wrote.           *)
LEMMA UnchangedEdits ==
  ASSUME NEW spec, UNCHANGED cr  PROVE SpecsKept(spec)
  BY DEF SpecsKept

(* What is known of the object of u that its own reconcile writes. *)
Written(k, p, u, object) ==
  /\ cr[u] # Absent /\ task[p][u].cr = cr[u] /\ cr[u] \in k.crs
  /\ cr[u].deleting => object.fins \subseteq cr[u].fins
  /\ \A x \in Users : x # u => cr'[x] = cr[x]
  /\ \/ object.deleting /\ object.fins = {} /\ cr'[u] = Absent
     \/ ~(object.deleting /\ object.fins = {}) /\ cr'[u] = object /\ object # Absent

(* A write that the API server accepts is made over the stored object.     *)
LEMMA StoredObject ==
  ASSUME NEW k, Controller(k), AInv(k), NEW p \in Pods, NEW u \in Users,
         NEW object \in k.crs, Store(p, u, object)
  PROVE  Written(k, p, u, object)
<1>1. /\ cr[u] # Absent /\ task[p][u].cr = cr[u]
      /\ cr' = [cr EXCEPT ![u] = Reaped(object)]
      /\ cr \in [Users -> k.crs \cup {Absent}]
      /\ cr[u].deleting => object.fins \subseteq cr[u].fins
  BY DEF Store, CrAccepted, Admits, AInv, CInv, Sound, CopiesOK, ReconcilerTypeOK,
         Users
<1>2. object # Absent
  BY DEF Controller
<1> QED BY <1>1, <1>2 DEF Reaped, Written

(* Such a write of an object with the spec of the copy loses no edit.      *)
LEMMA StoredEdits ==
  ASSUME NEW k, Controller(k), NEW p \in Pods, NEW u \in Users, NEW object \in k.crs,
         SameUser(k, object, task[p][u].cr), Written(k, p, u, object)
  PROVE  SpecsKept(k.spec)
<1>1. ASSUME NEW o \in Objects, cr'[o] # Absent
      PROVE  /\ cr[o] # Absent
             /\ cr'[o].fins \cap Foreign = cr[o].fins \cap Foreign
             /\ \A field \in k.spec \cup {"uid", "deleting"} :
                  cr'[o][field] = cr[o][field]
  BY <1>1 DEF Written, SameUser, Users
<1>2. ASSUME NEW o \in Objects, cr[o] # Absent, cr'[o] = Absent
      PROVE  cr[o].deleting /\ cr[o].fins \cap Foreign = {}
  BY <1>2 DEF Written, SameUser, Users
<1> QED BY <1>1, <1>2 DEF SpecsKept

(* Reconciles that go on keep their instance. *)
LEMMA LocatedKept ==
  ASSUME NEW k, Located(k),
         \A q \in Pods, x \in Users :
           \/ task'[q][x].pc \notin Onward
           \/ /\ task[q][x].pc \in Onward
              /\ task'[q][x].cr = task[q][x].cr
              /\ local'[q][x].instance = local[q][x].instance
           \/ local'[q][x].instance \in k.home[task'[q][x].cr]
  PROVE  Located(k)'
  BY DEF Located

(* A reconcile that does not run has found no server.                      *)
LEMMA IdleBehind == Idle.pc \notin Onward
  BY DEF Idle, Onward, CompanionSteps

(* Where reconciles rest or end, servers that were found stay as found.    *)
LEMMA SettledLocated ==
  ASSUME NEW k, Located(k), Settles,
         \A q \in Pods, x \in Users :
           local'[q][x] = local[q][x] \/ At(q, x, "idle")
  PROVE  Located(k)'
<1>1. "idle" \notin Onward
  BY DEF Onward, CompanionSteps
<1> QED BY <1>1, IdleBehind, LocatedKept DEF Settles, Kept, Users, At

(* The companion, the instances and the accounts are left alone.           *)
LEMMA KeptGood ==
  ASSUME NEW k, ServerTypes(k)', Located(k)', Keeps(UserSteps, k.crs, Passwords),
         edits' # edits \/ UNCHANGED cr
  PROVE  Good(k)
  BY UnchangedEdits DEF Good, AInv, Keeps

(* Steps that only call the API server keep the types of the rest.         *)
LEMMA KubeTypes ==
  ASSUME NEW k, AInv(k), OnlyKube  PROVE ServerTypes(k)'
  BY DEF AInv, ServerTypes, OnlyKube

(* A step after which reconciles rest or have ended is good.               *)
LEMMA SettledGood ==
  ASSUME NEW k, AInv(k), Keeps(UserSteps, k.crs, Passwords), Settles, OnlyKube,
         edits' # edits \/ UNCHANGED cr
  PROVE  Good(k)
<1>1. Located(k)'
  BY SettledLocated DEF AInv, OnlyKube
<1> QED BY <1>1, KubeTypes, KeptGood

--------------------------------------------------------------------------------
(* The steps of a reconcile. *)

(* The other reconciles keep their local variables. *)
LocalsKept(p, u) ==
  \A q \in Pods, x \in Users : (q = p /\ x = u) \/ local'[q][x] = local[q][x]

(* A reconcile that goes on is on a server of its object if it was.        *)
LEMMA MovedLocated ==
  ASSUME NEW k, Located(k), NEW p \in Pods, NEW u \in Users, NEW step, NEW c,
         Moves(p, u, step, c), LocalsKept(p, u),
         step \in Onward => local'[p][u].instance \in k.home[c]
  PROVE  Located(k)'
<1>1. ASSUME NEW q \in Pods, NEW x \in Users
      PROVE  \/ task'[q][x].pc \notin Onward
             \/ /\ task[q][x].pc \in Onward
                /\ task'[q][x].cr = task[q][x].cr
                /\ local'[q][x].instance = local[q][x].instance
             \/ local'[q][x].instance \in k.home[task'[q][x].cr]
  BY DEF Moves, OthersKept, Kept, LocalsKept, Users
<1> QED BY <1>1, LocatedKept

(* A reconcile that goes on with the same copy is good.                    *)
LEMMA MovedGood ==
  ASSUME NEW k, AInv(k), NEW p \in Pods, NEW u \in Users, NEW step, NEW c,
         Keeps(UserSteps, k.crs, Passwords), Moves(p, u, step, c),
         OnlyKube, UNCHANGED cr,
         step \in Onward => task[p][u].pc \in Onward /\ task[p][u].cr = c
  PROVE  Good(k)
<1>1. step \in Onward => local'[p][u].instance \in k.home[c]
  BY DEF AInv, Located, OnlyKube
<1>2. LocalsKept(p, u)
  BY DEF LocalsKept, OnlyKube
<1>3. Located(k)'
  BY <1>1, <1>2, MovedLocated DEF AInv
<1> QED BY <1>3, KubeTypes, KeptGood

(* A reconcile starts with a copy of the stored object.                    *)
LEMMA StartsGood ==
  ASSUME NEW k, Controller(k), AInv(k), NEW p \in Pods, NEW u \in Users,
         StartsUser(p, u)
  PROVE  /\ Good(k) /\ UNCHANGED <<cr, companion, uid, account>> /\ LocalsKept(p, u)
         /\ (CompanionCopies => CompanionCopies') /\ At(p, u, "idle")
         /\ \/ Settles
            \/ cr[u] # Absent /\ Moves(p, u, "read", cr[u])
<1>1. /\ Typed(UserSteps, k.crs, Passwords)
      /\ CInv(UserSteps, k.crs, Passwords)
      /\ u \in Objects
      /\ Begin(p, u) /\ UNCHANGED <<companion, uid>>
  BY Constants DEF AInv, Users, StartsUser
<1>2. /\ Keeps(UserSteps, k.crs, Passwords)
      /\ \/ Settles
         \/ cr[u] # Absent /\ Moves(p, u, "read", cr[u])
  BY <1>1, BeginKeeps
<1>3. /\ At(p, u, "idle") /\ UNCHANGED <<cr, companion, uid, ready, account>>
      /\ local' = [local EXCEPT ![p][u] = NoLocal]
  BY DEF StartsUser, Begin
<1>4. LocalsKept(p, u) /\ ServerTypes(k)'
  BY <1>3 DEF LocalsKept, AInv, ServerTypes, NoLocal, Local
<1>5. \A q \in Pods, x \in Users :
        local'[q][x] = local[q][x] \/ At(q, x, "idle")
  BY <1>3, <1>4 DEF LocalsKept
<1>6. "read" \notin Onward
  BY DEF Onward, CompanionSteps
<1>7. Located(k)'
  BY <1>2, <1>4, <1>5, <1>6, SettledLocated, MovedLocated DEF AInv
<1> QED BY <1>2, <1>3, <1>4, <1>7, KeptGood DEF Keeps

(* The Secret. *)
LEMMA KubeGood ==
  ASSUME NEW k, Controller(k), AInv(k), NEW p \in Pods, NEW u \in Users,
         KubeStep(p, u)
  PROVE  /\ Good(k) /\ UNCHANGED cr /\ OnlyKube
         /\ (CompanionCopies => CompanionCopies')
         /\ \/ Settles
            \/ \E step \in CompanionSteps \ {"idle"} :
                 /\ Moves(p, u, step, task[p][u].cr)
                 /\ ~At(p, u, "idle")
                 /\ step = "filled" => At(p, u, "written")
                 /\ step # "written"
<1>1. /\ Typed(UserSteps, k.crs, Passwords)
      /\ CInv(UserSteps, k.crs, Passwords)
      /\ u \in Objects
  BY Constants DEF AInv, Users
<1>2. OnlyKube
  BY DEF KubeStep, GetsSecret
<1> DEFINE goal == /\ Keeps(UserSteps, k.crs, Passwords)
                   /\ \/ Settles
                      \/ \E step \in CompanionSteps \ {"idle"} :
                           /\ Moves(p, u, step, task[p][u].cr)
                           /\ ~At(p, u, "idle")
                           /\ step = "filled" => At(p, u, "written")
                           /\ step # "written"
                   /\ UNCHANGED cr
<1>3. goal
  <2>1. CASE GetsSecret(p, u)
    <3>1. GetCompanion(p, u) /\ ~At(p, u, "idle")
      BY <2>1 DEF GetsSecret, At
    <3> QED BY <1>1, <3>1, GetKeeps DEF CompanionSteps
  <2>2. CASE CreateCompanion(p, u)
    BY <1>1, <2>2, CreateKeeps DEF CompanionSteps, CreateCompanion, At
  <2>3. CASE RereadCompanion(p, u)
    <3>1. /\ NextRead[task[p][u].pc] \in CompanionSteps \ {"idle", "written"}
          /\ ~At(p, u, "idle")
          /\ NextRead[task[p][u].pc] = "filled" => At(p, u, "written")
      BY <2>3 DEF RereadCompanion, NextRead, CompanionSteps, At
    <3> QED BY <1>1, <2>3, <3>1, RereadKeeps
  <2>4. CASE LabelCompanion(p, u)
    BY <1>1, <2>4, LabelKeeps DEF CompanionSteps, LabelCompanion, At
  <2>5. CASE OwnCompanion(p, u)
    BY <1>1, <2>5, OwnKeeps DEF CompanionSteps, OwnCompanion, At
  <2> QED BY <2>1, <2>2, <2>3, <2>4, <2>5 DEF KubeStep
<1>4. CASE Settles
  BY <1>2, <1>3, <1>4, SettledGood DEF Keeps
<1>5. ASSUME NEW step \in CompanionSteps \ {"idle"}, Moves(p, u, step, task[p][u].cr),
             step = "filled" => At(p, u, "written"), step # "written"
      PROVE  Good(k)
  <2>1. step \in Onward => task[p][u].pc \in Onward
    BY <1>5, StepTypes DEF At
  <2> QED BY <1>2, <1>3, <1>5, <2>1, MovedGood
<1> QED BY <1>2, <1>3, <1>4, <1>5 DEF Keeps

(* The finalizers follow the spec. *)
LEMMA FinalizerGood ==
  ASSUME NEW k, Controller(k), AInv(k), NEW p \in Pods, NEW u \in Users,
         FinalizerStep(k, p, u)
  PROVE  /\ Good(k) /\ OnlyKube /\ UNCHANGED <<companion, uid>> /\ ~At(p, u, "idle")
         /\ (CompanionCopies => CompanionCopies')
         /\ \/ Settles /\ UNCHANGED cr
            \/ Moves(p, u, "checked", task[p][u].cr) /\ UNCHANGED cr
            \/ \E object \in k.crs :
                 /\ SameUser(k, object, task[p][u].cr)
                 /\ SameStatus(object, task[p][u].cr)
                 /\ object.fins = k.wanted[task[p][u].cr]
                 /\ Written(k, p, u, object)
                 /\ Moves(p, u, "checked", object)
<1> DEFINE c == task[p][u].cr
           x == k.wanted[c]
           object == WithFins(c, x)
<1>1. ~At(p, u, "idle") /\ OnlyKube /\ UNCHANGED <<companion, uid>>
  BY DEF FinalizerStep, ReplaceFinalizers, At
<1>2. c \in k.crs /\ Writable(k, c)
  BY <1>1, HasCopy
<1>3. x \in SUBSET k.fins /\ x \cap Foreign = c.fins \cap Foreign
  BY <1>2 DEF Controller
<1>4. ReplaceFinalizers(p, u, UserReady(c), x) /\ UserReady(c) \in BOOLEAN
  BY DEF FinalizerStep, UserReady, is_condition_true
<1> HIDE DEF x
<1>5. /\ object \in k.crs /\ SameUser(k, object, c) /\ SameStatus(object, c)
      /\ object.fins = x
  BY <1>2, <1>3 DEF Writable
<1>6. [task[p][u].cr EXCEPT !.fins = x] = object
  BY DEF WithFins
<1>7. /\ Typed(UserSteps, k.crs, Passwords)
      /\ CInv(UserSteps, k.crs, Passwords)
      /\ u \in Objects
  BY Constants DEF AInv, Users
<1>8. /\ Keeps(UserSteps, k.crs, Passwords)
      /\ \/ Settles /\ UNCHANGED cr
         \/ Moves(p, u, "checked", c) /\ UNCHANGED cr
         \/ Store(p, u, object) /\ Moves(p, u, "checked", object)
  BY <1>4, <1>5, <1>6, <1>7, FinalizersKeeps
<1> HIDE DEF object
<1>9. "checked" \notin Onward
  BY DEF Onward, CompanionSteps
<1>10. Located(k)'
  <2>1. LocalsKept(p, u)
    BY <1>1 DEF LocalsKept, OnlyKube
  <2> QED
    BY <1>1, <1>8, <1>9, <2>1, MovedLocated, SettledLocated DEF AInv, OnlyKube
<1>11. Store(p, u, object) => Written(k, p, u, object)
  BY <1>5, StoredObject
<1>12. SpecsKept(k.spec)
  BY <1>5, <1>8, <1>11, StoredEdits, UnchangedEdits
<1>13. Good(k)
  BY <1>1, <1>8, <1>10, <1>12, KubeTypes DEF Good, AInv, Keeps
<1> QED BY <1>1, <1>5, <1>8, <1>11, <1>13 DEF x, Keeps

(* A reconcile writes its object and ends, or fails to. *)
LEMMA ReplaceGood ==
  ASSUME NEW k, Controller(k), AInv(k), NEW p \in Pods, NEW u \in Users,
         NEW object \in k.crs, SameUser(k, object, task[p][u].cr),
         NEW again \in BOOLEAN, ReplaceStamped(p, u, object, again), OnlyCr
  PROVE  /\ Good(k) /\ Settles /\ UNCHANGED <<companion, uid>> /\ OnlyKube
         /\ (CompanionCopies => CompanionCopies')
         /\ UNCHANGED cr \/ (Written(k, p, u, object) /\ task'[p][u] = Idle)
<1>1. /\ Typed(UserSteps, k.crs, Passwords)
      /\ CInv(UserSteps, k.crs, Passwords)
      /\ u \in Objects
      /\ UNCHANGED <<companion, uid>> /\ OnlyKube
  BY Constants DEF AInv, Users, OnlyCr
<1>2. Keeps(UserSteps, k.crs, Passwords) /\ Settles
  BY <1>1, ReplaceKeeps
<1>3. UNCHANGED cr \/ Updates(p, u, object)
  BY DEF ReplaceStamped, Replace, Ends, Err
<1>4. CASE UNCHANGED cr
  BY <1>1, <1>2, <1>4, SettledGood DEF Keeps
<1>5. CASE Updates(p, u, object)
  <2>1. task' = Ended(CrOutdated(task, u), p, u) /\ Store(p, u, object)
    BY <1>5 DEF Updates
  <2>2. CrOutdated(task, u) \in
          [Pods -> [Objects -> TaskOf(UserSteps, k.crs, CompanionOf(Passwords))]]
    BY OutdatedTasks DEF AInv, CInv, Sound, Users
  <2>3. task'[p][u] = Idle
    BY <2>1, <2>2 DEF Ended, Users
  <2>4. Written(k, p, u, object)
    BY <2>1, StoredObject
  <2>5. SpecsKept(k.spec)
    BY <2>4, StoredEdits
  <2>6. Located(k)'
    BY <1>1, <1>2, SettledLocated DEF AInv, OnlyKube
  <2> QED BY <1>1, <1>2, <2>3, <2>4, <2>5, <2>6, KubeTypes DEF Good, AInv, Keeps
<1> QED BY <1>3, <1>4, <1>5

(* The instance is found, or the reconcile ends. *)
LEMMA LocateGood ==
  ASSUME NEW k, Controller(k), AInv(k), NEW p \in Pods, NEW u \in Users,
         LocateStep(k, p, u)
  PROVE  /\ Good(k) /\ UNCHANGED <<cr, companion, uid, account>> /\ ~At(p, u, "idle")
         /\ (CompanionCopies => CompanionCopies')
         /\ \/ Settles /\ UNCHANGED local
            \/ \E step \in {"located", "connected"} :
                 /\ Moves(p, u, step, task[p][u].cr)
                 /\ LocalsKept(p, u)
                 /\ local'[p][u].instance \in k.home[task[p][u].cr]
<1> DEFINE c == task[p][u].cr
<1>1. /\ Typed(UserSteps, k.crs, Passwords)
      /\ CInv(UserSteps, k.crs, Passwords)
      /\ u \in Objects
  BY Constants DEF AInv, Users
<1>2. /\ ~At(p, u, "idle") /\ task[p][u].pc \in {"checked", "located"}
      /\ UNCHANGED <<companion, uid, ready, account>>
  BY DEF LocateStep, At
<1>3. ASSUME NEW again \in BOOLEAN, Ends(p, u, again), UNCHANGED local
      PROVE  Good(k) /\ Settles /\ UNCHANGED cr /\ (CompanionCopies => CompanionCopies')
  <2>1. Keeps(UserSteps, k.crs, Passwords) /\ Settles
    BY <1>1, <1>2, <1>3, EndsKeeps
  <2>2. OnlyKube /\ UNCHANGED cr
    BY <1>2, <1>3 DEF OnlyKube, Ends
  <2> QED BY <2>1, <2>2, SettledGood DEF Keeps
<1>4. ASSUME NEW n \in k.home[c], NEW step \in {"located", "connected"},
             Continues(p, u, step), local' = [local EXCEPT ![p][u].instance = n]
      PROVE  /\ Good(k) /\ UNCHANGED cr /\ (CompanionCopies => CompanionCopies')
             /\ Moves(p, u, step, c)
             /\ LocalsKept(p, u)
             /\ local'[p][u].instance \in k.home[c]
  <2>1. c \in k.crs /\ task[p][u].dep # Absent
    BY <1>2, HasCopy DEF HoldsOK
  <2>2. Keeps(UserSteps, k.crs, Passwords) /\ Moves(p, u, step, c)
    BY <1>1, <1>2, <1>4, <2>1, ContinuesKeeps, StepTypes
  <2>3. n \in Instances
    BY <2>1 DEF Controller
  <2>4. /\ LocalsKept(p, u) /\ local'[p][u].instance = n
        /\ ServerTypes(k)'
    <3> DEFINE l == [local[p][u] EXCEPT !.instance = n]
    <3>1. l \in Local /\ l.instance = n
      <4>1. local[p][u] \in Local
        BY DEF AInv, ServerTypes
      <4> QED BY <2>3, <4>1 DEF Local
    <3>2. local' = [local EXCEPT ![p][u] = l]
      BY <1>4
    <3> HIDE DEF l
    <3> QED BY <1>2, <3>1, <3>2 DEF LocalsKept, AInv, ServerTypes
  <2> HIDE DEF c
  <2>5. Located(k)'
    BY <2>2, <2>4, MovedLocated DEF AInv
  <2>6. UNCHANGED cr
    BY <1>4 DEF Continues
  <2> QED BY <2>2, <2>4, <2>5, <2>6, KeptGood DEF Keeps
<1> QED BY <1>2, <1>3, <1>4 DEF LocateStep

--------------------------------------------------------------------------------
(* The server. *)

(* What is known on the way from the instance on. *)
LEMMA OnwardCopy ==
  ASSUME NEW k, Controller(k), AInv(k), NEW p \in Pods, NEW u \in Users,
         task[p][u].pc \in Onward
  PROVE  /\ ~At(p, u, "idle")
         /\ task[p][u].cr \in k.crs
         /\ task[p][u].dep \in Secret /\ task[p][u].dep # Absent
         /\ local[p][u].instance \in k.home[task[p][u].cr]
         /\ local[p][u].instance \in Instances
         /\ username(u) \in Names
         /\ Current(p, u) \in AccountType(k.policies)
<1>1. ~At(p, u, "idle") /\ task[p][u].pc \notin {"read", "missing", "created"}
  BY DEF Onward, CompanionSteps, At
<1>2. /\ task[p][u].cr \in k.crs
      /\ task[p][u].dep \in Secret /\ task[p][u].dep # Absent
  BY <1>1, HasCopy DEF HoldsOK, At
<1>3. local[p][u].instance \in k.home[task[p][u].cr]
  BY DEF AInv, Located
<1>4. local[p][u].instance \in Instances
  BY <1>2, <1>3 DEF Controller
<1>5. username(u) \in Names
  BY DEF Names
<1>6. Current(p, u) \in AccountType(k.policies)
  BY <1>4, <1>5 DEF Current, AInv, ServerTypes
<1> QED BY <1>1, <1>2, <1>3, <1>4, <1>5, <1>6

(* A command of rc changes one account on one server, or fails.            *)
LEMMA CommandGood ==
  ASSUME NEW k, Controller(k), AInv(k), NEW p \in Pods, NEW u \in Users,
         task[p][u].pc \in Onward, NEW step \in UserSteps,
         NEW outcomes, outcomes \subseteq AccountType(k.policies),
         Commands(p, u, outcomes, step)
  PROVE  /\ Good(k) /\ UNCHANGED <<cr, companion, uid, local>>
         /\ (CompanionCopies => CompanionCopies')
         /\ \/ Settles /\ UNCHANGED account
            \/ \E result \in outcomes :
                 /\ account' = [account EXCEPT
                                  ![local[p][u].instance][username(u)] = result]
                 /\ Moves(p, u, step, task[p][u].cr)
<1>1. /\ Typed(UserSteps, k.crs, Passwords)
      /\ CInv(UserSteps, k.crs, Passwords)
      /\ u \in Objects
  BY Constants DEF AInv, Users
<1>2. ~At(p, u, "idle") /\ task[p][u].dep # Absent
  BY OnwardCopy
<1>3. CASE Err(p, u) /\ OnlyCr
  <2>1. Keeps(UserSteps, k.crs, Passwords) /\ Settles
    BY <1>1, <1>3, EndsKeeps DEF Err, OnlyCr
  <2>2. OnlyKube /\ UNCHANGED <<cr, companion, uid>>
    BY <1>3 DEF OnlyCr, Err, Ends
  <2> QED BY <2>1, <2>2, SettledGood DEF Keeps, OnlyKube
<1>4. ASSUME NEW result \in outcomes,
             account' = [account EXCEPT ![local[p][u].instance][username(u)] = result],
             Continues(p, u, step), UNCHANGED <<companion, uid, ready, local>>
      PROVE  /\ Good(k) /\ UNCHANGED cr /\ (CompanionCopies => CompanionCopies')
             /\ Moves(p, u, step, task[p][u].cr)
  <2>1. Keeps(UserSteps, k.crs, Passwords) /\ Moves(p, u, step, task[p][u].cr)
    BY <1>1, <1>2, <1>4, ContinuesKeeps
  <2>2. ServerTypes(k)'
    BY <1>4, OnwardCopy DEF AInv, ServerTypes
  <2>3. LocalsKept(p, u) /\ local'[p][u].instance \in k.home[task[p][u].cr]
    BY <1>4, OnwardCopy DEF LocalsKept
  <2>4. Located(k)'
    BY <2>1, <2>3, MovedLocated DEF AInv
  <2>5. UNCHANGED cr
    BY <1>4 DEF Continues
  <2> QED BY <2>1, <2>2, <2>4, <2>5, KeptGood DEF Keeps
<1>5. CASE outcomes = {}
  BY <1>3, <1>5 DEF Commands, Err, Ends, OnlyCr, OnlyKube
<1>6. CASE outcomes # {}
  BY <1>4, <1>6 DEF Commands
<1> QED BY <1>5, <1>6

(* What a command leaves on the server. *)
Answer(k, p, u, step, result) ==
  LET a == Current(p, u)
      c == task[p][u].cr IN
  \/ RemovesUser(p, u, k.fin) /\ step = "removed" /\ result.password = NoData
  \/ /\ AddsUser(p, u) /\ CredentialsFit(p, u) /\ step = "added"
     /\ result.password = c.password_hash /\ c.password_hash # NoData
  \/ At(p, u, "added") /\ step = "informed" /\ result = a
  \/ /\ At(p, u, "informed") /\ step = "granted"
     /\ result.password = a.password /\ result.policy = k.pol[c]
  \/ /\ At(p, u, "granted") /\ step = "attached" /\ result.attached
     /\ result.password = a.password /\ result.policy = a.policy

(* A command succeeds and its reconcile goes on. *)
Answered(k, p, u) ==
  \E step \in {"removed", "added", "informed", "granted", "attached"},
     result \in AccountType(k.policies) :
    /\ account' = [account EXCEPT ![local[p][u].instance][username(u)] = result]
    /\ Moves(p, u, step, task[p][u].cr)
    /\ Answer(k, p, u, step, result)

(* What each of the commands does to the account and to the reconcile.     *)
LEMMA ServerGood ==
  ASSUME NEW k, Controller(k), AInv(k), NEW p \in Pods, NEW u \in Users,
         ServerStep(k, p, u)
  PROVE  /\ Good(k) /\ UNCHANGED <<cr, companion, uid, local>>
         /\ (CompanionCopies => CompanionCopies')
         /\ task[p][u].pc \in Onward
         /\ (Settles /\ UNCHANGED account) \/ Answered(k, p, u)
<1> DEFINE a == Current(p, u)
           c == task[p][u].cr
           steps == {"removed", "added", "informed", "granted", "attached"}
<1>1. task[p][u].pc \in Onward
  BY StepTypes DEF ServerStep, RemovesUser, MarkedForRemoval, AddsUser, Checks, LooksUser,
     GrantsPolicy, AttachesPolicy, At
<1>2. /\ a \in AccountType(k.policies)
      /\ c \in k.crs
      /\ task[p][u].dep \in Secret
  BY <1>1, OnwardCopy
<1>3. task[p][u].dep.data \in Passwords \cup {NoData} /\ k.pol[c] \in k.policies
  BY <1>2 DEF Secret, CompanionOf, Controller
<1> HIDE DEF a, c
<1>4. ASSUME NEW step \in steps, NEW outcomes,
             Commands(p, u, outcomes, step),
             outcomes \subseteq AccountType(k.policies),
             \A result \in outcomes : Answer(k, p, u, step, result)
      PROVE  /\ Good(k) /\ UNCHANGED <<cr, companion, uid, local>>
             /\ (CompanionCopies => CompanionCopies')
             /\ \/ Settles /\ UNCHANGED account
                \/ \E result \in AccountType(k.policies) :
                     /\ account' = [account EXCEPT
                                      ![local[p][u].instance][username(u)] = result]
                     /\ Moves(p, u, step, task[p][u].cr)
                     /\ Answer(k, p, u, step, result)
  <2>1. step \in UserSteps
    BY DEF UserSteps
  <2>2. /\ Good(k) /\ UNCHANGED <<cr, companion, uid, local>>
        /\ (CompanionCopies => CompanionCopies')
        /\ \/ Settles /\ UNCHANGED account
           \/ \E result \in outcomes :
                /\ account' = [account EXCEPT
                                 ![local[p][u].instance][username(u)] = result]
                /\ Moves(p, u, step, task[p][u].cr)
    BY <1>1, <1>4, <2>1, CommandGood
  <2> QED BY <1>4, <2>2
<1>5. \E step \in steps, outcomes \in SUBSET AccountType(k.policies) :
        /\ Commands(p, u, outcomes, step)
        /\ \A result \in outcomes : Answer(k, p, u, step, result)
  <2>1. CASE RemovesUser(p, u, k.fin)
    <3> DEFINE outcomes == rc!delete_user(a)
    <3>1. \A result \in outcomes :
            result \in AccountType(k.policies) /\ result.password = NoData
      BY <1>2 DEF rc!delete_user, rc!Outcome, AccountType
    <3>2. Commands(p, u, outcomes, "removed")
      BY <2>1 DEF RemovesUser, a
    <3> HIDE DEF outcomes
    <3> QED BY <2>1, <3>1, <3>2 DEF Answer
  <2>2. CASE CredentialsFit(p, u) /\ AddsUser(p, u)
    <3> DEFINE outcomes == rc!create_user(a, task[p][u].dep.data)
    <3>1. \A result \in outcomes : /\ result \in AccountType(k.policies)
                                   /\ result.password = task[p][u].dep.data
      BY <1>2, <1>3 DEF rc!create_user, rc!Outcome, AccountType
    <3>2. Commands(p, u, outcomes, "added")
      BY <2>2 DEF AddsUser, a
    <3> HIDE DEF outcomes
    <3> QED BY <2>2, <3>1, <3>2 DEF Answer, CredentialsFit
  <2>3. CASE LooksUser(p, u)
    <3> DEFINE outcomes == rc!user_info(a)
    <3>1. \A result \in outcomes : result \in AccountType(k.policies) /\ result = a
      BY <1>2 DEF rc!user_info, rc!Outcome
    <3>2. Commands(p, u, outcomes, "informed") /\ At(p, u, "added")
      BY <2>3 DEF LooksUser, a
    <3> HIDE DEF outcomes
    <3> QED BY <3>1, <3>2 DEF Answer, a
  <2>4. CASE GrantsPolicy(p, u, k.pol[c])
    <3> DEFINE outcomes == rc!create_policy(a, k.pol[c])
    <3>1. \A result \in outcomes : /\ result \in AccountType(k.policies)
                                   /\ result.password = a.password
                                   /\ result.policy = k.pol[c]
      BY <1>2, <1>3 DEF rc!create_policy, rc!Outcome, AccountType
    <3>2. Commands(p, u, outcomes, "granted") /\ At(p, u, "informed")
      BY <2>4 DEF GrantsPolicy, a
    <3> HIDE DEF outcomes
    <3> QED BY <3>1, <3>2 DEF Answer, a, c
  <2>5. CASE AttachesPolicy(p, u)
    <3> DEFINE outcomes == rc!assign_policy(a)
    <3>1. \A result \in outcomes : /\ result \in AccountType(k.policies)
                                   /\ result.password = a.password
                                   /\ result.policy = a.policy
                                   /\ result.attached
      BY <1>2, <1>3 DEF rc!assign_policy, rc!Outcome, AccountType
    <3>2. Commands(p, u, outcomes, "attached") /\ At(p, u, "granted")
      BY <2>5 DEF AttachesPolicy, a
    <3> HIDE DEF outcomes
    <3> QED BY <3>1, <3>2 DEF Answer, a
  <2> QED BY <2>1, <2>2, <2>3, <2>4, <2>5 DEF ServerStep, c
<1> QED BY <1>1, <1>4, <1>5 DEF Answered

--------------------------------------------------------------------------------
(* The status. *)

(* What a write of the status says. *)
Says(p, u, object) ==
  LET c == task[p][u].cr IN
  \/ ~UserReady(object) /\ ~SecretReady(object)
     /\ object.password_hash = c.password_hash
  \/ /\ At(p, u, "filled") /\ object.password_hash = local[p][u].password
     /\ UserReady(object) = UserReady(c)
  \/ /\ ~SecretReady(object) /\ UserReady(object) = UserReady(c)
     /\ object.password_hash = c.password_hash
  \/ /\ At(p, u, "attached") /\ SecretReady(object) = SecretReady(c)
     /\ object.password_hash = c.password_hash

(* set_condition sets one condition and keeps the others.                  *)
LEMMA ConditionsSet ==
  ASSUME NEW x \in [ConditionTypes -> ConditionStatus],
         NEW type \in ConditionTypes, NEW status \in ConditionStatus
  PROVE  /\ set_condition(x, type, status) \in [ConditionTypes -> ConditionStatus]
         /\ set_condition(x, type, status)[type] = status
         /\ \A t \in ConditionTypes :
              t # type => set_condition(x, type, status)[t] = x[t]
  BY DEF set_condition

(* A status is written over a copy that is the stored object.              *)
LEMMA StatusGood ==
  ASSUME NEW k, Controller(k), AInv(k), NEW p \in Pods, NEW u \in Users,
         StatusStep(k, p, u)
  PROVE  /\ Good(k) /\ Settles /\ UNCHANGED <<companion, uid>> /\ OnlyKube
         /\ (CompanionCopies => CompanionCopies')
         /\ ~At(p, u, "idle")
         /\ \/ UNCHANGED cr
            \/ \E object \in k.crs :
                 /\ SameUser(k, object, task[p][u].cr)
                 /\ object.fins = task[p][u].cr.fins
                 /\ Says(p, u, object)
                 /\ Written(k, p, u, object) /\ task'[p][u] = Idle
<1> DEFINE c == task[p][u].cr
           valid == [ConditionTypes -> ConditionStatus]
<1>1. ~At(p, u, "idle") /\ OnlyCr
  BY DEF StatusStep, InitializesUser, SavesSecretReady, SavesSecretInvalid, Checks,
         PublishesUser, At
<1>2. c \in k.crs /\ Fields(k, c) /\ Writable(k, c)
  BY <1>1, HasCopy
<1>3. c.conditions \in valid /\ {"Unknown", "True", "False"} \subseteq ConditionStatus
  BY <1>2 DEF Fields, ConditionStatus
<1>4. TYPE_USER_READY \in ConditionTypes /\ TYPE_SECRET_READY \in ConditionTypes
      /\ TYPE_USER_READY # TYPE_SECRET_READY
  BY DEF ConditionTypes, TYPE_USER_READY, TYPE_SECRET_READY
<1> HIDE DEF c
<1>5. \A object : /\ UserReady(object) <=> object.conditions[TYPE_USER_READY] = "True"
                  /\ SecretReady(object)
                       <=> object.conditions[TYPE_SECRET_READY] = "True"
                  /\ UserReady(object) \in BOOLEAN
                  /\ SecretReady(object) \in BOOLEAN
  BY DEF UserReady, SecretReady, is_condition_true
<1>6. SUFFICES
        \E object \in k.crs, again \in BOOLEAN :
          /\ SameUser(k, object, c) /\ object.fins = c.fins
          /\ Says(p, u, object)
          /\ ReplaceStamped(p, u, object, again)
  <2>1. PICK object \in k.crs, again \in BOOLEAN :
          /\ SameUser(k, object, task[p][u].cr) /\ object.fins = task[p][u].cr.fins
          /\ Says(p, u, object)
          /\ ReplaceStamped(p, u, object, again)
    BY <1>6 DEF c
  <2> QED BY <1>1, <2>1, ReplaceGood
<1>7. ASSUME NEW x \in valid
      PROVE  LET object == WithConditions(c, x) IN
             /\ object \in k.crs
             /\ SameUser(k, object, c) /\ object.fins = c.fins
             /\ object.conditions = x
             /\ object.password_hash = c.password_hash
  BY <1>2 DEF Writable
<1>8. CASE InitializesUser(p, u)
  <2> DEFINE x == init_conditions(ConditionTypes)
             object == WithConditions(c, x)
  <2>1. x \in valid /\ \A t \in ConditionTypes : x[t] # "True"
    BY <1>3 DEF init_conditions
  <2>2. Replace(p, u, object, FALSE)
    BY <1>8 DEF InitializesUser, WithConditions, c
  <2> HIDE DEF x
  <2>3. /\ object \in k.crs
        /\ SameUser(k, object, c) /\ object.fins = c.fins
        /\ object.conditions = x
        /\ object.password_hash = c.password_hash
    BY <1>7, <2>1
  <2> HIDE DEF object
  <2>4. Says(p, u, object)
    BY <1>4, <1>5, <2>1, <2>3 DEF Says, c
  <2> QED BY <2>2, <2>3, <2>4 DEF ReplaceStamped
<1>9. CASE SavesSecretReady(p, u)
  <2> DEFINE d == WithHash(c, local[p][u].password)
             x == set_condition(d.conditions, TYPE_SECRET_READY, "True")
             object == WithConditions(d, x)
  <2>1. local[p][u].password \in Passwords \cup {NoData}
    <3>1. local[p][u] \in Local
      BY DEF AInv, ServerTypes
    <3> QED BY <3>1 DEF Local
  <2>2. /\ d \in k.crs /\ SameUser(k, d, c) /\ d.fins = c.fins
        /\ d.conditions = c.conditions /\ d.password_hash = local[p][u].password
    BY <1>2, <2>1 DEF Writable
  <2>3. Replace(p, u, object, FALSE) /\ At(p, u, "filled")
    BY <1>9 DEF SavesSecretReady, WithConditions, WithHash, c
  <2> HIDE DEF d
  <2>4. x \in valid /\ x[TYPE_USER_READY] = c.conditions[TYPE_USER_READY]
    BY <1>3, <1>4, <2>2, ConditionsSet
  <2> HIDE DEF x
  <2>5. Writable(k, d)
    BY <2>2 DEF Controller
  <2>6. /\ object \in k.crs /\ SameUser(k, object, d) /\ object.fins = d.fins
        /\ object.conditions = x /\ object.password_hash = d.password_hash
    BY <2>4, <2>5 DEF Writable
  <2> HIDE DEF object
  <2>7. SameUser(k, object, c) /\ object.fins = c.fins
    BY <2>2, <2>6 DEF SameUser
  <2>8. Says(p, u, object)
    BY <1>5, <2>2, <2>3, <2>4, <2>6 DEF Says, c
  <2> QED BY <2>3, <2>6, <2>7, <2>8 DEF ReplaceStamped
<1>10. CASE SavesSecretInvalid(p, u)
  <2> DEFINE x == set_condition(c.conditions, TYPE_SECRET_READY, "False")
             object == WithConditions(c, x)
  <2>1. /\ x \in valid /\ x[TYPE_SECRET_READY] = "False"
        /\ x[TYPE_USER_READY] = c.conditions[TYPE_USER_READY]
    BY <1>3, <1>4, ConditionsSet
  <2>2. Replace(p, u, object, FALSE)
    BY <1>10 DEF SavesSecretInvalid, WithConditions, c
  <2> HIDE DEF x
  <2>3. /\ object \in k.crs
        /\ SameUser(k, object, c) /\ object.fins = c.fins
        /\ object.conditions = x
        /\ object.password_hash = c.password_hash
    BY <1>7, <2>1
  <2> HIDE DEF object
  <2>4. Says(p, u, object)
    BY <1>5, <2>1, <2>3 DEF Says, c
  <2> QED BY <2>2, <2>3, <2>4 DEF ReplaceStamped
<1>11. CASE PublishesUser(p, u)
  <2> DEFINE x == set_condition(c.conditions, TYPE_USER_READY, "True")
             object == WithConditions(c, x)
  <2>1. /\ x \in valid
        /\ x[TYPE_SECRET_READY] = c.conditions[TYPE_SECRET_READY]
    BY <1>3, <1>4, ConditionsSet
  <2>2. ReplaceStamped(p, u, object, TRUE) /\ At(p, u, "attached")
    BY <1>11 DEF PublishesUser, WithConditions, c
  <2> HIDE DEF x
  <2>3. /\ object \in k.crs
        /\ SameUser(k, object, c) /\ object.fins = c.fins
        /\ object.conditions = x
        /\ object.password_hash = c.password_hash
    BY <1>7, <2>1
  <2> HIDE DEF object
  <2>4. Says(p, u, object)
    BY <1>5, <2>1, <2>2, <2>3 DEF Says, c
  <2> QED BY <2>2, <2>3, <2>4
<1> QED BY <1>8, <1>9, <1>10, <1>11 DEF StatusStep

(* So are the finalizers without that of the controller.                   *)
LEMMA FinalizesGood ==
  ASSUME NEW k, Controller(k), AInv(k), NEW p \in Pods, NEW u \in Users,
         FinalizesUser(p, u, k.fin)
  PROVE  /\ Good(k) /\ Settles /\ UNCHANGED <<companion, uid>> /\ OnlyKube
         /\ (CompanionCopies => CompanionCopies')
         /\ ~At(p, u, "idle")
         /\ \/ UNCHANGED cr
            \/ \E object \in k.crs :
                 /\ SameUser(k, object, task[p][u].cr)
                 /\ SameStatus(object, task[p][u].cr)
                 /\ object.fins = task[p][u].cr.fins \ {k.fin}
                 /\ Written(k, p, u, object) /\ task'[p][u] = Idle
<1> DEFINE c == task[p][u].cr
           x == c.fins \ {k.fin}
           object == WithFins(c, x)
<1>1. ~At(p, u, "idle") /\ OnlyCr
  BY DEF FinalizesUser, ReadyToFinalize, At
<1>2. c \in k.crs /\ Fields(k, c) /\ Writable(k, c)
  BY <1>1, HasCopy
<1>3. x \in SUBSET k.fins /\ x \cap Foreign = c.fins \cap Foreign
  BY <1>2 DEF Fields, Controller
<1>4. Replace(p, u, object, FALSE)
  BY DEF FinalizesUser, WithFins
<1> HIDE DEF x
<1>5. /\ object \in k.crs /\ SameUser(k, object, c) /\ SameStatus(object, c)
      /\ object.fins = x
  BY <1>2, <1>3 DEF Writable
<1> HIDE DEF object
<1>6. ReplaceStamped(p, u, object, FALSE)
  BY <1>4 DEF ReplaceStamped
<1> QED BY <1>1, <1>5, <1>6, ReplaceGood DEF x

--------------------------------------------------------------------------------
(* The Secret gets a new password. *)
LEMMA DrawsGood ==
  ASSUME NEW k, Controller(k), AInv(k), NEW p \in Pods, NEW u \in Users,
         DrawsPassword(p, u)
  PROVE  /\ Good(k) /\ UNCHANGED <<cr, companion, uid, account>>
         /\ (CompanionCopies => CompanionCopies')
         /\ task[p][u].pc \in Onward
         /\ Moves(p, u, "generated", task[p][u].cr)
         /\ LocalsKept(p, u)
         /\ local'[p][u].instance = local[p][u].instance
         /\ local'[p][u].password \in NewPasswords
<1>1. /\ Typed(UserSteps, k.crs, Passwords)
      /\ CInv(UserSteps, k.crs, Passwords)
      /\ u \in Objects
  BY Constants DEF AInv, Users
<1>2. task[p][u].pc \in Onward /\ UNCHANGED <<companion, uid, ready, account>>
  BY StepTypes DEF DrawsPassword, Rotates, At
<1>3. ~At(p, u, "idle") /\ task[p][u].dep # Absent
  BY <1>2, OnwardCopy
<1>4. Continues(p, u, "generated")
  BY DEF DrawsPassword
<1>5. /\ Keeps(UserSteps, k.crs, Passwords)
      /\ Moves(p, u, "generated", task[p][u].cr)
  BY <1>1, <1>2, <1>3, <1>4, ContinuesKeeps, StepTypes
<1>6. PICK password \in NewPasswords :
        local' = [local EXCEPT ![p][u].password = password]
  BY DEF DrawsPassword
<1>7. password \in Passwords
  BY DEF NewPasswords
<1> DEFINE l == [local[p][u] EXCEPT !.password = password]
<1>8. l \in Local /\ l.password = password /\ l.instance = local[p][u].instance
  <2>1. local[p][u] \in Local
    BY DEF AInv, ServerTypes
  <2> QED BY <1>7, <2>1 DEF Local
<1>9. local' = [local EXCEPT ![p][u] = l]
  BY <1>6
<1> HIDE DEF l
<1>10. /\ LocalsKept(p, u) /\ local'[p][u] = l
       /\ ServerTypes(k)'
  BY <1>2, <1>8, <1>9 DEF LocalsKept, AInv, ServerTypes
<1>11. Located(k)'
  BY <1>2, <1>5, <1>8, <1>10, OnwardCopy, MovedLocated DEF AInv
<1>12. UNCHANGED cr
  BY <1>4 DEF Continues
<1> QED BY <1>2, <1>5, <1>8, <1>10, <1>11, <1>12, KeptGood DEF Keeps

(* Writing the credentials writes no custom resource.                      *)
LEMMA FillsGood ==
  ASSUME NEW k, Controller(k), AInv(k), NEW p \in Pods, NEW u \in Users,
         FillsSecret(p, u)
  PROVE  /\ Good(k) /\ UNCHANGED cr /\ OnlyKube
         /\ (CompanionCopies => CompanionCopies')
         /\ Settles \/ Moves(p, u, "written", task[p][u].cr)
<1> DEFINE object == [task[p][u].dep EXCEPT !.data = local[p][u].password]
<1>1. /\ Typed(UserSteps, k.crs, Passwords)
      /\ CInv(UserSteps, k.crs, Passwords)
      /\ u \in Objects
  BY Constants DEF AInv, Users
<1>2. /\ task[p][u].pc \in Onward /\ OnlyKube
      /\ WriteCompanion(p, u, object, "written")
  BY StepTypes DEF FillsSecret, At
<1>3. /\ ~At(p, u, "idle")
      /\ task[p][u].dep # Absent
      /\ task[p][u].dep \in Secret
  BY <1>2, OnwardCopy
<1>4. local[p][u].password \in Passwords \cup {NoData}
  <2>1. local[p][u] \in Local
    BY DEF AInv, ServerTypes
  <2> QED BY <2>1 DEF Local
<1>5. object \in CompanionOf(Passwords)
  BY <1>3, <1>4 DEF Secret, CompanionOf
<1> HIDE DEF object
<1>6. /\ Keeps(UserSteps, k.crs, Passwords)
      /\ Settles \/ Moves(p, u, "written", task[p][u].cr)
      /\ UNCHANGED cr
  BY <1>1, <1>2, <1>3, <1>5, WriteKeeps, StepTypes
<1> QED BY <1>2, <1>6, SettledGood, MovedGood DEF Keeps

--------------------------------------------------------------------------------
(* Faults, users and other controllers. *)

(* Faults end reconciles and write no object.                              *)
LEMMA FaultGood ==
  ASSUME NEW k, Controller(k), AInv(k), NEW p \in Pods, UserFault(p)
  PROVE  /\ Good(k) /\ Settles /\ UNCHANGED <<cr, companion, uid>> /\ OnlyKube
         /\ (CompanionCopies => CompanionCopies')
<1>1. /\ Typed(UserSteps, k.crs, Passwords)
      /\ CInv(UserSteps, k.crs, Passwords)
      /\ Restarts(p) \/ \E o \in Objects : CallFails(p, o)
      /\ UNCHANGED <<companion, uid>> /\ OnlyKube
  BY Constants DEF AInv, Users, UserFault, OnlyCr
<1>2. Keeps(UserSteps, k.crs, Passwords) /\ Settles /\ UNCHANGED <<cr, edits>>
  BY <1>1, FaultKeeps
<1> QED BY <1>1, <1>2, SettledGood DEF Keeps

(* Edits that leave everything alone but the instances.                    *)
LEMMA ElsewhereGood ==
  ASSUME NEW k, Controller(k), AInv(k), Edit, ready' \subseteq Instances,
         UNCHANGED <<cr, task, due, companion, uid, account, local>>
  PROVE  /\ Good(k) /\ Settles
         /\ (CompanionCopies => CompanionCopies')
<1>1. /\ edits \in 0..MaxEdits /\ MaxEdits \in Nat /\ edits' = edits - 1 /\ edits > 0
      /\ UNCHANGED faults
  BY Constants DEF AInv, CInv, Sound, ReconcilerTypeOK, Typed, Edit
<1>2. edits' \in 0..MaxEdits /\ edits' =< edits /\ edits' # edits
  BY <1>1
<1>3. Sound(UserSteps, k.crs, CompanionOf(Passwords))'
  BY <1>1, <1>2 DEF AInv, CInv, Sound, ReconcilerTypeOK, CopiesOK
<1>4. Settles
  BY DEF Settles, Kept
<1>5. Beside(Passwords)' /\ (CompanionCopies => CompanionCopies')
  BY <1>1, <1>2, <1>4, SettledBeside DEF AInv, CInv
<1>6. Located(k)' /\ ServerTypes(k)'
  BY DEF AInv, Located, ServerTypes
<1> QED BY <1>2, <1>3, <1>4, <1>5, <1>6 DEF Good, AInv, CInv

(* Users and the garbage collector that change a Secret keep the types.    *)
LEMMA SecretGood ==
  ASSUME NEW k, Controller(k), AInv(k), NEW u \in Users, ChangeSecret(u)
  PROVE  /\ Good(k) /\ Settles /\ UNCHANGED cr /\ OnlyKube
         /\ (CompanionCopies => CompanionCopies')
<1>1. /\ Typed(UserSteps, k.crs, Passwords)
      /\ CInv(UserSteps, k.crs, Passwords)
      /\ u \in Objects /\ OnlyKube
  BY Constants DEF AInv, Users, ChangeSecret
<1>2. NewPasswords \cup {NoData} \subseteq Passwords \cup {NoData}
  BY DEF NewPasswords
<1>3. Keeps(UserSteps, k.crs, Passwords) /\ Settles /\ UNCHANGED cr
  BY <1>1, <1>2, OtherCompanionsKeep DEF ChangeSecret
<1> QED BY <1>1, <1>3, SettledGood DEF Keeps

(* So do users that create, edit and delete custom resources.              *)
LEMMA OwnersGood ==
  ASSUME NEW k, Controller(k), AInv(k), NEW u \in Users, Owners(k, u)
  PROVE  /\ Good(k) /\ Settles /\ OnlyKube
         /\ (CompanionCopies => CompanionCopies')
<1>1. /\ Typed(UserSteps, k.crs, Passwords)
      /\ CInv(UserSteps, k.crs, Passwords)
      /\ u \in Objects /\ OnlyKube
  BY Constants DEF AInv, Users, Owners, EditSpec, OnlyCr
<1>2. ASSUME NEW object \in k.new, CreateOwner(u, object)
      PROVE  Keeps(UserSteps, k.crs, Passwords) /\ Settles /\ edits' # edits
  <2>1. \A n \in Uids : [object EXCEPT !.uid = n] \in k.crs
    BY DEF Controller
  <2> QED BY <1>1, <1>2, <2>1, CreateOwnerKeeps
<1>3. ASSUME EditSpec(k, u)
      PROVE  Keeps(UserSteps, k.crs, Passwords) /\ Settles /\ edits' # edits
  BY <1>1, <1>3, WriteCrKeeps DEF EditSpec, OnlyCr
<1>4. ASSUME DeleteCr(u) \/ DropForeign(u), OnlyCr
      PROVE  Keeps(UserSteps, k.crs, Passwords) /\ Settles /\ edits' # edits
  <2>1. ASSUME NEW c \in k.crs
        PROVE  /\ [c EXCEPT !.deleting = TRUE] \in k.crs
               /\ [c EXCEPT !.fins = @ \ Foreign] \in k.crs
    <3>1. Fields(k, c) /\ Writable(k, c)
      BY DEF Controller
    <3>2. c.fins \ Foreign \in SUBSET k.fins
      BY <3>1 DEF Fields
    <3>3. WithDeletion(c) \in k.crs /\ WithFins(c, c.fins \ Foreign) \in k.crs
      BY <3>1, <3>2 DEF Writable
    <3> QED BY <3>3 DEF WithDeletion, WithFins
  <2> QED BY <1>1, <1>4, <2>1, DeleteKeeps DEF OnlyCr
<1>5. Keeps(UserSteps, k.crs, Passwords) /\ Settles /\ edits' # edits
  BY <1>2, <1>3, <1>4 DEF Owners
<1> QED BY <1>1, <1>5, SettledGood DEF Keeps

--------------------------------------------------------------------------------
(* Every step keeps the inductive invariant and the edits of users.        *)
LEMMA StepGood ==
  ASSUME NEW k, Controller(k), AInv(k), [AccountNext(k)]_accountVars
  PROVE  Good(k)
<1>1. ASSUME NEW p \in Pods, NEW u \in Users, UserStep(k, p, u)
      PROVE  Good(k)
  BY <1>1, StartsGood, KubeGood, FinalizerGood, LocateGood, StatusGood, ServerGood,
     FinalizesGood, DrawsGood, FillsGood DEF UserStep
<1>2. ASSUME NEW n \in Instances, ChangeInstance(n)
      PROVE  Good(k)
  <2>1. ready' \subseteq Instances
    BY <1>2 DEF ChangeInstance, AInv, ServerTypes
  <2> QED BY <1>2, <2>1, ElsewhereGood DEF ChangeInstance
<1>3. CASE ElsewhereEdit
  <2>1. ready' \subseteq Instances
    BY <1>3 DEF ElsewhereEdit, AInv, ServerTypes
  <2> QED BY <1>3, <2>1, ElsewhereGood DEF ElsewhereEdit
<1>4. CASE AccountNext(k)
  BY <1>1, <1>2, <1>3, <1>4, FaultGood, SecretGood, OwnersGood DEF AccountNext
<1>5. CASE UNCHANGED accountVars
  <2>1. AInv(k)'
    BY <1>5 DEF accountVars, AInv, ServerTypes, Located, CInv, Sound, ReconcilerTypeOK,
                CopiesOK, Beside, HoldsOK
  <2> QED BY <1>5, <2>1, UnchangedEdits DEF accountVars, Good
<1> QED BY <1>4, <1>5

(* The inductive invariant holds initially.                                *)
LEMMA InitGood ==
  ASSUME NEW k, Controller(k), ReconcilerInit, cr \in [Users -> k.crs \cup {Absent}],
         companion \in [Users -> Secret \cup {Absent}], uid = [u \in Users |-> 0],
         ready \subseteq Instances,
         account \in [Instances -> [Names -> AccountType(k.policies)]],
         local = [p \in Pods |-> [u \in Users |-> NoLocal]]
  PROVE  AInv(k)
<1>1. MaxEdits \in Nat /\ MaxFaults \in Nat /\ "idle" \in UserSteps
  BY StepTypes DEF Controller, UserConstantsAssumption
<1>2. Sound(UserSteps, k.crs, CompanionOf(Passwords))
  BY <1>1, InitSound DEF Users
<1>3. Beside(Passwords)
  <2>1. \A p \in Pods, o \in Objects : HoldsOK(task[p][o])
    BY IdleHolds DEF ReconcilerInit
  <2> QED BY <1>1, <2>1 DEF ReconcilerInit, Beside, Uids, Secret, Users
<1>4. Located(k)
  BY IdleBehind DEF Located, ReconcilerInit, Users
<1>5. ServerTypes(k)
  BY DEF ServerTypes, NoLocal, Local
<1> QED BY <1>2, <1>3, <1>4, <1>5 DEF AInv, CInv

(* Every reachable state is well typed.                                    *)
LEMMA AccountTyped ==
  ASSUME NEW k, AInv(k)  PROVE AccountTypeOK(k.crs, k.policies)
  BY DEF AInv, CInv, Sound, Beside, ServerTypes, AccountType, AccountTypeOK, Secret, Users

--------------------------------------------------------------------------------
(* Valid credentials stay, a user that is called ready has earned it and   *)
(* the promise of cleanup is kept, by a single pod for users that have     *)
(* different names on the servers.                                         *)

OwnNames == \A u, v \in Users : username(u) = username(v) => u = v

Marked(k, object) == object.deleting /\ k.fin \in object.fins

(* The steps of a reconcile that has seen to the owner of the Secret.      *)
Owning == Onward \cup {"owned", "claimed", "checked"}

(* The Secret of a user that still exists keeps that owner.                *)
OwnerKept(p, u) ==
  LET n == task[p][u].cr.uid IN
  cr[u] # Absent /\ cr[u].uid = n /\ companion[u] # Absent =>
    /\ task[p][u].pc = "marked" /\ n \in task[p][u].dep.owners
         => n \in companion[u].owners
    /\ task[p][u].pc \in Owning => n \in companion[u].owners

(* What a reconcile has established of its user, of the Secret and of the  *)
(* account.                                                                *)
Established(k, p, u) ==
  LET w == task[p][u]
      a == account[local[p][u].instance][username(u)] IN
  w.pc # "idle" =>
    /\ w.cr.uid =< uid[u]
    /\ Marked(k, w.cr) => cr[u] # Absent /\ Marked(k, cr[u])
    /\ cr[u] # Absent /\ SecretReady(cr[u]) => SecretReady(w.cr)
    /\ w.pc \in {"generated", "written", "filled"} => ~SecretReady(w.cr)
    /\ w.pc = "removed" => Marked(k, w.cr) /\ a.password = NoData
    /\ w.pc \in {"added", "informed", "granted", "attached"}
         => a.password = w.cr.password_hash
    /\ w.pc \in {"granted", "attached"} => a.policy = k.pol[w.cr]
    /\ w.pc = "attached" => a.attached
    /\ SetOwnerReference => OwnerKept(p, u)

(* What holds of a user whether it is reconciled or not: a valid Secret is *)
(* not garbage.                                                            *)
Standing(u) ==
  /\ cr[u] # Absent => cr[u].uid =< uid[u]
  /\ companion[u] # Absent /\ ~SetOwnerReference => companion[u].owners = {}
  /\ Valid(u) /\ SetOwnerReference => cr[u].uid \in companion[u].owners

BInv(k) ==
  /\ CompanionCopies
  /\ \A p \in Pods, u \in Users : Established(k, p, u)
  /\ \A u \in Users : Standing(u)

(* What a step does to a user: to its credentials, to its being ready, to  *)
(* its state as an owner in the sense of Cleanup.                          *)
Credentials(u) ==
  edits' = edits /\ Valid(u) =>
    companion'[u] # Absent /\ companion'[u].data = companion[u].data

Earns(k, u) ==
  BecomesUserReady(u) =>
    \E n \in k.home[cr'[u]] :
      account'[n][username(u)] =
        FullAccount(cr'[u].password_hash, k.pol[cr'[u]])

Turning(s, t) ==
  /\ {s, t} \subseteq {"none", "kept", "marked", "condemned"}
  /\ \/ s = t \/ s \in {"kept", "marked"}
     \/ s = "none" /\ t = "kept"
     \/ s = "condemned" /\ t = "marked"

(* A user is let go after its reconcile has removed it from the server.    *)
Lets(k, u) ==
  /\ StateOf(u, k.fin) = "condemned" /\ StateOf(u, k.fin)' \in {"kept", "none"}
  /\ \E p \in Pods :
       /\ At(p, u, "removed") /\ task[p][u].cr = cr[u]
       /\ account[local[p][u].instance][username(u)].password = NoData

TurnsUser(k, u) ==
  Turning(StateOf(u, k.fin), StateOf(u, k.fin)') \/ Lets(k, u)

(* A command changes what one server knows of a user.                      *)
Serves(k, p, u) ==
  LET n == local[p][u].instance IN
  /\ OthersKept(p, u) /\ UNCHANGED <<cr, local>>
  /\ {task[p][u].pc, task'[p][u].pc} \subseteq UserSteps \ CompanionSteps
  /\ n \in Instances
  /\ \A m \in Instances, x \in Users :
       m # n \/ x # u
         => account'[m][username(x)].password = account[m][username(x)].password
  /\ account'[n][username(u)].password = NoData
       => \/ account[n][username(u)].password = NoData
          \/ StateOf(u, k.fin) \in {"marked", "condemned"}

PromiseStep(k) ==
  \/ UNCHANGED account /\ \A u \in Users : TurnsUser(k, u)
  \/ \E p \in Pods, u \in Users : Serves(k, p, u)

ObjectKind(k, u) ==
  Standing(u)' /\ Credentials(u) /\ Earns(k, u) /\ TurnsUser(k, u)

(* What every step keeps. *)
Kind(k) ==
  /\ BInv(k)'
  /\ \A u \in Users : Credentials(u) /\ Earns(k, u)
  /\ PromiseStep(k)

--------------------------------------------------------------------------------
(* What a step leaves of x for the reconciles of x that wait. *)
Lasts(x) ==
  /\ cr'[x] # Absent =>
       \/ /\ cr[x] # Absent /\ cr'[x].uid = cr[x].uid
          /\ SecretReady(cr'[x]) => SecretReady(cr[x])
       \/ cr'[x].uid = uid[x] + 1 /\ ~SecretReady(cr'[x])
  /\ uid[x] =< uid'[x]

StaysOwned(x) ==
  companion'[x] # Absent /\ cr[x] # Absent =>
    /\ companion[x] # Absent
    /\ cr[x].uid \in companion[x].owners => cr[x].uid \in companion'[x].owners

Stays(k, x) ==
  /\ cr[x] # Absent /\ Marked(k, cr[x]) => cr'[x] # Absent /\ Marked(k, cr'[x])
  /\ Lasts(x)
  /\ StaysOwned(x)

(* uids are natural numbers.                                               *)
LEMMA UidsNatural ==
  ASSUME NEW k, Controller(k)
  PROVE  /\ AInv(k) => \A u \in Users : uid[u] \in Nat
         /\ AInv(k)' => \A u \in Users : uid'[u] \in Nat
         /\ \A c \in k.crs : c.uid \in Nat
<1>1. MaxEdits \in Nat /\ \A c \in k.crs : c.uid \in Uids
  BY DEF Controller, Fields, UserConstantsAssumption
<1> QED BY <1>1 DEF AInv, CInv, Beside, Uids, Users

(* What a reconcile has established stays so while it rests and nobody     *)
(* else touches its object, its Secret and its account.                    *)
LEMMA KeptEstablished ==
  ASSUME NEW k, Controller(k), AInv(k), AInv(k)', NEW q \in Pods, NEW x \in Users,
         Established(k, q, x), Kept(q, x), Stays(k, x),
         local'[q][x] = local[q][x] \/ At(q, x, "idle"),
         \A n \in Instances : account'[n][username(x)] = account[n][username(x)]
  PROVE  Established(k, q, x)'
<1>1. CASE At(q, x, "idle")
  BY <1>1 DEF At, Kept, Established
<1>2. CASE ~At(q, x, "idle")
  <2> DEFINE w == task[q][x]
             v == task'[q][x]
  <2>1. /\ v.pc = w.pc /\ v.cr = w.cr /\ v.dep = w.dep
        /\ w.cr.uid \in Nat /\ uid[x] \in Nat /\ uid'[x] \in Nat
        /\ w.pc \in Onward => local[q][x].instance \in Instances
    BY <1>2, HasCopy, UidsNatural, OnwardCopy DEF Kept
  <2>2. w.pc # "idle" /\ w.cr.uid =< uid[x]
    BY <1>2 DEF At, Established
  <2>3. w.cr.uid =< uid'[x] /\ w.cr.uid # uid[x] + 1
    BY <2>1, <2>2 DEF Stays, StaysOwned, Lasts
  <2>4. cr'[x] # Absent /\ SecretReady(cr'[x]) => SecretReady(w.cr)
    BY <2>2 DEF Stays, StaysOwned, Lasts, Established
  <2>5. SetOwnerReference => OwnerKept(q, x)'
    <3>1. ASSUME SetOwnerReference, cr'[x] # Absent, cr'[x].uid = w.cr.uid,
                 companion'[x] # Absent
          PROVE  /\ cr[x] # Absent /\ cr[x].uid = w.cr.uid /\ companion[x] # Absent
                 /\ w.cr.uid \in companion[x].owners
                      => w.cr.uid \in companion'[x].owners
                 /\ OwnerKept(q, x)
      BY <2>2, <2>3, <3>1 DEF Stays, StaysOwned, Lasts, Established
    <3> HIDE DEF w, v
    <3>2. w = task[q][x] /\ v = task'[q][x]
      BY DEF w, v
    <3> QED BY <2>1, <3>1, <3>2 DEF OwnerKept
  <2>6. w.pc \in {"removed", "added", "informed", "granted", "attached"}
          => account'[local'[q][x].instance][username(x)]
               = account[local[q][x].instance][username(x)]
    BY <1>2, <2>1, StepTypes
  <2> HIDE DEF w, v
  <2>7. w = task[q][x] /\ v = task'[q][x]
    BY DEF w, v
  <2> QED BY <2>1, <2>2, <2>3, <2>4, <2>5, <2>6, <2>7 DEF Established, Stays, Lasts
<1> QED BY <1>1, <1>2

(* A reconcile that has ended claims nothing.                              *)
LEMMA IdleEstablished ==
  ASSUME NEW k, NEW q \in Pods, NEW x \in Users, task'[q][x] = Idle
  PROVE  Established(k, q, x)'
  BY IdleHolds DEF Established

(* The states of an owner are those of Cleanup.                            *)
LEMMA StatesOf ==
  ASSUME NEW u, NEW fin
  PROVE  /\ StateOf(u, fin) \in {"none", "kept", "marked", "condemned"}
         /\ StateOf(u, fin)' \in {"none", "kept", "marked", "condemned"}
  BY DEF StateOf

(* An object that is not written, with its Secret, stays as it is.         *)
LEMMA SameObject ==
  ASSUME NEW k, Controller(k), AInv(k), NEW x \in Users, Standing(x),
         cr'[x] = cr[x], companion'[x] = companion[x], uid'[x] = uid[x]
  PROVE  Stays(k, x) /\ ObjectKind(k, x)
<1>1. uid[x] \in Nat
  BY UidsNatural
<1>2. StateOf(x, k.fin)' = StateOf(x, k.fin)
  BY DEF StateOf
<1>3. TurnsUser(k, x)
  BY <1>2, StatesOf DEF TurnsUser, Turning
<1>4. Valid(x)' = Valid(x)
  BY DEF Valid
<1>5. Standing(x)'
  BY <1>4 DEF Standing
<1>6. Stays(k, x)
  BY <1>1 DEF Stays, StaysOwned, Lasts
<1>7. Credentials(x)
  BY DEF Credentials, Valid
<1>8. Earns(k, x)
  BY DEF Earns, BecomesUserReady
<1> QED BY <1>3, <1>5, <1>6, <1>7, <1>8 DEF ObjectKind

(* A step that lets no reconcile go on. *)
LEMMA SettledKind ==
  ASSUME NEW k, Controller(k), AInv(k), AInv(k)', BInv(k), CompanionCopies',
         Settles, UNCHANGED account,
         \A q \in Pods, x \in Users :
           local'[q][x] = local[q][x] \/ At(q, x, "idle") \/ task'[q][x] = Idle,
         \A x \in Users : ObjectKind(k, x),
         \A x \in Users : Stays(k, x) \/ \A q \in Pods : task'[q][x] = Idle
  PROVE  Kind(k)
<1>1. ASSUME NEW q \in Pods, NEW x \in Users
      PROVE  Established(k, q, x)'
  <2>1. CASE task'[q][x] = Idle
    BY <2>1, IdleEstablished
  <2>2. CASE task'[q][x] # Idle
    <3>1. /\ Kept(q, x) /\ Stays(k, x) /\ Established(k, q, x)
          /\ local'[q][x] = local[q][x] \/ At(q, x, "idle")
      BY <2>2 DEF Settles, Users, BInv
    <3> QED BY <3>1, KeptEstablished
  <2> QED BY <2>1, <2>2
<1>2. BInv(k)'
  BY <1>1 DEF BInv, ObjectKind
<1> QED BY <1>2 DEF Kind, ObjectKind, PromiseStep

(* A reconcile of a single pod goes on. *)
LEMMA MovedKind ==
  ASSUME NEW k, Controller(k), OnePod, AInv(k), AInv(k)', BInv(k), CompanionCopies',
         NEW p \in Pods, NEW u \in Users, OthersKept(p, u), LocalsKept(p, u),
         UNCHANGED account,
         \A x \in Users : x # u => /\ cr'[x] = cr[x]
                                   /\ companion'[x] = companion[x]
                                   /\ uid'[x] = uid[x],
         ObjectKind(k, u), Established(k, p, u)'
  PROVE  Kind(k)
<1>1. \A x \in Users : x # u => Stays(k, x) /\ ObjectKind(k, x)
  BY SameObject DEF BInv
<1>2. ASSUME NEW q \in Pods, NEW x \in Users
      PROVE  Established(k, q, x)'
  <2>1. CASE x = u
    BY <2>1 DEF OnePod
  <2>2. CASE x # u
    <3>1. /\ Kept(q, x) /\ Stays(k, x) /\ Established(k, q, x)
          /\ local'[q][x] = local[q][x]
      BY <1>1, <2>2 DEF OthersKept, Users, BInv, LocalsKept
    <3> QED BY <3>1, KeptEstablished
  <2> QED BY <2>1, <2>2
<1>3. \A x \in Users : ObjectKind(k, x)
  BY <1>1
<1>4. BInv(k)'
  BY <1>2, <1>3 DEF BInv, ObjectKind
<1> QED BY <1>3, <1>4 DEF Kind, ObjectKind, PromiseStep

--------------------------------------------------------------------------------
(* What a reconcile that goes on has established. *)

(* An owner reference that a reconcile has seen stays on the Secret.       *)
LEMMA OwnerKeeps ==
  ASSUME NEW k, Controller(k), AInv(k), AInv(k)', NEW p \in Pods, NEW u \in Users,
         Established(k, p, u), task[p][u].pc \in Owning, Lasts(u), StaysOwned(u),
         task'[p][u].cr.uid = task[p][u].cr.uid, SetOwnerReference
  PROVE  OwnerKept(p, u)'
<1> DEFINE n == task[p][u].cr.uid
<1>1. ~At(p, u, "idle")
  BY DEF Owning, Onward, CompanionSteps, At
<1>2. /\ n =< uid[u] /\ OwnerKept(p, u)
      /\ n \in Nat /\ uid[u] \in Nat
  BY <1>1, HasCopy, UidsNatural DEF Established, At
<1>3. n # uid[u] + 1
  BY <1>2
<1> HIDE DEF n
<1>4. n = task[p][u].cr.uid
  BY DEF n
<1>5. ASSUME cr'[u] # Absent, cr'[u].uid = n, companion'[u] # Absent
      PROVE  n \in companion'[u].owners
  <2>1. cr[u] # Absent /\ cr[u].uid = n
    BY <1>3, <1>5 DEF Stays, StaysOwned, Lasts
  <2>2. /\ companion[u] # Absent
        /\ n \in companion[u].owners => n \in companion'[u].owners
    BY <1>5, <2>1 DEF StaysOwned
  <2> QED BY <1>2, <1>4, <2>1, <2>2 DEF OwnerKept
<1> QED BY <1>4, <1>5 DEF OwnerKept

(* A step that the server takes no part in establishes what the next one   *)
(* relies on.                                                              *)
LEMMA AdvancedEstablished ==
  ASSUME NEW k, Controller(k), AInv(k), AInv(k)', NEW p \in Pods, NEW u \in Users,
         ~At(p, u, "idle"), Established(k, p, u), Lasts(u), NEW step, NEW object,
         Moves(p, u, step, object),
         object.uid = task[p][u].cr.uid,
         SecretReady(task[p][u].cr) => SecretReady(object),
         Marked(k, object) => cr'[u] # Absent /\ Marked(k, cr'[u]),
         step \in {"generated", "written", "filled"} => ~SecretReady(object),
         step \notin {"removed", "added", "informed", "granted", "attached"},
         SetOwnerReference => OwnerKept(p, u)'
  PROVE  Established(k, p, u)'
<1> DEFINE c == task[p][u].cr
           v == task'[p][u]
<1>1. /\ c.uid =< uid[u]
      /\ c.uid \in Nat /\ uid[u] \in Nat /\ uid'[u] \in Nat
      /\ cr[u] # Absent /\ SecretReady(cr[u]) => SecretReady(c)
  BY HasCopy, UidsNatural DEF Established, At
<1>2. v.pc = step /\ v.cr = object
  BY DEF Moves
<1>3. object.uid =< uid'[u]
  BY <1>1 DEF Lasts
<1>4. cr'[u] # Absent /\ SecretReady(cr'[u]) => SecretReady(object)
  BY <1>1 DEF Lasts
<1> HIDE DEF v
<1>5. v = task'[p][u]
  BY DEF v
<1> QED BY <1>2, <1>3, <1>4, <1>5 DEF Established

(* The steps before the owner is seen to. *)
LEMMA OwnerOpen ==
  ASSUME NEW p \in Pods, NEW u \in Users, task'[p][u].pc \notin Owning \cup {"marked"}
  PROVE  OwnerKept(p, u)'
  BY DEF OwnerKept

(* Starting a reconcile keeps the promises.                                *)
LEMMA StartsKind ==
  ASSUME NEW k, Controller(k), OnePod, AInv(k), BInv(k),
         NEW p \in Pods, NEW u \in Users, StartsUser(p, u)
  PROVE  Kind(k)
<1>1. /\ Good(k) /\ UNCHANGED <<cr, companion, uid, account>> /\ LocalsKept(p, u)
      /\ CompanionCopies' /\ At(p, u, "idle")
      /\ \/ Settles
         \/ cr[u] # Absent /\ Moves(p, u, "read", cr[u])
  BY StartsGood DEF BInv
<1>2. AInv(k)'
  BY <1>1 DEF Good
<1>3. \A x \in Users : Stays(k, x) /\ ObjectKind(k, x)
  BY <1>1, SameObject DEF BInv
<1>4. CASE Settles
  <2>1. \A q \in Pods, x \in Users :
          local'[q][x] = local[q][x] \/ At(q, x, "idle")
    BY <1>1 DEF LocalsKept
  <2> QED BY <1>1, <1>2, <1>3, <1>4, <2>1, SettledKind
<1>5. CASE cr[u] # Absent /\ Moves(p, u, "read", cr[u])
  <2> DEFINE v == task'[p][u]
  <2>1. v.pc = "read" /\ v.cr = cr[u] /\ cr'[u] = cr[u] /\ uid'[u] = uid[u]
    BY <1>1, <1>5 DEF Moves
  <2>2. cr[u].uid =< uid[u]
    BY <1>5 DEF BInv, Standing
  <2>3. OwnerKept(p, u)'
    BY <2>1, OwnerOpen DEF Owning, Onward, CompanionSteps
  <2> HIDE DEF v
  <2>4. v = task'[p][u]
    BY DEF v
  <2>5. Established(k, p, u)'
    BY <1>5, <2>1, <2>2, <2>3, <2>4 DEF Established
  <2>6. OthersKept(p, u)
    BY <1>5 DEF Moves
  <2> QED BY <1>1, <1>2, <1>3, <2>5, <2>6, MovedKind
<1> QED BY <1>1, <1>4, <1>5

(* So does finding the server.                                             *)
LEMMA LocateKind ==
  ASSUME NEW k, Controller(k), OnePod, AInv(k), BInv(k),
         NEW p \in Pods, NEW u \in Users, LocateStep(k, p, u)
  PROVE  Kind(k)
<1>1. /\ Good(k) /\ UNCHANGED <<cr, companion, uid, account>>
      /\ CompanionCopies' /\ ~At(p, u, "idle")
      /\ \/ Settles /\ UNCHANGED local
         \/ \E step \in {"located", "connected"} :
              Moves(p, u, step, task[p][u].cr) /\ LocalsKept(p, u)
  BY LocateGood DEF BInv
<1>2. AInv(k)'
  BY <1>1 DEF Good
<1>3. \A x \in Users : Stays(k, x) /\ ObjectKind(k, x)
  BY <1>1, SameObject DEF BInv
<1>4. CASE Settles /\ UNCHANGED local
  BY <1>1, <1>2, <1>3, <1>4, SettledKind
<1>5. ASSUME NEW step \in {"located", "connected"}, Moves(p, u, step, task[p][u].cr),
             LocalsKept(p, u)
      PROVE  Kind(k)
  <2>1. task[p][u].pc \in Owning
    BY StepTypes DEF LocateStep, Owning
  <2>2. Established(k, p, u) /\ Lasts(u) /\ StaysOwned(u)
    BY <1>3 DEF BInv, Stays
  <2>3. task'[p][u].cr = task[p][u].cr
    BY <1>5 DEF Moves
  <2>4. SetOwnerReference => OwnerKept(p, u)'
    BY <1>2, <2>1, <2>2, <2>3, OwnerKeeps
  <2>5. Marked(k, task[p][u].cr) => cr'[u] # Absent /\ Marked(k, cr'[u])
    BY <1>1, <2>2 DEF Established, At
  <2>6. Established(k, p, u)'
    BY <1>1, <1>2, <1>5, <2>2, <2>4, <2>5, AdvancedEstablished
  <2>7. OthersKept(p, u)
    BY <1>5 DEF Moves
  <2> QED BY <1>1, <1>2, <1>3, <1>5, <2>6, <2>7, MovedKind
<1> QED BY <1>1, <1>4, <1>5

(* So does drawing a password, which is not yet in the Secret.             *)
LEMMA DrawsKind ==
  ASSUME NEW k, Controller(k), OnePod, AInv(k), BInv(k),
         NEW p \in Pods, NEW u \in Users, DrawsPassword(p, u)
  PROVE  Kind(k)
<1>1. /\ Good(k) /\ UNCHANGED <<cr, companion, uid, account>>
      /\ CompanionCopies' /\ task[p][u].pc \in Onward
      /\ Moves(p, u, "generated", task[p][u].cr) /\ LocalsKept(p, u)
  BY DrawsGood DEF BInv
<1>2. AInv(k)' /\ ~At(p, u, "idle") /\ task[p][u].pc \in Owning
  BY <1>1, OnwardCopy DEF Good, Owning
<1>3. \A x \in Users : Stays(k, x) /\ ObjectKind(k, x)
  BY <1>1, SameObject DEF BInv
<1>4. Established(k, p, u) /\ Lasts(u) /\ StaysOwned(u)
  BY <1>3 DEF BInv, Stays
<1>5. task'[p][u].cr = task[p][u].cr /\ OthersKept(p, u)
  BY <1>1 DEF Moves
<1>6. SetOwnerReference => OwnerKept(p, u)'
  BY <1>2, <1>4, <1>5, OwnerKeeps
<1>7. Marked(k, task[p][u].cr) => cr'[u] # Absent /\ Marked(k, cr'[u])
  BY <1>1, <1>2, <1>4 DEF Established, At
<1>8. ~SecretReady(task[p][u].cr)
  BY DEF DrawsPassword, Rotates
<1>9. Established(k, p, u)'
  BY <1>1, <1>2, <1>4, <1>6, <1>7, <1>8, AdvancedEstablished
<1> QED BY <1>1, <1>2, <1>3, <1>5, <1>9, MovedKind

(* A step that changes neither objects nor Secrets nor accounts.           *)
LEMMA QuietKind ==
  ASSUME NEW k, Controller(k), AInv(k), BInv(k), Good(k), Settles, CompanionCopies',
         UNCHANGED <<cr, companion, uid, account, local>>
  PROVE  Kind(k)
<1>1. \A x \in Users : Stays(k, x) /\ ObjectKind(k, x)
  BY SameObject DEF BInv
<1> QED BY <1>1, SettledKind DEF Good

(* The only reconcile of u writes its object and ends. *)
LEMMA ReplacedKind ==
  ASSUME NEW k, Controller(k), OnePod, AInv(k), BInv(k), Good(k), CompanionCopies',
         NEW p \in Pods, NEW u \in Users, Settles, OnlyKube,
         UNCHANGED <<companion, uid>>, task'[p][u] = Idle, NEW object,
         Written(k, p, u, object), ObjectKind(k, u)
  PROVE  Kind(k)
<1>1. ASSUME NEW x \in Users, x # u
      PROVE  Stays(k, x) /\ ObjectKind(k, x)
  BY <1>1, SameObject DEF Written, BInv
<1>2. \A q \in Pods : task'[q][u] = Idle
  BY DEF OnePod
<1>3. UNCHANGED <<account, local>>
  BY DEF OnlyKube
<1> QED BY <1>1, <1>2, <1>3, SettledKind DEF Good

(* So does a status: it has the hash of the password in the Secret, and    *)
(* says ready when the account is as the spec says.                        *)
LEMMA StatusKind ==
  ASSUME NEW k, Controller(k), OnePod, AInv(k), BInv(k),
         NEW p \in Pods, NEW u \in Users, StatusStep(k, p, u)
  PROVE  Kind(k)
<1> DEFINE c == task[p][u].cr
           a == account[local[p][u].instance][username(u)]
<1>1. /\ Good(k) /\ Settles /\ UNCHANGED <<companion, uid>> /\ OnlyKube
      /\ CompanionCopies' /\ ~At(p, u, "idle")
      /\ \/ UNCHANGED cr
         \/ \E object \in k.crs :
              /\ SameUser(k, object, task[p][u].cr)
              /\ object.fins = task[p][u].cr.fins
              /\ Says(p, u, object)
              /\ Written(k, p, u, object) /\ task'[p][u] = Idle
  BY StatusGood DEF BInv
<1>2. UNCHANGED <<account, local>>
  BY <1>1 DEF OnlyKube
<1>3. CASE UNCHANGED cr
  BY <1>1, <1>2, <1>3, QuietKind
<1>4. ASSUME NEW object \in k.crs, SameUser(k, object, c), object.fins = c.fins,
             Says(p, u, object), Written(k, p, u, object), task'[p][u] = Idle
      PROVE  Kind(k)
  <2>1. /\ cr[u] = c /\ c # Absent /\ Standing(u) /\ Established(k, p, u)
        /\ \/ cr'[u] = object /\ object # Absent
           \/ cr'[u] = Absent /\ object.deleting /\ object.fins = {}
    BY <1>4 DEF Written, BInv
  <2>2. /\ object.uid = c.uid /\ object.deleting = c.deleting
        /\ object.cleanup = c.cleanup /\ object.fins = c.fins
        /\ k.pol[object] = k.pol[c] /\ k.home[object] = k.home[c]
    BY <1>4 DEF SameUser
  <2>3. TurnsUser(k, u)
    <3>1. CASE cr'[u] = object /\ object # Absent
      <4>1. StateOf(u, k.fin)' = StateOf(u, k.fin)
        BY <2>1, <2>2, <3>1 DEF StateOf
      <4> QED BY <4>1, StatesOf DEF TurnsUser, Turning
    <3>2. CASE cr'[u] = Absent /\ object.fins = {}
      <4>1. StateOf(u, k.fin)' = "none" /\ StateOf(u, k.fin) = "kept"
        BY <2>1, <2>2, <3>2 DEF StateOf
      <4> QED BY <4>1 DEF TurnsUser, Turning
    <3> QED BY <2>1, <3>1, <3>2
  <2>4. Credentials(u)
    BY <1>1 DEF Credentials, Valid
  <2>5. ASSUME cr'[u] = object, SecretReady(object), SetOwnerReference,
               companion[u] # Absent
        PROVE  object.uid \in companion[u].owners
    <3>1. At(p, u, "filled") \/ At(p, u, "attached")
      BY <1>4, <2>5 DEF Says
    <3>2. task[p][u].pc \in Owning /\ task[p][u].pc # "idle"
      BY <3>1, StepTypes DEF Owning, At, Onward
    <3>3. OwnerKept(p, u)
      BY <2>1, <2>5, <3>2 DEF Established
    <3> QED BY <2>1, <2>2, <2>5, <3>2, <3>3 DEF OwnerKept
  <2>6. Standing(u)'
    BY <1>1, <2>1, <2>2, <2>5 DEF Standing, Valid
  <2>7. Earns(k, u)
    <3>1. SUFFICES ASSUME BecomesUserReady(u)
                   PROVE  \E n \in k.home[cr'[u]] :
                            account'[n][username(u)] =
                              FullAccount(cr'[u].password_hash, k.pol[cr'[u]])
      BY DEF Earns
    <3>2. cr'[u] = object /\ UserReady(object) /\ ~UserReady(c)
      BY <2>1, <3>1 DEF BecomesUserReady
    <3>3. At(p, u, "attached") /\ object.password_hash = c.password_hash
      BY <1>4, <3>2 DEF Says
    <3>4. task[p][u].pc \in Onward
      BY <3>3, StepTypes DEF At
    <3>5. /\ local[p][u].instance \in k.home[c]
          /\ a \in AccountType(k.policies)
      BY <3>4, OnwardCopy DEF Current
    <3>6. a.password = c.password_hash /\ a.policy = k.pol[c] /\ a.attached
      BY <2>1, <3>3 DEF Established, At
    <3>7. a = FullAccount(c.password_hash, k.pol[c])
      BY <3>5, <3>6 DEF AccountType, FullAccount
    <3> QED BY <1>2, <2>2, <3>2, <3>3, <3>5, <3>7
  <2>8. ObjectKind(k, u)
    BY <2>3, <2>4, <2>6, <2>7 DEF ObjectKind
  <2> QED BY <1>1, <1>4, <2>8, ReplacedKind
<1> QED BY <1>1, <1>3, <1>4

(* So does taking the finalizer off, as the account is gone.               *)
LEMMA FinalizesKind ==
  ASSUME NEW k, Controller(k), OnePod, AInv(k), BInv(k),
         NEW p \in Pods, NEW u \in Users, FinalizesUser(p, u, k.fin)
  PROVE  Kind(k)
<1> DEFINE c == task[p][u].cr
<1>1. /\ Good(k) /\ Settles /\ UNCHANGED <<companion, uid>> /\ OnlyKube
      /\ CompanionCopies' /\ ~At(p, u, "idle")
      /\ \/ UNCHANGED cr
         \/ \E object \in k.crs :
              /\ SameUser(k, object, task[p][u].cr)
              /\ SameStatus(object, task[p][u].cr)
              /\ object.fins = task[p][u].cr.fins \ {k.fin}
              /\ Written(k, p, u, object) /\ task'[p][u] = Idle
  BY FinalizesGood DEF BInv
<1>2. UNCHANGED <<account, local>>
  BY <1>1 DEF OnlyKube
<1>3. CASE UNCHANGED cr
  BY <1>1, <1>2, <1>3, QuietKind
<1>4. ASSUME NEW object \in k.crs, SameUser(k, object, c), SameStatus(object, c),
             object.fins = c.fins \ {k.fin},
             Written(k, p, u, object), task'[p][u] = Idle
      PROVE  Kind(k)
  <2>1. /\ cr[u] = c /\ c # Absent /\ Standing(u) /\ Established(k, p, u)
        /\ cr'[u] = object \/ cr'[u] = Absent
    BY <1>4 DEF Written, BInv
  <2>2. /\ object.uid = c.uid /\ object.cleanup = c.cleanup
        /\ object.deleting = c.deleting
        /\ object.password_hash = c.password_hash
        /\ object.conditions = c.conditions
    BY <1>4 DEF SameUser, SameStatus
  <2>3. UserReady(object) = UserReady(c) /\ SecretReady(object) = SecretReady(c)
    BY <2>2 DEF UserReady, SecretReady
  <2>4. StateOf(u, k.fin)' \in {"kept", "none"}
    BY <1>4, <2>1 DEF StateOf
  <2>5. TurnsUser(k, u)
    <3>1. CASE StateOf(u, k.fin) = "condemned"
      <4>1. Marked(k, c)
        BY <2>1, <3>1 DEF StateOf, Marked
      <4>2. At(p, u, "removed")
        BY <4>1 DEF FinalizesUser, ReadyToFinalize, Marked
      <4>3. account[local[p][u].instance][username(u)].password = NoData
        BY <2>1, <4>2 DEF Established, At
      <4> QED BY <2>1, <2>4, <3>1, <4>2, <4>3 DEF TurnsUser, Lets
    <3>2. CASE StateOf(u, k.fin) # "condemned"
      BY <2>1, <2>4, <3>2 DEF TurnsUser, Turning, StateOf
    <3> QED BY <3>1, <3>2
  <2>6. Credentials(u)
    BY <1>1 DEF Credentials, Valid
  <2>7. Standing(u)'
    BY <1>1, <2>1, <2>2, <2>3 DEF Standing, Valid
  <2>8. Earns(k, u)
    BY <2>1, <2>3 DEF Earns, BecomesUserReady
  <2>9. ObjectKind(k, u)
    BY <2>5, <2>6, <2>7, <2>8 DEF ObjectKind
  <2> QED BY <1>1, <1>4, <2>9, ReplacedKind
<1> QED BY <1>1, <1>3, <1>4

(* So does a fault.                                                        *)
LEMMA FaultKind ==
  ASSUME NEW k, Controller(k), AInv(k), BInv(k), NEW p \in Pods, UserFault(p)
  PROVE  Kind(k)
<1>1. /\ Good(k) /\ Settles /\ UNCHANGED <<cr, companion, uid>> /\ OnlyKube
      /\ CompanionCopies'
  BY FaultGood DEF BInv
<1> QED BY <1>1, QuietKind DEF OnlyKube

(* So does the finalizer that follows spec.cleanup.                        *)
LEMMA FinalizerKind ==
  ASSUME NEW k, Controller(k), OnePod, AInv(k), BInv(k),
         NEW p \in Pods, NEW u \in Users, FinalizerStep(k, p, u)
  PROVE  Kind(k)
<1> DEFINE c == task[p][u].cr
<1>1. /\ Good(k) /\ OnlyKube /\ UNCHANGED <<companion, uid>> /\ ~At(p, u, "idle")
      /\ CompanionCopies'
      /\ \/ Settles /\ UNCHANGED cr
         \/ Moves(p, u, "checked", task[p][u].cr) /\ UNCHANGED cr
         \/ \E object \in k.crs :
              /\ SameUser(k, object, task[p][u].cr)
              /\ SameStatus(object, task[p][u].cr)
              /\ object.fins = k.wanted[task[p][u].cr]
              /\ Written(k, p, u, object)
              /\ Moves(p, u, "checked", object)
  BY FinalizerGood DEF BInv
<1>2. UNCHANGED <<account, local>> /\ LocalsKept(p, u)
  BY <1>1 DEF OnlyKube, LocalsKept
<1>3. /\ AInv(k)' /\ Established(k, p, u) /\ Standing(u)
      /\ task[p][u].pc \in Owning /\ StaysOwned(u)
  BY <1>1 DEF Good, BInv, FinalizerStep, ReplaceFinalizers, Owning, At, StaysOwned
<1>4. CASE Settles /\ UNCHANGED cr
  BY <1>1, <1>2, <1>4, QuietKind
<1>5. ASSUME NEW object, Moves(p, u, "checked", object), Lasts(u),
             object.uid = c.uid, SecretReady(c) => SecretReady(object),
             Marked(k, object) => cr'[u] # Absent /\ Marked(k, cr'[u]),
             \A x \in Users : x # u => cr'[x] = cr[x],
             ObjectKind(k, u)
      PROVE  Kind(k)
  <2>1. task'[p][u].cr.uid = task[p][u].cr.uid /\ OthersKept(p, u)
    BY <1>5 DEF Moves
  <2>2. SetOwnerReference => OwnerKept(p, u)'
    BY <1>3, <1>5, <2>1, OwnerKeeps
  <2>3. Established(k, p, u)'
    BY <1>1, <1>3, <1>5, <2>2, AdvancedEstablished
  <2> QED BY <1>1, <1>2, <1>3, <1>5, <2>1, <2>3, MovedKind
<1>6. CASE Moves(p, u, "checked", task[p][u].cr) /\ UNCHANGED cr
  <2>1. Stays(k, u) /\ ObjectKind(k, u)
    BY <1>1, <1>3, <1>6, SameObject
  <2>2. Lasts(u)
    BY <2>1 DEF Stays
  <2>3. Marked(k, c) => cr'[u] # Absent /\ Marked(k, cr'[u])
    BY <1>1, <1>3, <1>6 DEF Established, At
  <2> QED BY <1>5, <1>6, <2>1, <2>2, <2>3
<1>7. ASSUME NEW object \in k.crs, SameUser(k, object, c), SameStatus(object, c),
             object.fins = k.wanted[c], Written(k, p, u, object),
             Moves(p, u, "checked", object)
      PROVE  Kind(k)
  <2>1. /\ cr[u] = c /\ c # Absent /\ c \in k.crs
        /\ cr[u].deleting => object.fins \subseteq cr[u].fins
        /\ \A x \in Users : x # u => cr'[x] = cr[x]
        /\ \/ cr'[u] = object /\ object # Absent
           \/ cr'[u] = Absent /\ object.deleting /\ object.fins = {}
    BY <1>7 DEF Written
  <2>2. /\ object.uid = c.uid /\ object.cleanup = c.cleanup
        /\ object.deleting = c.deleting
        /\ object.password_hash = c.password_hash
        /\ object.conditions = c.conditions
    BY <1>7 DEF SameUser, SameStatus
  <2>3. UserReady(object) = UserReady(c) /\ SecretReady(object) = SecretReady(c)
    BY <2>2 DEF UserReady, SecretReady
  <2>4. c.cleanup => k.fin \in object.fins
    BY <1>7, <2>1 DEF Controller
  <2>5. uid[u] \in Nat
    BY UidsNatural
  <2>6. Lasts(u)
    BY <1>1, <2>1, <2>2, <2>3, <2>5 DEF Lasts
  <2>7. Marked(k, object) => cr'[u] # Absent /\ Marked(k, cr'[u])
    BY <2>1 DEF Marked
  <2>8. TurnsUser(k, u)
    <3>1. StateOf(u, k.fin) # "none"
      BY <2>1 DEF StateOf
    <3>2. CASE StateOf(u, k.fin) = "condemned"
      <4>1. c.deleting /\ c.cleanup /\ k.fin \in object.fins
        BY <2>1, <2>4, <3>2 DEF StateOf
      <4>2. StateOf(u, k.fin)' = "condemned"
        BY <2>1, <2>2, <4>1 DEF StateOf
      <4> QED BY <3>2, <4>2 DEF TurnsUser, Turning
    <3> QED BY <3>1, <3>2, StatesOf DEF TurnsUser, Turning
  <2>9. Credentials(u) /\ Standing(u)' /\ Earns(k, u)
    <3>1. Credentials(u)
      BY <1>1 DEF Credentials, Valid
    <3>2. Standing(u)'
      BY <1>1, <1>3, <2>1, <2>2, <2>3 DEF Standing, Valid
    <3>3. Earns(k, u)
      BY <2>1, <2>3 DEF Earns, BecomesUserReady
    <3> QED BY <3>1, <3>2, <3>3
  <2>10. ObjectKind(k, u)
    BY <2>8, <2>9 DEF ObjectKind
  <2> QED BY <1>5, <1>7, <2>1, <2>2, <2>3, <2>6, <2>7, <2>10
<1> QED BY <1>1, <1>4, <1>6, <1>7

--------------------------------------------------------------------------------
(* The Secret of u is left, is new and empty, or gets another owner; its   *)
(* data is only written while it is not known to be right.                 *)
Grows(u) ==
  LET old == companion[u]
      new == companion'[u] IN
  \/ new = old
  \/ old = Absent /\ new.data = NoData /\ new.owners = {}
  \/ /\ old # Absent /\ new # Absent
     /\ old.owners \subseteq new.owners
     /\ SetOwnerReference \/ new.owners = old.owners
     /\ new.data = old.data \/ cr[u] = Absent \/ ~SecretReady(cr[u])

(* A Secret that only gains labels and owners keeps its credentials.       *)
LEMMA GrownKind ==
  ASSUME NEW k, Controller(k), AInv(k), NEW u \in Users, Standing(u), Grows(u),
         UNCHANGED <<cr, uid>>
  PROVE  ObjectKind(k, u) /\ Lasts(u)
<1>1. uid[u] \in Nat
  BY UidsNatural
<1>2. Lasts(u)
  BY <1>1 DEF Lasts
<1>3. StateOf(u, k.fin)' = StateOf(u, k.fin)
  BY DEF StateOf
<1>4. TurnsUser(k, u)
  BY <1>3, StatesOf DEF TurnsUser, Turning
<1>5. Earns(k, u)
  BY DEF Earns, BecomesUserReady
<1>6. Credentials(u)
  BY DEF Credentials, Valid, Grows
<1>7. Standing(u)'
  <2>1. CASE companion'[u] = companion[u]
    BY <2>1 DEF Standing, Valid
  <2>2. CASE companion'[u].data = NoData /\ companion'[u].owners = {}
    BY <2>2 DEF Standing, Valid
  <2>3. CASE /\ companion[u] # Absent /\ companion'[u] # Absent
             /\ companion[u].owners \subseteq companion'[u].owners
             /\ SetOwnerReference \/ companion'[u].owners = companion[u].owners
             /\ \/ companion'[u].data = companion[u].data
                \/ cr[u] = Absent \/ ~SecretReady(cr[u])
    BY <2>3 DEF Standing, Valid
  <2> QED BY <2>1, <2>2, <2>3 DEF Grows
<1> QED BY <1>2, <1>4, <1>5, <1>6, <1>7 DEF ObjectKind

(* A Secret is replaced over the copy that is stored, or not at all.       *)
LEMMA WriteOutcome ==
  ASSUME NEW k, AInv(k), CompanionCopies, NEW p \in Pods, NEW u \in Users,
         NEW object, NEW step, WriteCompanion(p, u, object, step)
  PROVE  /\ \A x \in Users : x # u => companion'[x] = companion[x]
         /\ UNCHANGED uid
         /\ \/ UNCHANGED companion /\ task'[p][u].pc = "idle"
            \/ /\ companion[u] # Absent /\ task[p][u].dep = companion[u]
               /\ companion'[u] = object /\ task'[p][u].pc = step
<1>1. /\ companion \in [Users -> Secret \cup {Absent}]
      /\ task \in [Pods -> [Users -> TaskOf(UserSteps, k.crs, Secret)]]
  BY DEF AInv, CInv, Beside, Sound, ReconcilerTypeOK, Users, Secret
<1>2. DepAccepted(p, u) => companion[u] # Absent /\ task[p][u].dep = companion[u]
  BY DEF DepAccepted, CompanionCopies, Users
<1>3. DepOutdated(task, u) \in [Pods -> [Users -> TaskOf(UserSteps, k.crs, Secret)]]
  <2>1. ReconcilerTypeOK(UserSteps, k.crs, Secret) /\ u \in Objects
    BY DEF AInv, CInv, Sound, Users, Secret
  <2> QED BY <2>1, OutdatedCompanions DEF Users
<1>4. CASE Err(p, u) /\ UNCHANGED <<companion, uid>>
  <2>1. task'[p][u] = Idle
    BY <1>1, <1>4 DEF Err, Ends, Ended
  <2> QED BY <1>4, <2>1, IdleHolds
<1>5. CASE DepAccepted(p, u) /\ object = companion[u]
  <2>1. UNCHANGED <<companion, uid>> /\ task' = [task EXCEPT ![p][u].pc = step]
    BY <1>5 DEF WriteCompanion, Continues
  <2> QED BY <1>1, <1>2, <1>5, <2>1 DEF TaskOf
<1>6. CASE DepAccepted(p, u) /\ object # companion[u]
  <2> DEFINE t == DepOutdated(task, u)
             w == [t[p][u] EXCEPT !.pc = step]
  <2>1. /\ companion' = [companion EXCEPT ![u] = object] /\ UNCHANGED uid
        /\ task' = [t EXCEPT ![p][u] = w]
    BY <1>6 DEF WriteCompanion
  <2>2. w.pc = step
    BY <1>3 DEF TaskOf
  <2> HIDE DEF t, w
  <2>3. task'[p][u].pc = step
    BY <1>3, <2>1, <2>2 DEF t
  <2> QED BY <1>1, <1>2, <1>6, <2>1, <2>3
<1> QED BY <1>4, <1>5, <1>6 DEF WriteCompanion

(* The step of a call that ends or takes its reconcile on. *)
LEMMA NextPc ==
  ASSUME NEW k, AInv(k), NEW p \in Pods, NEW u \in Users
  PROVE  /\ Err(p, u) => task'[p][u].pc = "idle"
         /\ \A step : Continues(p, u, step) => task'[p][u].pc = step
         /\ \A step : GotCompanion(p, u, step)
              => task'[p][u].pc = step /\ task'[p][u].dep = companion[u]
<1>1. /\ task \in [Pods -> [Users -> TaskOf(UserSteps, k.crs, Secret)]]
      /\ task[p][u] \in TaskOf(UserSteps, k.crs, Secret)
  BY DEF AInv, CInv, Sound, ReconcilerTypeOK, Users, Secret
<1>2. Err(p, u) => task'[p][u].pc = "idle"
  BY <1>1, IdleHolds DEF Err, Ends, Ended
<1>3. ASSUME NEW step, Continues(p, u, step)
      PROVE  task'[p][u].pc = step
  BY <1>1, <1>3 DEF Continues, TaskOf
<1>4. ASSUME NEW step, GotCompanion(p, u, step)
      PROVE  task'[p][u].pc = step /\ task'[p][u].dep = companion[u]
  <2> DEFINE w == [task[p][u] EXCEPT !.pc = step, !.dep = companion[u],
                                     !.depFresh = TRUE]
  <2>1. task' = [task EXCEPT ![p][u] = w]
    BY <1>4 DEF GotCompanion
  <2>2. w.pc = step /\ w.dep = companion[u]
    BY <1>1 DEF TaskOf
  <2> HIDE DEF w
  <2> QED BY <1>1, <2>1, <2>2
<1> QED BY <1>2, <1>3, <1>4

(* The steps that make, label and own the Secret leave its data alone.     *)
LEMMA KubeOutcome ==
  ASSUME NEW k, Controller(k), AInv(k), AInv(k)', BInv(k),
         NEW p \in Pods, NEW u \in Users, KubeStep(p, u), UNCHANGED cr,
         ~At(p, u, "idle"),
         task'[p][u].pc = "idle" \/ task'[p][u].cr = task[p][u].cr
  PROVE  /\ \A x \in Users : x # u => companion'[x] = companion[x]
         /\ UNCHANGED uid
         /\ Grows(u)
         /\ StaysOwned(u) \/ (At(p, u, "missing") /\ task'[p][u].pc = "created")
         /\ SetOwnerReference => OwnerKept(p, u)'
<1> DEFINE c == task[p][u].cr
           d == task[p][u].dep
           v == task'[p][u]
<1>1. /\ CompanionCopies /\ Established(k, p, u) /\ Standing(u)
      /\ companion \in [Users -> Secret \cup {Absent}]
      /\ d \in Secret \cup {Absent}
  BY HasCopy DEF BInv, AInv, CInv, Beside, Users, Secret
<1>2. ASSUME UNCHANGED <<companion, uid>>
      PROVE  /\ StaysOwned(u) /\ Grows(u) /\ Lasts(u)
             /\ \A x \in Users : x # u => companion'[x] = companion[x]
  <2>1. uid[u] \in Nat
    BY UidsNatural
  <2> QED BY <1>2, <2>1 DEF StaysOwned, Grows, Lasts
<1>3. ASSUME v.pc \notin Owning \cup {"marked"}  PROVE OwnerKept(p, u)'
  BY <1>3, OwnerOpen
<1>4. "idle" \notin Owning /\ "missing" \notin Owning /\ "found" \notin Owning
      /\ "created" \notin Owning /\ "labeled" \notin Owning /\ "marked" \notin Owning
      /\ "owned" \in Owning /\ "written" \in Owning /\ "filled" \in Owning
      /\ "claimed" \in Owning
  BY DEF Owning, Onward, CompanionSteps, UserSteps
<1>5. CASE GetsSecret(p, u)
  <2>1. UNCHANGED <<companion, uid>> /\ v.pc \in {"missing", "found"}
    BY <1>5, NextPc DEF GetsSecret, GetCompanion
  <2> QED BY <1>2, <1>3, <1>4, <2>1
<1>6. CASE CreateCompanion(p, u)
  <2>1. CASE Err(p, u) /\ UNCHANGED <<companion, uid>>
    <3>1. v.pc = "idle"
      BY <2>1, NextPc
    <3> QED BY <1>2, <1>3, <1>4, <2>1, <3>1
  <2>2. CASE /\ companion[u] = Absent
             /\ companion' = [companion EXCEPT ![u] =
                                [labeled |-> FALSE, owners |-> {}, data |-> NoData]]
             /\ Continues(p, u, "created")
             /\ UNCHANGED uid
    <3>1. v.pc = "created" /\ At(p, u, "missing")
      BY <1>6, <2>2, NextPc DEF CreateCompanion
    <3>2. Grows(u) /\ \A x \in Users : x # u => companion'[x] = companion[x]
      BY <1>1, <2>2 DEF Grows
    <3> QED BY <1>3, <1>4, <2>2, <3>1, <3>2
  <2> QED BY <1>6, <2>1, <2>2 DEF CreateCompanion
<1>7. CASE RereadCompanion(p, u)
  <2>1. UNCHANGED <<companion, uid>>
    BY <1>7 DEF RereadCompanion
  <2>2. CASE Err(p, u)
    <3>1. v.pc = "idle"
      BY <2>2, NextPc
    <3> QED BY <1>2, <1>3, <1>4, <2>1, <3>1
  <2>3. CASE GotCompanion(p, u, NextRead[task[p][u].pc])
    <3>1. v.pc = NextRead[task[p][u].pc] /\ v.dep = companion[u]
      BY <2>3, NextPc
    <3>2. \/ v.pc \in {"found", "marked"}
          \/ v.pc # "idle" /\ task[p][u].pc \in Owning
      BY <1>4, <1>7, <3>1 DEF RereadCompanion, NextRead
    <3>3. CASE v.pc \in {"found", "marked"}
      <4>1. v.pc \notin Owning
        BY <1>4, <3>3
      <4>2. v.cr.uid \in v.dep.owners => v.cr.uid \in companion'[u].owners
        BY <2>1, <3>1
      <4> HIDE DEF v
      <4>3. v = task'[p][u]
        BY DEF v
      <4>4. OwnerKept(p, u)'
        BY <4>1, <4>2, <4>3 DEF OwnerKept
      <4> QED BY <1>2, <2>1, <4>4
    <3>4. CASE v.pc # "idle" /\ task[p][u].pc \in Owning
      <4>1. v.cr.uid = task[p][u].cr.uid
        BY <3>4
      <4>2. SetOwnerReference => OwnerKept(p, u)'
        BY <1>1, <1>2, <2>1, <3>4, <4>1, OwnerKeeps
      <4> QED BY <1>2, <2>1, <4>2
    <3> QED BY <3>2, <3>3, <3>4
  <2> QED BY <1>7, <2>2, <2>3 DEF RereadCompanion
<1>8. ASSUME NEW object, NEW step, WriteCompanion(p, u, object, step),
             d # Absent => object.data = d.data /\ d.owners \subseteq object.owners,
             d # Absent => SetOwnerReference \/ object.owners = d.owners,
             object # Absent
      PROVE  /\ \A x \in Users : x # u => companion'[x] = companion[x]
             /\ UNCHANGED uid /\ Grows(u) /\ StaysOwned(u)
             /\ v.pc = "idle" \/ (v.pc = step /\ companion'[u] = object)
  <2>1. /\ \A x \in Users : x # u => companion'[x] = companion[x]
        /\ UNCHANGED uid
        /\ \/ UNCHANGED companion /\ v.pc = "idle"
           \/ /\ companion[u] # Absent /\ d = companion[u]
              /\ companion'[u] = object /\ v.pc = step
    BY <1>1, <1>8, WriteOutcome
  <2>2. CASE UNCHANGED companion /\ v.pc = "idle"
    BY <1>2, <2>1, <2>2
  <2>3. CASE /\ companion[u] # Absent /\ d = companion[u]
             /\ companion'[u] = object /\ v.pc = step
    <3>1. Grows(u) /\ StaysOwned(u)
      BY <1>8, <2>3 DEF Grows, StaysOwned
    <3> QED BY <2>1, <2>3, <3>1
  <2> QED BY <2>1, <2>2, <2>3
<1>9. d # Absent => d \in Secret
  BY <1>1
<1>10. CASE LabelCompanion(p, u)
  <2> DEFINE object == [d EXCEPT !.labeled = TRUE]
  <2>1. WriteCompanion(p, u, object, "labeled") /\ At(p, u, "found")
    BY <1>10 DEF LabelCompanion
  <2>2. d # Absent
    BY <2>1, HasCopy DEF HoldsOK, At
  <2>3. /\ object.data = d.data /\ object.owners = d.owners
        /\ object \in Secret
    BY <1>9, <2>2 DEF Secret, CompanionOf
  <2>4. object # Absent
    BY <2>3 DEF Controller, UserConstantsAssumption
  <2> HIDE DEF object
  <2>5. /\ \A x \in Users : x # u => companion'[x] = companion[x]
        /\ UNCHANGED uid /\ Grows(u) /\ StaysOwned(u)
        /\ v.pc = "idle" \/ v.pc = "labeled"
    BY <1>8, <2>1, <2>3, <2>4
  <2> QED BY <1>3, <1>4, <2>5
<1>11. CASE OwnCompanion(p, u)
  <2> DEFINE n == c.uid
             object == [d EXCEPT !.owners = @ \cup {n}]
  <2>1. At(p, u, "marked") /\ d # Absent
    BY <1>11, HasCopy DEF OwnCompanion, HoldsOK, At
  <2>2. CASE WriteCompanion(p, u, object, "owned") /\ SetOwnerReference
    <3>1. n \in Uids
      BY HasCopy DEF Fields
    <3>2. /\ object.data = d.data /\ object.owners = d.owners \cup {n}
          /\ object \in Secret
      BY <1>9, <2>1, <3>1 DEF Secret, CompanionOf
    <3>3. object # Absent
      BY <3>2 DEF Controller, UserConstantsAssumption
    <3> HIDE DEF object
    <3>4. /\ \A x \in Users : x # u => companion'[x] = companion[x]
          /\ UNCHANGED uid /\ Grows(u) /\ StaysOwned(u)
          /\ v.pc = "idle" \/ (v.pc = "owned" /\ companion'[u] = object)
      BY <1>8, <2>2, <3>2, <3>3
    <3>5. CASE v.pc = "owned" /\ companion'[u] = object
      <4>1. v.cr.uid \in companion'[u].owners
        BY <3>2, <3>5
      <4> HIDE DEF v
      <4>2. v = task'[p][u]
        BY DEF v
      <4>3. OwnerKept(p, u)'
        BY <3>5, <4>1, <4>2 DEF OwnerKept
      <4> QED BY <3>4, <4>3
    <3> QED BY <1>3, <1>4, <3>4, <3>5
  <2>3. CASE /\ Continues(p, u, "claimed") /\ UNCHANGED <<companion, uid>>
             /\ SetOwnerReference => n \in d.owners
    <3>1. v.pc = "claimed" /\ v.cr = c
      BY <2>3, NextPc
    <3>2. ASSUME SetOwnerReference  PROVE OwnerKept(p, u)'
      <4>1. OwnerKept(p, u) /\ n \in d.owners
        BY <1>1, <2>1, <2>3, <3>2 DEF Established, At
      <4>2. ASSUME cr[u] # Absent, cr[u].uid = n, companion[u] # Absent
            PROVE  n \in companion[u].owners
        BY <2>1, <4>1, <4>2 DEF OwnerKept, At
      <4>3. v.cr.uid = n
        BY <3>1
      <4> HIDE DEF v, n
      <4>4. v = task'[p][u]
        BY DEF v
      <4> QED BY <2>3, <3>1, <4>2, <4>3, <4>4 DEF OwnerKept
    <3> QED BY <1>2, <2>3, <3>2
  <2> QED BY <1>11, <2>2, <2>3 DEF OwnCompanion
<1> QED BY <1>5, <1>6, <1>7, <1>10, <1>11 DEF KubeStep

(* A step of the reconcile of u that may change its Secret.                *)
LEMMA SecretKind ==
  ASSUME NEW k, Controller(k), OnePod, AInv(k), BInv(k), Good(k), CompanionCopies',
         NEW p \in Pods, NEW u \in Users, OnlyKube, UNCHANGED <<cr, uid>>,
         ~At(p, u, "idle"),
         \A x \in Users : x # u => companion'[x] = companion[x],
         Grows(u),
         \/ Settles /\ StaysOwned(u)
         \/ \E step : /\ Moves(p, u, step, task[p][u].cr)
                      /\ step \in {"generated", "written", "filled"}
                           => ~SecretReady(task[p][u].cr)
                      /\ step \notin {"removed", "added", "informed", "granted",
                                      "attached"}
                      /\ SetOwnerReference => OwnerKept(p, u)'
  PROVE  Kind(k)
<1>1. /\ UNCHANGED <<account, local>> /\ LocalsKept(p, u) /\ AInv(k)'
      /\ Standing(u) /\ Established(k, p, u)
  BY DEF OnlyKube, LocalsKept, Good, BInv
<1>2. ObjectKind(k, u) /\ Lasts(u)
  BY <1>1, GrownKind
<1>3. ASSUME NEW x \in Users, x # u
      PROVE  Stays(k, x) /\ ObjectKind(k, x)
  BY <1>3, SameObject DEF BInv
<1>4. CASE Settles /\ StaysOwned(u)
  <2>1. Stays(k, u)
    BY <1>2, <1>4 DEF Stays
  <2> QED BY <1>1, <1>2, <1>3, <1>4, <2>1, SettledKind
<1>5. ASSUME NEW step, Moves(p, u, step, task[p][u].cr),
             step \in {"generated", "written", "filled"}
               => ~SecretReady(task[p][u].cr),
             step \notin {"removed", "added", "informed", "granted", "attached"},
             SetOwnerReference => OwnerKept(p, u)'
      PROVE  Kind(k)
  <2>1. Marked(k, task[p][u].cr) => cr'[u] # Absent /\ Marked(k, cr'[u])
    BY <1>1 DEF Established, At
  <2>2. Established(k, p, u)' /\ OthersKept(p, u)
    BY <1>1, <1>2, <1>5, <2>1, AdvancedEstablished DEF Moves
  <2> QED BY <1>1, <1>2, <2>2, MovedKind
<1> QED BY <1>4, <1>5

(* These steps keep the promises.                                          *)
LEMMA KubeKind ==
  ASSUME NEW k, Controller(k), OnePod, AInv(k), BInv(k),
         NEW p \in Pods, NEW u \in Users, KubeStep(p, u)
  PROVE  Kind(k)
<1>1. /\ Good(k) /\ UNCHANGED cr /\ OnlyKube /\ CompanionCopies'
      /\ \/ Settles
         \/ \E step \in CompanionSteps \ {"idle"} :
              /\ Moves(p, u, step, task[p][u].cr)
              /\ step = "filled" => At(p, u, "written")
              /\ step # "written"
  BY KubeGood DEF BInv
<1>2. ~At(p, u, "idle")
  BY DEF KubeStep, GetsSecret, CreateCompanion, RereadCompanion, NextRead,
         LabelCompanion, OwnCompanion, At
<1>3. task'[p][u].pc = "idle" \/ task'[p][u].cr = task[p][u].cr
  BY <1>1, IdleHolds DEF Settles, Kept, Moves, Users
<1>4. /\ \A x \in Users : x # u => companion'[x] = companion[x]
      /\ UNCHANGED uid
      /\ Grows(u)
      /\ StaysOwned(u) \/ (At(p, u, "missing") /\ task'[p][u].pc = "created")
      /\ SetOwnerReference => OwnerKept(p, u)'
  BY <1>1, <1>2, <1>3, KubeOutcome DEF Good
<1>5. CASE Settles
  <2>1. task'[p][u].pc \in {"idle", task[p][u].pc}
    BY <1>5, IdleHolds DEF Settles, Kept, Users
  <2>2. StaysOwned(u)
    BY <1>4, <2>1 DEF At
  <2> QED BY <1>1, <1>2, <1>4, <1>5, <2>2, SecretKind
<1>6. ASSUME NEW step \in CompanionSteps \ {"idle"}, Moves(p, u, step, task[p][u].cr),
             step = "filled" => At(p, u, "written"), step # "written"
      PROVE  Kind(k)
  <2>1. step \notin {"removed", "added", "informed", "granted", "attached",
                     "generated"}
    BY <1>6 DEF CompanionSteps
  <2>2. step = "filled" => ~SecretReady(task[p][u].cr)
    BY <1>6 DEF BInv, Established, At
  <2> QED BY <1>1, <1>2, <1>4, <1>6, <2>1, <2>2, SecretKind
<1> QED BY <1>1, <1>5, <1>6

(* So does writing the credentials: they were not valid before.            *)
LEMMA FillsKind ==
  ASSUME NEW k, Controller(k), OnePod, AInv(k), BInv(k),
         NEW p \in Pods, NEW u \in Users, FillsSecret(p, u)
  PROVE  Kind(k)
<1> DEFINE d == task[p][u].dep
           object == [d EXCEPT !.data = local[p][u].password]
<1>1. /\ Good(k) /\ UNCHANGED cr /\ OnlyKube /\ CompanionCopies'
      /\ Settles \/ Moves(p, u, "written", task[p][u].cr)
  BY FillsGood DEF BInv
<1>2. At(p, u, "generated") /\ WriteCompanion(p, u, object, "written")
  BY DEF FillsSecret
<1>3. task[p][u].pc \in Onward
  BY <1>2, StepTypes DEF At
<1>4. /\ ~At(p, u, "idle") /\ d \in Secret /\ AInv(k)' /\ CompanionCopies
      /\ Established(k, p, u) /\ task[p][u].pc \in Owning
  BY <1>1, <1>3, OnwardCopy DEF Good, BInv, Owning
<1>5. local[p][u].password \in Passwords \cup {NoData}
  <2>1. local[p][u] \in Local
    BY DEF AInv, ServerTypes
  <2> QED BY <2>1 DEF Local
<1>6. object.owners = d.owners /\ object \in Secret
  BY <1>4, <1>5 DEF Secret, CompanionOf
<1>7. object # Absent
  BY <1>6 DEF Controller, UserConstantsAssumption
<1> HIDE DEF object
<1>8. /\ \A x \in Users : x # u => companion'[x] = companion[x]
      /\ UNCHANGED uid
      /\ \/ UNCHANGED companion
         \/ /\ companion[u] # Absent /\ d = companion[u]
            /\ companion'[u] = object
  BY <1>2, <1>4, WriteOutcome
<1>9. ~SecretReady(task[p][u].cr) /\ (cr[u] = Absent \/ ~SecretReady(cr[u]))
  BY <1>2, <1>4 DEF Established, At
<1>10. Grows(u) /\ StaysOwned(u)
  BY <1>6, <1>7, <1>8, <1>9 DEF Grows, StaysOwned
<1>11. CASE Moves(p, u, "written", task[p][u].cr)
  <2>1. Standing(u) /\ Lasts(u)
    BY <1>1, <1>8, <1>10, GrownKind DEF BInv
  <2>2. task'[p][u].cr.uid = task[p][u].cr.uid
    BY <1>11 DEF Moves
  <2>3. SetOwnerReference => OwnerKept(p, u)'
    BY <1>4, <1>10, <2>1, <2>2, OwnerKeeps
  <2> QED BY <1>1, <1>4, <1>8, <1>9, <1>10, <1>11, <2>3, SecretKind
<1>12. CASE Settles
  BY <1>1, <1>4, <1>8, <1>10, <1>12, SecretKind
<1> QED BY <1>1, <1>11, <1>12

--------------------------------------------------------------------------------
(* Users and the garbage collector. *)

(* So do users and the garbage collector that change a Secret.             *)
LEMMA ChangeSecretKind ==
  ASSUME NEW k, Controller(k), AInv(k), BInv(k), NEW u \in Users, ChangeSecret(u)
  PROVE  Kind(k)
<1>1. /\ Good(k) /\ Settles /\ UNCHANGED cr /\ OnlyKube
      /\ CompanionCopies'
  BY SecretGood DEF BInv
<1>2. /\ companion \in [Users -> Secret \cup {Absent}] /\ Standing(u)
      /\ UNCHANGED <<account, local>>
  BY <1>1 DEF AInv, CInv, Beside, Users, Secret, BInv, OnlyKube
<1>3. ASSUME NEW object, companion' = [companion EXCEPT ![u] = object], UNCHANGED uid,
             companion'[u] = object => Standing(u)' /\ Credentials(u) /\ StaysOwned(u)
      PROVE  Kind(k)
  <2>1. /\ \A x \in Users : x # u => companion'[x] = companion[x]
        /\ companion'[u] = object
    BY <1>2, <1>3
  <2>2. ASSUME NEW x \in Users, x # u
        PROVE  Stays(k, x) /\ ObjectKind(k, x)
    BY <1>1, <1>3, <2>1, <2>2, SameObject DEF BInv
  <2>3. uid[u] \in Nat /\ StateOf(u, k.fin)' = StateOf(u, k.fin)
    BY <1>1, UidsNatural DEF StateOf
  <2>4. TurnsUser(k, u)
    BY <2>3, StatesOf DEF TurnsUser, Turning
  <2>5. Earns(k, u)
    BY <1>1 DEF Earns, BecomesUserReady
  <2>6. ObjectKind(k, u)
    BY <1>3, <2>1, <2>4, <2>5 DEF ObjectKind
  <2>7. Stays(k, u)
    BY <1>1, <1>3, <2>1, <2>3 DEF Stays, Lasts
  <2> QED BY <1>1, <1>2, <2>2, <2>6, <2>7, SettledKind DEF Good
<1>4. CASE DeleteCompanion(u)
  <2>1. companion' = [companion EXCEPT ![u] = Absent] /\ UNCHANGED uid
    BY <1>4 DEF DeleteCompanion, ChangeCompanion
  <2>2. edits' # edits
    <3>1. edits \in Nat
      BY DEF AInv, CInv, Sound, ReconcilerTypeOK
    <3> QED BY <1>4, <3>1 DEF DeleteCompanion, Edit
  <2>3. ASSUME companion'[u] = Absent
        PROVE  Standing(u)' /\ Credentials(u) /\ StaysOwned(u)
    BY <1>1, <1>2, <2>1, <2>2, <2>3 DEF Standing, Valid, Credentials, StaysOwned
  <2> QED BY <1>3, <2>1, <2>3
<1>5. CASE Collect(u)
  <2> DEFINE live == IF cr[u] = Absent THEN {} ELSE companion[u].owners \cap {cr[u].uid}
             object == IF live = {} THEN Absent ELSE [companion[u] EXCEPT !.owners = live]
  <2>1. /\ companion' = [companion EXCEPT ![u] = object] /\ UNCHANGED uid
        /\ companion[u] # Absent /\ companion[u].owners # {}
    BY <1>5 DEF Collect, ChangeCompanion
  <2>2. SetOwnerReference
    BY <1>2, <2>1 DEF Standing
  <2>3. live # {} => object.owners = live /\ object.data = companion[u].data
    BY <1>2, <2>1 DEF Secret, CompanionOf
  <2>4. live = {} => object = Absent
    OBVIOUS
  <2>5. Valid(u) => live # {}
    BY <1>2, <2>1, <2>2 DEF Standing, Valid
  <2>6. live # {} => object # Absent
    <3>1. live # {} => object \in Secret
      BY <1>2, <2>1 DEF Secret, CompanionOf
    <3> QED BY <3>1 DEF Controller, UserConstantsAssumption
  <2>7. cr[u] # Absent /\ cr[u].uid \in companion[u].owners => cr[u].uid \in live
    OBVIOUS
  <2> HIDE DEF live, object
  <2>8. ASSUME companion'[u] = object
        PROVE  Standing(u)' /\ Credentials(u) /\ StaysOwned(u)
    <3>1. CASE live = {}
      BY <1>1, <1>2, <2>1, <2>4, <2>5, <2>8, <3>1
         DEF Standing, Valid, Credentials, StaysOwned
    <3>2. CASE live # {}
      <4>1. Credentials(u)
        BY <2>3, <2>6, <2>8, <3>2 DEF Credentials
      <4>2. StaysOwned(u)
        BY <2>1, <2>3, <2>7, <2>8, <3>2 DEF StaysOwned
      <4>3. Valid(u)' => Valid(u)
        BY <1>1, <2>1, <2>3, <2>8, <3>2 DEF Valid
      <4>4. Standing(u)'
        BY <1>1, <1>2, <2>1, <2>2, <2>3, <2>7, <2>8, <3>2, <4>3 DEF Standing, Valid
      <4> QED BY <4>1, <4>2, <4>4
    <3> QED BY <3>1, <3>2
  <2> QED BY <1>3, <2>1, <2>8
<1>6. ASSUME NEW data \in NewPasswords \cup {NoData}, EditCompanion(u, data)
      PROVE  Kind(k)
  <2> DEFINE object == [companion[u] EXCEPT !.data = data]
  <2>1. /\ companion' = [companion EXCEPT ![u] = object] /\ UNCHANGED uid
        /\ companion[u] # Absent
    BY <1>6 DEF EditCompanion, ChangeCompanion
  <2>2. edits' # edits
    <3>1. edits \in Nat
      BY DEF AInv, CInv, Sound, ReconcilerTypeOK
    <3> QED BY <1>6, <3>1 DEF EditCompanion, Edit
  <2>3. object.owners = companion[u].owners /\ object.data = data
    BY <1>2, <2>1 DEF Secret, CompanionOf
  <2>4. cr[u] # Absent => data = NoData \/ data # cr[u].password_hash
    <3>1. data = NoData \/ data \notin InUse
      BY DEF NewPasswords
    <3>2. cr[u] # Absent => cr[u].password_hash \in InUse
      BY DEF InUse
    <3> QED BY <3>1, <3>2
  <2> HIDE DEF object
  <2>5. ASSUME companion'[u] = object
        PROVE  Standing(u)' /\ Credentials(u) /\ StaysOwned(u)
    <3>1. ~Valid(u)'
      BY <1>1, <2>3, <2>4, <2>5 DEF Valid
    <3>2. Standing(u)'
      BY <1>1, <1>2, <2>1, <2>3, <2>5, <3>1 DEF Standing
    <3> QED BY <2>1, <2>2, <2>3, <2>5, <3>2 DEF Credentials, StaysOwned
  <2> QED BY <1>3, <2>1, <2>5
<1> QED BY <1>4, <1>5, <1>6 DEF ChangeSecret

(* An edit of the object of u. *)
LEMMA RewrittenKind ==
  ASSUME NEW k, Controller(k), AInv(k), BInv(k), Good(k), Settles, CompanionCopies',
         NEW u \in Users, OnlyKube, UNCHANGED <<companion, uid>>, cr[u] # Absent,
         \A x \in Users : x # u => cr'[x] = cr[x],
         \/ cr'[u] = Absent /\ ~Marked(k, cr[u])
         \/ /\ cr'[u] # Absent /\ cr'[u].uid = cr[u].uid
            /\ SameStatus(cr'[u], cr[u])
            /\ Marked(k, cr[u]) => Marked(k, cr'[u])
  PROVE  Kind(k)
<1>1. UNCHANGED <<account, local>> /\ Standing(u) /\ uid[u] \in Nat
  BY UidsNatural DEF OnlyKube, BInv
<1>2. ASSUME NEW x \in Users, x # u
      PROVE  Stays(k, x) /\ ObjectKind(k, x)
  BY <1>2, SameObject DEF BInv
<1>3. cr'[u] # Absent => /\ SecretReady(cr'[u]) = SecretReady(cr[u])
                         /\ UserReady(cr'[u]) = UserReady(cr[u])
                         /\ cr'[u].password_hash = cr[u].password_hash
  BY DEF SameStatus, SecretReady, UserReady
<1>4. Stays(k, u)
  BY <1>1, <1>3 DEF Stays, Lasts, StaysOwned
<1>5. TurnsUser(k, u)
  <2>1. StateOf(u, k.fin) # "none"
    BY DEF StateOf
  <2>2. StateOf(u, k.fin) = "condemned"
          => StateOf(u, k.fin)' \in {"marked", "condemned"}
    BY DEF StateOf, Marked
  <2> QED BY <2>1, <2>2, StatesOf DEF TurnsUser, Turning
<1>6. Standing(u)'
  BY <1>1, <1>3 DEF Standing, Valid
<1>7. Credentials(u) /\ Earns(k, u)
  BY <1>3 DEF Credentials, Valid, Earns, BecomesUserReady
<1>8. ObjectKind(k, u)
  BY <1>5, <1>6, <1>7 DEF ObjectKind
<1> QED BY <1>1, <1>2, <1>4, <1>8, SettledKind DEF Good

(* So do users that create, edit and delete custom resources.              *)
LEMMA OwnersKind ==
  ASSUME NEW k, Controller(k), AInv(k), BInv(k), NEW u \in Users, Owners(k, u)
  PROVE  Kind(k)
<1>1. Good(k) /\ Settles /\ OnlyKube /\ CompanionCopies'
  BY OwnersGood DEF BInv
<1>2. /\ cr \in [Users -> k.crs \cup {Absent}] /\ Standing(u) /\ uid[u] \in Nat
      /\ UNCHANGED <<account, local>>
  BY <1>1, UidsNatural DEF AInv, CInv, Sound, ReconcilerTypeOK, Users, BInv, OnlyKube
<1>3. ASSUME NEW object \in k.new, CreateOwner(u, object)
      PROVE  Kind(k)
  <2> DEFINE d == [object EXCEPT !.uid = uid[u] + 1]
  <2>1. /\ cr[u] = Absent /\ cr' = [cr EXCEPT ![u] = d] /\ edits > 0
        /\ uid' = [uid EXCEPT ![u] = @ + 1] /\ UNCHANGED companion
    BY <1>3 DEF CreateOwner, CreateCr, WriteCr, Edit
  <2>2. uid \in [Users -> Uids] /\ uid[u] + 1 \in Uids
    <3>1. /\ uid \in [Users -> Uids] /\ uid[u] + edits =< MaxEdits
          /\ edits \in 0..MaxEdits /\ MaxEdits \in Nat
      BY DEF AInv, CInv, Beside, Sound, ReconcilerTypeOK, Users, Controller,
             UserConstantsAssumption
    <3> QED BY <1>2, <2>1, <3>1 DEF Uids
  <2>3. /\ d \in k.crs /\ d.uid = uid[u] + 1 /\ d.deleting = FALSE
        /\ d.conditions = NoConditions(ConditionTypes)
    BY <2>2 DEF Controller
  <2>4. d # Absent
    BY <2>3 DEF Controller
  <2>5. ~SecretReady(d) /\ ~UserReady(d)
    BY <2>3 DEF SecretReady, UserReady, is_condition_true, NoConditions, ConditionTypes
  <2> HIDE DEF d
  <2>6. /\ cr'[u] = d /\ uid'[u] = uid[u] + 1
        /\ \A x \in Users : x # u => cr'[x] = cr[x] /\ uid'[x] = uid[x]
    BY <1>2, <2>1, <2>2
  <2>7. ASSUME NEW x \in Users, x # u
        PROVE  Stays(k, x) /\ ObjectKind(k, x)
    BY <2>1, <2>6, <2>7, SameObject DEF BInv
  <2>8. Stays(k, u)
    BY <1>2, <2>1, <2>3, <2>5, <2>6 DEF Stays, Lasts, StaysOwned
  <2>9. TurnsUser(k, u)
    BY <2>1, <2>3, <2>4, <2>6 DEF TurnsUser, Turning, StateOf
  <2>10. Standing(u)'
    BY <1>2, <2>1, <2>3, <2>5, <2>6 DEF Standing, Valid
  <2>11. Credentials(u) /\ Earns(k, u)
    BY <2>1 DEF Credentials, Valid, Earns, BecomesUserReady
  <2>12. ObjectKind(k, u)
    BY <2>9, <2>10, <2>11 DEF ObjectKind
  <2> QED BY <1>1, <1>2, <2>7, <2>8, <2>12, SettledKind DEF Good
<1>4. ASSUME NEW object, WriteCr(u, object), OnlyCr, cr[u] # Absent,
             \/ object = Absent /\ ~Marked(k, cr[u])
             \/ /\ object # Absent /\ object.uid = cr[u].uid
                /\ SameStatus(object, cr[u])
                /\ Marked(k, cr[u]) => Marked(k, object)
      PROVE  Kind(k)
  <2>1. cr' = [cr EXCEPT ![u] = object] /\ UNCHANGED <<companion, uid>>
    BY <1>4 DEF WriteCr, OnlyCr
  <2>2. cr'[u] = object /\ \A x \in Users : x # u => cr'[x] = cr[x]
    BY <1>2, <2>1
  <2> QED BY <1>1, <1>4, <2>1, <2>2, RewrittenKind
<1>5. CASE EditSpec(k, u)
  <2>1. PICK object \in k.crs :
          /\ object.uid = cr[u].uid /\ object.deleting = cr[u].deleting
          /\ object.fins = cr[u].fins /\ SameStatus(object, cr[u])
          /\ WriteCr(u, object)
    BY <1>5 DEF EditSpec
  <2>2. object # Absent /\ (Marked(k, cr[u]) => Marked(k, object))
    BY <2>1 DEF Controller, Marked
  <2> QED BY <1>4, <1>5, <2>1, <2>2 DEF EditSpec
<1>6. CASE DeleteCr(u) /\ OnlyCr
  <2> DEFINE object == WithDeletion(cr[u])
  <2>1. /\ cr[u] # Absent /\ ~cr[u].deleting /\ cr[u] \in k.crs
        /\ WriteCr(u, Reaped(object))
    BY <1>2, <1>6 DEF DeleteCr, WithDeletion
  <2>2. /\ object \in k.crs /\ SameStatus(object, cr[u])
        /\ object.uid = cr[u].uid
    BY <2>1 DEF Controller, Writable
  <2>3. ~Marked(k, cr[u]) /\ object # Absent
    BY <2>1, <2>2 DEF Marked, Controller
  <2> HIDE DEF object
  <2>4. Reaped(object) \in {object, Absent}
    BY DEF Reaped
  <2> QED BY <1>4, <1>6, <2>1, <2>2, <2>3, <2>4
<1>7. CASE DropForeign(u) /\ OnlyCr
  <2> DEFINE c == cr[u]
             x == c.fins \ Foreign
             object == WithFins(c, x)
  <2>1. /\ c # Absent /\ c \in k.crs
        /\ WriteCr(u, Reaped(object))
    BY <1>2, <1>7 DEF DropForeign, WithFins
  <2>2. x \in SUBSET k.fins /\ (k.fin \in c.fins => k.fin \in x)
    BY <2>1 DEF Controller, Fields
  <2> HIDE DEF x
  <2>3. /\ object \in k.crs /\ SameStatus(object, c)
        /\ object.uid = c.uid /\ object.fins = x /\ object.deleting = c.deleting
    BY <2>1, <2>2 DEF Controller, Writable
  <2>4. object # Absent /\ (Marked(k, c) => Marked(k, object))
    BY <2>2, <2>3 DEF Marked, Controller
  <2> HIDE DEF object
  <2>5. \/ Reaped(object) = object
        \/ Reaped(object) = Absent /\ ~Marked(k, object)
    BY SMTT(60) DEF Reaped, Marked
  <2> QED BY <1>4, <1>7, <2>1, <2>3, <2>4, <2>5
<1> QED BY <1>3, <1>5, <1>6, <1>7 DEF Owners

--------------------------------------------------------------------------------
(* The server answers a command. *)
LEMMA ServerKind ==
  ASSUME NEW k, Controller(k), OnePod, OwnNames, AInv(k), BInv(k),
         NEW p \in Pods, NEW u \in Users, ServerStep(k, p, u)
  PROVE  Kind(k)
<1>1. /\ Good(k) /\ UNCHANGED <<cr, companion, uid, local>>
      /\ CompanionCopies' /\ task[p][u].pc \in Onward
      /\ (Settles /\ UNCHANGED account) \/ Answered(k, p, u)
  BY ServerGood DEF BInv
<1> DEFINE c == task[p][u].cr
           a == Current(p, u)
           n == local[p][u].instance
<1>2. /\ AInv(k)' /\ ~At(p, u, "idle") /\ task[p][u].pc \in Owning
      /\ Established(k, p, u)
      /\ n \in Instances /\ c \in k.crs
  BY <1>1, OnwardCopy DEF Good, Owning, BInv
<1>3. \A x \in Users : Stays(k, x) /\ ObjectKind(k, x)
  BY <1>1, SameObject DEF BInv
<1>4. CASE Settles /\ UNCHANGED account
  BY <1>1, <1>4, QuietKind
<1>5. ASSUME NEW step \in {"removed", "added", "informed", "granted", "attached"},
             NEW result \in AccountType(k.policies),
             account' = [account EXCEPT ![n][username(u)] = result],
             Moves(p, u, step, c), Answer(k, p, u, step, result)
      PROVE  Kind(k)
  <2>1. account'[n][username(u)] = result
    BY <1>2, <1>5 DEF AInv, ServerTypes, Names
  <2>2. ASSUME NEW m \in Instances, NEW x \in Users, m # n \/ x # u
        PROVE  account'[m][username(x)] = account[m][username(x)]
    <3>1. x # u => username(x) # username(u)
      BY DEF OwnNames
    <3> QED BY <1>2, <1>5, <2>2, <3>1 DEF AInv, ServerTypes, Names
  <2>3. task'[p][u].pc = step /\ task'[p][u].cr = c /\ OthersKept(p, u)
    BY <1>5 DEF Moves
  <2>4. task[p][u].pc \in {"connected", "added", "informed", "granted"}
    BY <1>5 DEF Answer, RemovesUser, MarkedForRemoval, AddsUser, Checks, At
  <2>5. /\ task[p][u].pc # "idle"
        /\ c.uid =< uid[u]
        /\ Marked(k, c) => cr[u] # Absent /\ Marked(k, cr[u])
        /\ cr[u] # Absent /\ SecretReady(cr[u]) => SecretReady(c)
        /\ task[p][u].pc \in {"added", "informed", "granted", "attached"}
             => a.password = c.password_hash
        /\ task[p][u].pc \in {"granted", "attached"} => a.policy = k.pol[c]
    BY <1>2 DEF Established, At, Current
  <2>6. /\ step = "removed" => Marked(k, c) /\ result.password = NoData
        /\ step # "removed" => result.password = c.password_hash
        /\ step # "removed" => \/ result.password # NoData
                               \/ result.password = a.password
        /\ step \in {"granted", "attached"} => result.policy = k.pol[c]
        /\ step = "attached" => result.attached
    BY <1>5, <2>4, <2>5 DEF Answer, RemovesUser, MarkedForRemoval, Marked, At
  <2>7. SetOwnerReference => OwnerKept(p, u)'
    <3>1. Lasts(u) /\ StaysOwned(u)
      BY <1>3 DEF Stays
    <3> QED BY <1>2, <2>3, <3>1, OwnerKeeps
  <2>8. Established(k, p, u)'
    <3> DEFINE v == task'[p][u]
               b == account'[local'[p][u].instance][username(u)]
    <3>1. v.pc = step /\ v.cr = c /\ b = result
      BY <1>1, <2>1, <2>3
    <3> HIDE DEF v, b
    <3>2. v = task'[p][u] /\ b = account'[local'[p][u].instance][username(u)]
      BY DEF v, b
    <3>3. UNCHANGED <<cr, uid>>
      BY <1>1
    <3> HIDE DEF c, a, n
    <3> QED BY <2>5, <2>6, <2>7, <3>1, <3>2, <3>3 DEF Established
  <2>9. ASSUME NEW q \in Pods, NEW x \in Users
        PROVE  Established(k, q, x)'
    <3>1. CASE x = u
      BY <2>8, <3>1 DEF OnePod
    <3>2. CASE x # u
      <4>1. \A m \in Instances : account'[m][username(x)] = account[m][username(x)]
        BY <2>2, <3>2
      <4>2. /\ Kept(q, x) /\ Stays(k, x) /\ Established(k, q, x)
            /\ local'[q][x] = local[q][x]
        BY <1>1, <1>3, <2>3, <3>2 DEF OthersKept, Users, BInv
      <4> QED BY <1>2, <4>1, <4>2, KeptEstablished
    <3> QED BY <3>1, <3>2
  <2>10. BInv(k)'
    BY <1>1, <1>3, <2>9 DEF BInv, ObjectKind
  <2>11. Serves(k, p, u)
    <3>1. {task[p][u].pc, task'[p][u].pc} \subseteq UserSteps \ CompanionSteps
      BY <2>3, <2>4 DEF UserSteps, CompanionSteps
    <3>2. Marked(k, c) => StateOf(u, k.fin) \in {"marked", "condemned"}
      BY <2>5 DEF StateOf, Marked
    <3> QED BY <1>1, <1>2, <2>1, <2>2, <2>3, <2>6, <3>1, <3>2 DEF Serves, Current
  <2> QED BY <1>3, <2>10, <2>11 DEF Kind, ObjectKind, PromiseStep
<1> QED BY <1>1, <1>4, <1>5 DEF Answered

--------------------------------------------------------------------------------
(* Every step keeps what has been established and the promises. *)
LEMMA StepKind ==
  ASSUME NEW k, Controller(k), OnePod, OwnNames, AInv(k), BInv(k),
         [AccountNext(k)]_accountVars
  PROVE  Kind(k)
<1>1. ASSUME NEW p \in Pods, NEW u \in Users, UserStep(k, p, u)
      PROVE  Kind(k)
  BY <1>1, StartsKind, KubeKind, FinalizerKind, LocateKind, StatusKind, ServerKind,
     FinalizesKind, DrawsKind, FillsKind DEF UserStep
<1>2. ASSUME UNCHANGED <<cr, task, companion, uid, account, local>>
      PROVE  Kind(k)
  <2>1. Good(k)
    BY StepGood
  <2>2. Settles /\ CompanionCopies'
    BY <1>2 DEF Settles, Kept, BInv, CompanionCopies
  <2> QED BY <1>2, <2>1, <2>2, QuietKind
<1>3. CASE AccountNext(k)
  BY <1>1, <1>2, <1>3, FaultKind, ChangeSecretKind, OwnersKind
     DEF AccountNext, ChangeInstance, ElsewhereEdit
<1> QED BY <1>2, <1>3 DEF accountVars

(* They hold initially. *)
LEMMA InitKind ==
  ASSUME NEW k, Controller(k), AInv(k), ReconcilerInit,
         uid = [u \in Users |-> 0],
         \A u \in Users :
           /\ cr[u] # Absent => cr[u].uid = 0
           /\ companion[u] # Absent =>
                companion[u].owners = IF SetOwnerReference THEN {0} ELSE {}
  PROVE  BInv(k)
<1>1. ASSUME NEW p \in Pods, NEW u \in Users
      PROVE  task[p][u] = Idle
  BY DEF ReconcilerInit, Users
<1>2. CompanionCopies
  BY <1>1, IdleHolds DEF CompanionCopies, Users
<1>3. \A p \in Pods, u \in Users : Established(k, p, u)
  BY <1>1, IdleHolds DEF Established
<1>4. \A u \in Users : Standing(u)
  BY DEF Standing, Valid
<1> QED BY <1>2, <1>3, <1>4 DEF BInv
================================================================================
