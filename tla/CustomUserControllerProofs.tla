----------------------- MODULE CustomUserControllerProofs -----------------------
(***************************************************************************)
(* Theorems about the RustFSCustomUser controller: its steps are steps of  *)
(* AccountNext, and so what is proved there holds for it.                  *)
(***************************************************************************)
EXTENDS CustomUserController, UserAccountProofs

Custom ==
  [crs |-> RustFSCustomUser, new |-> NewUsers, policies |-> Policies,
   spec |-> {"instance", "cleanup", "policy"},
   fins |-> Foreign \cup {FIN_CLEANUP}, fin |-> FIN_CLEANUP,
   wanted |-> [c \in RustFSCustomUser |->
                 IF c.cleanup THEN c.fins \cup {FIN_CLEANUP}
                              ELSE c.fins \ {FIN_CLEANUP}],
   pol |-> [c \in RustFSCustomUser |-> c.policy],
   home |-> [c \in RustFSCustomUser |-> {c.instance}]]

(* The record of the RustFSCustomUser controller, part by part.            *)
LEMMA CustomParts ==
  /\ Custom.crs = RustFSCustomUser
  /\ Custom.new = NewUsers
  /\ Custom.policies = Policies
  /\ Custom.spec = {"instance", "cleanup", "policy"}
  /\ Custom.fins = Foreign \cup {FIN_CLEANUP}
  /\ Custom.fin = FIN_CLEANUP
  /\ Custom.pol \in [RustFSCustomUser -> Policies]
  /\ Custom.home \in [RustFSCustomUser -> SUBSET Instances]
  /\ \A c \in RustFSCustomUser :
       /\ Custom.wanted[c] = IF c.cleanup THEN c.fins \cup {FIN_CLEANUP}
                                          ELSE c.fins \ {FIN_CLEANUP}
       /\ Custom.pol[c] = c.policy
       /\ Custom.home[c] = {c.instance}
<1>1. \A c \in RustFSCustomUser : c.policy \in Policies /\ c.instance \in Instances
  BY DEF RustFSCustomUser
<1> QED BY <1>1 DEF Custom

(* Objects with the same spec are the same to UserAccountProofs.           *)
LEMMA SameFields ==
  ASSUME NEW c \in RustFSCustomUser, NEW d \in RustFSCustomUser,
         d.uid = c.uid, d.deleting = c.deleting, d.cleanup = c.cleanup,
         d.instance = c.instance, d.policy = c.policy,
         d.fins \cap Foreign = c.fins \cap Foreign
  PROVE  SameUser(Custom, d, c)
<1>1. \A field \in {"instance", "cleanup", "policy"} \cup {"uid", "deleting"} :
        d[field] = c[field]
  BY DEF RustFSCustomUser
<1>2. Custom.spec = {"instance", "cleanup", "policy"}
  BY CustomParts
<1>3. Custom.pol[d] = Custom.pol[c] /\ Custom.home[d] = Custom.home[c]
  <2>1. /\ Custom.pol[d] = d.policy /\ Custom.pol[c] = c.policy
        /\ Custom.home[d] = {d.instance} /\ Custom.home[c] = {c.instance}
    BY CustomParts
  <2> QED BY <2>1
<1> QED BY <1>1, <1>2, <1>3 DEF SameUser

(* Every custom user can be written as its controller does it.             *)
LEMMA CustomWritable ==
  ASSUME ConstantsAssumption, NEW c \in RustFSCustomUser
  PROVE  Fields(Custom, c) /\ Writable(Custom, c)
<1>1. Fields(Custom, c)
  BY CustomParts DEF Fields, RustFSCustomUser
<1>2. ASSUME NEW x \in [ConditionTypes -> ConditionStatus]
      PROVE  LET d == WithConditions(c, x) IN
             /\ d \in Custom.crs /\ SameUser(Custom, d, c) /\ d.fins = c.fins
             /\ d.conditions = x /\ d.password_hash = c.password_hash
  <2> DEFINE d == WithConditions(c, x)
  <2>1. /\ d \in RustFSCustomUser /\ d.fins = c.fins
        /\ d.conditions = x /\ d.password_hash = c.password_hash
        /\ d.uid = c.uid /\ d.deleting = c.deleting /\ d.cleanup = c.cleanup
        /\ d.instance = c.instance /\ d.policy = c.policy
    BY DEF WithConditions, RustFSCustomUser
  <2> HIDE DEF d
  <2> QED BY <2>1, CustomParts, SameFields DEF d
<1>3. ASSUME NEW h \in Passwords \cup {NoData}
      PROVE  LET d == WithHash(c, h) IN
             /\ d \in Custom.crs /\ SameUser(Custom, d, c) /\ d.fins = c.fins
             /\ d.conditions = c.conditions /\ d.password_hash = h
  <2> DEFINE d == WithHash(c, h)
  <2>1. /\ d \in RustFSCustomUser /\ d.fins = c.fins
        /\ d.conditions = c.conditions /\ d.password_hash = h
        /\ d.uid = c.uid /\ d.deleting = c.deleting /\ d.cleanup = c.cleanup
        /\ d.instance = c.instance /\ d.policy = c.policy
    BY DEF WithHash, RustFSCustomUser
  <2> HIDE DEF d
  <2> QED BY <2>1, CustomParts, SameFields DEF d
<1>4. ASSUME NEW f \in SUBSET Custom.fins
      PROVE  LET d == WithFins(c, f) IN
             /\ d \in Custom.crs /\ d.fins = f /\ SameStatus(d, c)
             /\ d.uid = c.uid /\ d.deleting = c.deleting /\ d.cleanup = c.cleanup
             /\ f \cap Foreign = c.fins \cap Foreign => SameUser(Custom, d, c)
  <2> DEFINE d == WithFins(c, f)
  <2>1. /\ d \in RustFSCustomUser /\ d.fins = f
        /\ d.conditions = c.conditions /\ d.password_hash = c.password_hash
        /\ d.uid = c.uid /\ d.deleting = c.deleting /\ d.cleanup = c.cleanup
        /\ d.instance = c.instance /\ d.policy = c.policy
    BY CustomParts DEF WithFins, RustFSCustomUser
  <2> HIDE DEF d
  <2> QED BY <2>1, CustomParts, SameFields DEF SameStatus, d
<1>5. LET d == WithDeletion(c) IN
      /\ d \in Custom.crs /\ d.fins = c.fins /\ SameStatus(d, c)
      /\ d.uid = c.uid /\ d.deleting = TRUE /\ d.cleanup = c.cleanup
  BY CustomParts DEF WithDeletion, RustFSCustomUser, SameStatus
<1> QED BY <1>1, <1>2, <1>3, <1>4, <1>5 DEF Writable

(* A custom user that a user creates is well typed, with any uid.          *)
LEMMA NewUsersType ==
  ASSUME ConstantsAssumption
  PROVE  /\ NewUsers \subseteq RustFSCustomUser
         /\ \A c \in NewUsers, n \in Uids :
              LET d == [c EXCEPT !.uid = n] IN
              /\ d \in RustFSCustomUser /\ d.uid = n
              /\ d.deleting = FALSE /\ d.conditions = NoConditions(ConditionTypes)
<1>1. NoConditions(ConditionTypes) \in [ConditionTypes -> ConditionStatus]
  BY DEF NoConditions, ConditionStatus
<1>2. 0 \in Uids
  BY DEF Uids, ConstantsAssumption, UserConstantsAssumption
<1> QED BY <1>1, <1>2 DEF NewUsers, RustFSCustomUser

(* The controller is one that UserAccountProofs is about.                  *)
LEMMA IsController == ASSUME ConstantsAssumption PROVE Controller(Custom)
<1>1. /\ UserConstantsAssumption
      /\ Absent \notin Custom.crs
      /\ NoData \notin Custom.policies
      /\ Custom.fin \in Custom.fins \ Foreign
      /\ Custom.pol \in [Custom.crs -> Custom.policies]
      /\ Custom.home \in [Custom.crs -> SUBSET Instances]
  BY CustomParts DEF ConstantsAssumption
<1>2. ASSUME NEW c \in RustFSCustomUser
      PROVE  /\ Custom.wanted[c] \in SUBSET Custom.fins
             /\ Custom.wanted[c] \cap Foreign = c.fins \cap Foreign
             /\ c.cleanup => Custom.fin \in Custom.wanted[c]
             /\ ~c.cleanup => Custom.fin \notin Custom.wanted[c]
  <2>1. c.cleanup \in BOOLEAN /\ c.fins \subseteq Foreign \cup {FIN_CLEANUP}
    BY DEF RustFSCustomUser
  <2>2. FIN_CLEANUP \notin Foreign
    BY DEF ConstantsAssumption
  <2> QED BY ZenonT(60), <2>1, <2>2, CustomParts
<1>3. \A c \in Custom.crs : Fields(Custom, c) /\ Writable(Custom, c)
  BY CustomParts, CustomWritable
<1>4. \A c \in Custom.new, n \in Uids :
        LET d == [c EXCEPT !.uid = n] IN
        /\ d \in Custom.crs /\ d.uid = n
        /\ d.deleting = FALSE /\ d.conditions = NoConditions(ConditionTypes)
  <2>1. Custom.crs = RustFSCustomUser /\ Custom.new = NewUsers
    BY CustomParts
  <2> QED BY <2>1, NewUsersType
<1>5. \A c \in Custom.crs :
        /\ Fields(Custom, c) /\ Writable(Custom, c)
        /\ Custom.wanted[c] \in SUBSET Custom.fins
        /\ Custom.wanted[c] \cap Foreign = c.fins \cap Foreign
        /\ c.cleanup => Custom.fin \in Custom.wanted[c]
        /\ ~c.cleanup => Custom.fin \notin Custom.wanted[c]
  BY <1>2, <1>3, CustomParts
<1> QED BY <1>1, <1>4, <1>5 DEF Controller

--------------------------------------------------------------------------------
(* Every step of the controller is one of AccountNext. *)
LEMMA EditsOnlySpec ==
  ASSUME ConstantsAssumption, AInv(Custom), NEW u \in Users, EditUser(u)
  PROVE  EditSpec(Custom, u)
<1>1. cr[u] # Absent /\ cr[u] \in RustFSCustomUser /\ OnlyCr
  BY CustomParts DEF AInv, CInv, Sound, ReconcilerTypeOK, EditUser, Users
<1>2. PICK n \in Instances, cleanup \in BOOLEAN, policy \in Policies :
        WriteCr(u, [cr[u] EXCEPT !.instance = n, !.cleanup = cleanup,
                                 !.policy = policy])
  BY DEF EditUser
<1> DEFINE object == [cr[u] EXCEPT !.instance = n, !.cleanup = cleanup,
                                   !.policy = policy]
<1>3. /\ object \in RustFSCustomUser
      /\ object.uid = cr[u].uid /\ object.deleting = cr[u].deleting
      /\ object.fins = cr[u].fins
      /\ object.conditions = cr[u].conditions
      /\ object.password_hash = cr[u].password_hash
  BY <1>1 DEF RustFSCustomUser
<1>4. WriteCr(u, object)
  BY <1>2
<1> HIDE DEF object
<1> QED BY <1>1, <1>3, <1>4, CustomParts DEF EditSpec, SameStatus

(* Every step of its reconcile is one of UserAccountProofs.                *)
LEMMA ReconcileStep ==
  ASSUME ConstantsAssumption, AInv(Custom), NEW p \in Pods, NEW u \in Users,
         Reconcile(p, u)
  PROVE  UserStep(Custom, p, u)
<1> DEFINE c == task[p][u].cr
<1>1. ~At(p, u, "idle") => c \in RustFSCustomUser
  BY IsController, HasCopy, CustomParts
<1>2. CASE \/ Starts(p, u) \/ init_object(p, u)
           \/ get_secret(p, u) \/ create_secret(p, u) \/ reread_secret(p, u)
           \/ label_secret(p, u) \/ own_secret(p, u) \/ generate_password(p, u)
           \/ set_secret_data(p, u) \/ SaveSecretReady(p, u) \/ Publish(p, u)
           \/ SaveSecretInvalid(p, u) \/ create_user(p, u) \/ user_info(p, u)
           \/ assign_policy(p, u) \/ delete_user(p, u) \/ Finalize(p, u)
  BY <1>2, CustomParts
     DEF UserStep, KubeStep, StatusStep, ServerStep, Starts, init_object, get_secret,
         create_secret, reread_secret, label_secret, own_secret, generate_password,
         set_secret_data, SaveSecretReady, SaveSecretInvalid, Publish, create_user,
         check_credentials, user_info, assign_policy, delete_user, Finalize
<1>3. CASE EnsureFinalizer(p, u)
  <2>1. c \in RustFSCustomUser
    BY <1>1, <1>3 DEF EnsureFinalizer, ReplaceFinalizers, At
  <2> QED BY <1>3, <2>1, CustomParts DEF EnsureFinalizer, FinalizerStep, UserStep
<1>4. CASE GetInstance(p, u)
  <2>1. c \in RustFSCustomUser /\ At(p, u, "checked")
    BY <1>1, <1>4 DEF GetInstance, At
  <2> QED BY <1>4, <2>1, CustomParts
          DEF GetInstance, Connects, LocateStep, UserStep, At
<1>5. CASE create_policy(p, u)
  <2>1. c \in RustFSCustomUser
    BY <1>1, <1>5 DEF create_policy, GrantsPolicy, At
  <2> QED BY <1>5, <2>1, CustomParts DEF create_policy, ServerStep, UserStep
<1> QED BY <1>2, <1>3, <1>4, <1>5 DEF Reconcile

(* So is every step of the specification.                                  *)
LEMMA NextStep ==
  ASSUME ConstantsAssumption, AInv(Custom), [Next]_vars
  PROVE  [AccountNext(Custom)]_accountVars
<1>1. CASE UNCHANGED vars
  BY <1>1 DEF vars, accountVars
<1>2. CASE Environment
  BY <1>2, EditsOnlySpec, CustomParts DEF Environment, AccountNext, Owners
<1>3. CASE Next
  BY <1>2, <1>3, ReconcileStep DEF Next, Fault, AccountNext
<1> QED BY <1>1, <1>3

(* The initial states satisfy the invariant.                               *)
LEMMA InitInv == ASSUME ConstantsAssumption, Init PROVE AInv(Custom)
<1>1. cr \in [Users -> Custom.crs \cup {Absent}]
  BY NewUsersType, CustomParts DEF Init
<1>2. /\ companion \in [Users -> Secret \cup {Absent}]
      /\ uid = [u \in Users |-> 0]
  BY DEF Init, CompanionInit, Users
<1>3. account \in [Instances -> [Names -> AccountType(Custom.policies)]]
  BY DEF Init, NoAccount, AccountType
<1> QED BY <1>1, <1>2, <1>3, IsController, InitGood DEF Init

(* The inductive invariant holds in every reachable state. *)
THEOREM Invariance == Spec => []AInv(Custom)
<1>1. Init => AInv(Custom)
  BY InitInv, ConstantsAssumption
<1>2. AInv(Custom) /\ [Next]_vars => AInv(Custom)'
  BY NextStep, IsController, StepGood, ConstantsAssumption DEF Good
<1> QED BY <1>1, <1>2, PTL DEF Spec

(* Every reachable state of the controller is well typed. *)
THEOREM TypeCorrect == Spec => []TypeOK
<1>1. AInv(Custom) => TypeOK
  BY AccountTyped, CustomParts DEF TypeOK
<1> QED BY <1>1, Invariance, PTL

(* No step of the operator undoes what a user wrote in a RustFSCustomUser, *)
(* for any number of pods that reconcile it at the same time.              *)
THEOREM EditsSurvive == Spec => KeepsUserEdits
<1>1. AInv(Custom) /\ [Next]_vars
        => [edits' = edits => SpecsKept({"instance", "cleanup", "policy"})]_vars
  <2>1. ASSUME AInv(Custom), [Next]_vars, edits' = edits
        PROVE  SpecsKept(Custom.spec)
    BY <2>1, NextStep, IsController, StepGood, ConstantsAssumption DEF Good
  <2> QED BY <2>1, CustomParts
<1> QED BY <1>1, Invariance, PTL DEF Spec, KeepsUserEdits

--------------------------------------------------------------------------------
(* What a single pod promises to users with different names on the servers. *)

Place(u) == IF cr[u] = Absent THEN Absent ELSE cr[u].instance

owners ==
  [u \in Users |-> [state |-> StateOf(u, FIN_CLEANUP), place |-> Place(u)]]

presence == [u \in Users |-> KnownBy(u)]

(* The owners of the abstract specification are well typed.                *)
LEMMA OwnersType ==
  /\ AInv(Custom) => owners \in [Users -> [state: Promise!States,
                                           place: Instances \cup {Absent}]]
  /\ AInv(Custom)' => owners' \in [Users -> [state: Promise!States,
                                             place: Instances \cup {Absent}]]
<1>1. \A u \in Users : /\ StateOf(u, FIN_CLEANUP) \in Promise!States
                       /\ StateOf(u, FIN_CLEANUP)' \in Promise!States
  BY StatesOf DEF Promise!States
<1>2. /\ AInv(Custom) => \A u \in Users : cr[u] # Absent => cr[u] \in RustFSCustomUser
      /\ AInv(Custom)' => \A u \in Users : cr'[u] # Absent => cr'[u] \in RustFSCustomUser
  BY CustomParts DEF AInv, CInv, Sound, ReconcilerTypeOK, Users
<1>3. /\ AInv(Custom) => \A u \in Users : Place(u) \in Instances \cup {Absent}
      /\ AInv(Custom)' => \A u \in Users : Place(u)' \in Instances \cup {Absent}
  BY <1>2 DEF Place, RustFSCustomUser
<1> QED BY <1>1, <1>3 DEF owners

(* What a step does to the users is a step of Cleanup. *)
LEMMA Promised ==
  ASSUME ConstantsAssumption, AInv(Custom), AInv(Custom)', PromiseStep(Custom)
  PROVE  [Promise!Next]_<<owners, presence>>
<1>1. CASE UNCHANGED account /\ \A u \in Users : TurnsUser(Custom, u)
  <2>1. ASSUME NEW u \in Users
        PROVE  \/ <<owners[u].state, owners'[u].state>> \in Promise!Turns
               \/ Promise!Released(u)
    <3> DEFINE s == StateOf(u, FIN_CLEANUP)
               t == StateOf(u, FIN_CLEANUP)'
    <3>1. owners[u].state = s /\ owners'[u].state = t /\ owners[u].place = Place(u)
      BY DEF owners
    <3>2. Turning(s, t) \/ Lets(Custom, u)
      BY <1>1, CustomParts DEF TurnsUser
    <3> HIDE DEF s, t
    <3>3. CASE Turning(s, t)
      <4>1. <<s, t>> \in Promise!Turns
        BY <3>3 DEF Turning, Promise!Turns, Promise!States
      <4> QED BY <3>1, <4>1
    <3>4. CASE Lets(Custom, u)
      <4>1. s = "condemned" /\ t \in {"kept", "none"}
        BY <3>4, CustomParts DEF Lets, s, t
      <4>2. PICK p \in Pods :
              /\ At(p, u, "removed") /\ task[p][u].cr = cr[u]
              /\ account[local[p][u].instance][username(u)].password = NoData
        BY <3>4 DEF Lets
      <4>3. task[p][u].pc \in Onward
        BY <4>2, StepTypes DEF At
      <4>4. cr[u] \in RustFSCustomUser /\ local[p][u].instance \in Custom.home[cr[u]]
        BY <4>2, <4>3, IsController, OnwardCopy, CustomParts
      <4>5. cr[u] # Absent /\ local[p][u].instance = cr[u].instance
        <5>1. Custom.home[cr[u]] = {cr[u].instance}
          BY <4>4, CustomParts
        <5> QED BY <4>4, <5>1 DEF ConstantsAssumption
      <4>6. Place(u) \notin KnownBy(u)
        BY <4>2, <4>5 DEF Place, KnownBy
      <4>7. presence[u] = KnownBy(u)
        BY DEF presence
      <4> QED BY <3>1, <4>1, <4>6, <4>7 DEF Promise!Released, owners, presence, Place
    <3> QED BY <3>2, <3>3, <3>4
  <2>2. UNCHANGED presence
    BY <1>1 DEF presence, KnownBy
  <2>3. Promise!OwnersChange
    BY <2>1, <2>2, OwnersType DEF Promise!OwnersChange, owners, presence, Place
  <2> QED BY <2>3 DEF Promise!Next, owners, presence, Place
<1>2. ASSUME NEW p \in Pods, NEW u \in Users, Serves(Custom, p, u)
      PROVE  [Promise!Next]_<<owners, presence>>
  <2> DEFINE n == local[p][u].instance
             known == account'[n][username(u)].password # NoData
  <2>1. UNCHANGED owners /\ n \in Instances
    BY <1>2 DEF Serves, owners, StateOf, Place
  <2>2. \A x \in Users : x # u => KnownBy(x)' = KnownBy(x)
    BY <1>2 DEF Serves, KnownBy
  <2>3. KnownBy(u)' = IF known THEN KnownBy(u) \cup {n} ELSE KnownBy(u) \ {n}
    BY <1>2, <2>1 DEF Serves, KnownBy
  <2>4. CASE known
    <3>1. presence' = [presence EXCEPT ![u] = @ \cup {n}]
      BY <2>2, <2>3, <2>4 DEF presence
    <3>2. Promise!Provide(u, n)
      BY <2>1, <3>1 DEF Promise!Provide, owners, presence, Place
    <3> QED BY <2>1, <3>2 DEF Promise!Next, owners, presence, Place
  <2>5. CASE ~known
    <3>1. presence' = [presence EXCEPT ![u] = @ \ {n}]
      BY <2>2, <2>3, <2>5 DEF presence
    <3>2. CASE account[n][username(u)].password = NoData
      <4>1. KnownBy(u) \ {n} = KnownBy(u)
        BY <3>2 DEF KnownBy
      <4>2. UNCHANGED presence
        BY <2>2, <2>3, <2>5, <4>1 DEF presence
      <4> QED BY <2>1, <4>2
    <3>3. CASE StateOf(u, FIN_CLEANUP) \in {"marked", "condemned"}
      <4>1. owners[u].state \in {"marked", "condemned"}
        BY <3>3 DEF owners
      <4>2. Promise!Remove(u, n)
        BY <2>1, <3>1, <4>1 DEF Promise!Remove, owners, presence, Place
      <4> QED BY <2>1, <4>2 DEF Promise!Next, owners, presence, Place
    <3> QED BY <1>2, <2>5, <3>2, <3>3, CustomParts DEF Serves
  <2> QED BY <2>4, <2>5
<1> QED BY <1>1, <1>2 DEF PromiseStep

(* The initial states have established nothing, and are those of Cleanup.  *)
LEMMA InitEstablished ==
  ASSUME ConstantsAssumption, Init  PROVE BInv(Custom) /\ Promise!Init
<1>1. \A u \in Users : /\ cr[u] # Absent => cr[u].uid = 0
                       /\ companion[u] = Absent /\ uid[u] = 0
  BY DEF Init, NewUsers, CompanionInit, Users
<1>2. AInv(Custom) /\ uid = [u \in Users |-> 0] /\ ReconcilerInit
  BY InitInv DEF Init, CompanionInit, Users
<1>3. BInv(Custom)
  BY <1>1, <1>2, IsController, InitKind
<1>4. presence \in [Users -> SUBSET (Instances \cup {Absent})]
  BY DEF presence, KnownBy
<1> QED BY <1>2, <1>3, <1>4, OwnersType DEF Promise!Init, owners, presence, Place

(* With one pod every step keeps the promises and is one of Cleanup.       *)
LEMMA StepPromises ==
  ASSUME ConstantsAssumption, OnePod, OwnNames, AInv(Custom), BInv(Custom), [Next]_vars
  PROVE  Kind(Custom) /\ [Promise!Next]_<<owners, presence>>
<1>1. Kind(Custom) /\ AInv(Custom)'
  BY NextStep, IsController, StepKind, StepGood DEF Good
<1> QED BY <1>1, Promised DEF Kind

(* What the reconciles of a single pod have established of a custom user,  *)
(* of its Secret and of its account holds in every reachable state.        *)
THEOREM Establishes == ASSUME OnePod, OwnNames PROVE Spec => []BInv(Custom)
<1>1. Init => BInv(Custom)
  BY InitEstablished, ConstantsAssumption
<1>2. AInv(Custom) /\ BInv(Custom) /\ [Next]_vars => BInv(Custom)'
  BY StepPromises, ConstantsAssumption DEF Kind
<1> QED BY <1>1, <1>2, Invariance, PTL DEF Spec

(* No step of the operator and of the garbage collector changes or removes *)
(* the Secret of a custom user that holds valid credentials.               *)
THEOREM CredentialsStay == ASSUME OnePod, OwnNames PROVE Spec => ValidCredentialsStay
<1>1. AInv(Custom) /\ BInv(Custom) /\ [Next]_vars => [ValidCredentialsKept]_vars
  BY StepPromises, ConstantsAssumption DEF Kind, Credentials, ValidCredentialsKept
<1> QED BY <1>1, Invariance, Establishes, PTL DEF Spec, ValidCredentialsStay

(* A custom user that becomes ready has on the server of its instance the  *)
(* password of its status and the policy that its spec has at that moment. *)
THEOREM ReadyEarned == ASSUME OnePod, OwnNames PROVE Spec => ReadyIsEarned
<1> DEFINE Earned ==
      \A u \in Users :
        BecomesUserReady(u) =>
          account'[cr'[u].instance][username(u)] =
            FullAccount(cr'[u].password_hash, cr'[u].policy)
<1>1. AInv(Custom) /\ BInv(Custom) /\ [Next]_vars => [Earned]_vars
  <2>1. ASSUME AInv(Custom), BInv(Custom), [Next]_vars, NEW u \in Users,
               BecomesUserReady(u)
        PROVE  account'[cr'[u].instance][username(u)] =
                 FullAccount(cr'[u].password_hash, cr'[u].policy)
    <3>1. Kind(Custom) /\ AInv(Custom)'
      BY <2>1, NextStep, IsController, StepPromises, StepGood, ConstantsAssumption
         DEF Good
    <3>2. cr'[u] \in RustFSCustomUser
      BY <2>1, <3>1, CustomParts
         DEF BecomesUserReady, AInv, CInv, Sound, ReconcilerTypeOK, Users
    <3>3. \E n \in Custom.home[cr'[u]] :
            account'[n][username(u)] =
              FullAccount(cr'[u].password_hash, Custom.pol[cr'[u]])
      BY <2>1, <3>1 DEF Kind, Earns
    <3>4. /\ Custom.home[cr'[u]] = {cr'[u].instance}
          /\ Custom.pol[cr'[u]] = cr'[u].policy
      BY <3>2, CustomParts
    <3> QED BY <3>3, <3>4
  <2> QED BY <2>1
<1> QED BY <1>1, Invariance, Establishes, PTL DEF Spec, ReadyIsEarned

(* The controller implements Cleanup: it lets no custom user with cleanup  *)
(* go while the server of its instance knows the user, and it removes none *)
(* from a server unless its object is being deleted.                       *)
THEOREM PromiseKept == ASSUME OnePod, OwnNames PROVE Spec => KeepsPromise
<1>1. Init => Promise!Init
  BY InitEstablished, ConstantsAssumption
<1>2. AInv(Custom) /\ BInv(Custom) /\ [Next]_vars
        => [Promise!Next]_<<owners, presence>>
  BY StepPromises, ConstantsAssumption
<1> QED BY <1>1, <1>2, Invariance, Establishes, PTL
        DEF Spec, KeepsPromise, Promise!Spec, owners, presence, Place
================================================================================
