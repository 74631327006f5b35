-------------------------------- MODULE Cleanup --------------------------------
(***************************************************************************)
(* What `cleanup' in the spec of a bucket or a user promises.  An owner is *)
(* a custom resource; what it stands for is present at some places, the    *)
(* RustFS servers.  An owner that is condemned, that is being deleted with *)
(* cleanup and with the finalizer, does not go while what it stands for is *)
(* present at its place, and nothing is ever removed for any other owner.  *)
(***************************************************************************)
CONSTANTS Owners, Places

VARIABLES
  owner,      \* owner[o]: the state of an owner and its place
  present     \* present[o]: where what it stands for is present

(* A marked owner is being deleted with the finalizer but without cleanup. *)
States == {"none", "kept", "marked", "condemned"}

Init ==
  /\ owner \in [Owners -> [state: States, place: Places]]
  /\ present \in [Owners -> SUBSET Places]

Turns ==
  {<<s, s>> : s \in States} \cup
  {<<"none", "kept">>, <<"kept", "none">>,
   <<"kept", "marked">>, <<"kept", "condemned">>,
   <<"marked", "condemned">>, <<"condemned", "marked">>,
   <<"marked", "kept">>, <<"marked", "none">>}

Released(o) ==
  /\ owner[o].state = "condemned"
  /\ owner'[o].state \in {"kept", "none"}
  /\ owner[o].place \notin present[o]

OwnersChange ==
  /\ owner' \in [Owners -> [state: States, place: Places]]
  /\ \A o \in Owners :
       <<owner[o].state, owner'[o].state>> \in Turns \/ Released(o)
  /\ UNCHANGED present

Provide(o, place) ==
  /\ present' = [present EXCEPT ![o] = @ \cup {place}]
  /\ UNCHANGED owner

Remove(o, place) ==
  /\ owner[o].state \in {"marked", "condemned"}
  /\ present' = [present EXCEPT ![o] = @ \ {place}]
  /\ UNCHANGED owner

Next ==
  \/ OwnersChange
  \/ \E o \in Owners, place \in Places : Provide(o, place) \/ Remove(o, place)

Spec == Init /\ [][Next]_<<owner, present>>
================================================================================
