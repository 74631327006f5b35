------------------------------ MODULE Conditions ------------------------------
(***************************************************************************)
(* operator/src/conditions.rs.  A Vec<Condition> that is searched by type  *)
(* is a function from the condition types of the resource to a status;     *)
(* "Absent" is a type the vector has no entry for.  Messages, reasons,     *)
(* generations and times are left out.                                     *)
(***************************************************************************)

ConditionStatus == {"Absent", "Unknown", "True", "False"}

(* The conditions of a resource whose status is None. *)
NoConditions(types) == [t \in types |-> "Absent"]

(* Mutant of init_conditions: status and reason are swapped. *)
SwappedConditions(types) == [t \in types |-> "Reconciling"]

init_conditions(types) == [t \in types |-> "Unknown"]

(* Mutant of set_condition: status and reason are swapped. *)
SwappedCondition(conditions, type, status) ==
  [conditions EXCEPT ![type] = "Reconciled"]

(* Overwrites the entry of that type or appends one. *)
set_condition(conditions, type, status) == [conditions EXCEPT ![type] = status]

is_condition_true(conditions, type) == conditions[type] = "True"

is_condition_unknown(conditions, type) == conditions[type] = "Unknown"
================================================================================
