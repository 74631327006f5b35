----------------------------------- MODULE Rc -----------------------------------
(***************************************************************************)
(* The commands of rc that change a RustFS server, operator/src/rc.rs.     *)
(* Each operator is given what the server has of a bucket or of a user and *)
(* returns the set of what it may have afterwards.  A command that cannot  *)
(* succeed has no outcome.                                                 *)
(*                                                                         *)
(* rc itself is not part of the repository.  Where the code does not tell  *)
(* whether a command succeeds, a constant does.                            *)
(***************************************************************************)
CONSTANTS
  Nothing,          \* the server has no such bucket, user or policy
  RemovesMissing    \* whether removing what is missing succeeds

Outcome(succeeds, result) == IF succeeds THEN {result} ELSE {}

(* A bucket is its anonymous access.  `initial' is what a new one has. *)

create_bucket(bucket, initial) == Outcome(bucket = Nothing, initial)

set_bucket_access(bucket, access) == Outcome(bucket # Nothing, access)

(* `rc rb --force' removes the bucket with everything in it. *)
delete_bucket(bucket) == Outcome(bucket # Nothing \/ RemovesMissing, Nothing)

(* A user is a password, a policy that has the user's name, and whether it *)
(* is attached.  `user add' changes the password of a user that exists,    *)
(* `policy create' replaces a policy, and a policy outlives its user.      *)

create_user(account, password) ==
  Outcome(TRUE, [account EXCEPT !.password = password])

user_info(account) == Outcome(account.password # Nothing, account)

create_policy(account, policy) ==
  Outcome(TRUE, [account EXCEPT !.policy = policy])

assign_policy(account) ==
  Outcome(account.password # Nothing, [account EXCEPT !.attached = TRUE])

delete_user(account) ==
  Outcome(account.password # Nothing \/ RemovesMissing,
          [account EXCEPT !.password = Nothing, !.attached = FALSE])
================================================================================
