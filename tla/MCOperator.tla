------------------------------- MODULE MCOperator -------------------------------
(* Small instances of Operator for TLC. *)
EXTENDS Operator

\* One bucket "a/b".
MCBuckets == {[namespace |-> <<"a">>, name |-> <<"b">>]}
================================================================================
