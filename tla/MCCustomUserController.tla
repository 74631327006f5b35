------------------------ MODULE MCCustomUserController ------------------------
(* Small instances of CustomUserController for TLC. *)
EXTENDS CustomUserController

\* One user "a/u".
MCUsers == {[namespace |-> <<"a">>, name |-> <<"u">>]}
================================================================================
