------------------------ MODULE MCBucketUserController ------------------------
(* Small instances of BucketUserController for TLC. *)
EXTENDS BucketUserController

\* One user "a/u".
MCUsers == {[namespace |-> <<"a">>, name |-> <<"u">>]}
================================================================================
