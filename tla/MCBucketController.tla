--------------------------- MODULE MCBucketController ---------------------------
(* Small instances of BucketController for TLC. *)
EXTENDS BucketController, TLC

\* A name is the sequence of its parts between dashes.
MCBucket(namespace, name) == [namespace |-> namespace, name |-> name]

\* One bucket "a/b".
MCOneBucket == {MCBucket(<<"a">>, <<"b">>)}

\* Buckets "a/b-c" and "a-b/c".
MCTwoBuckets ==
  {MCBucket(<<"a">>, <<"b", "c">>), MCBucket(<<"a", "b">>, <<"c">>)}

\* Each instance has a server of its own, or may be pointed at any.
MCApart == [n \in Instances |-> IF n = "n1" THEN {"e1"} ELSE {"e2"}]

MCAnyServer == [n \in Instances |-> Endpoints]
================================================================================
