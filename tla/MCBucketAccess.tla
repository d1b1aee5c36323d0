--------------------------- MODULE MCBucketAccess ---------------------------
(* Small instances of BucketAccess for TLC. Each .cfg gives Env, the kinds  *)
(* of trouble that happen, and the bounds its question needs.                *)
EXTENDS BucketAccessProperties, TLC

CONSTANTS b1, b2

Sym == Permutations(Buckets)
=============================================================================
