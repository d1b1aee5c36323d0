------------------------------ MODULE MCBucket ------------------------------
(* Small instances of Bucket for TLC. Each .cfg gives Env, the kinds of      *)
(* trouble that happen, and the bounds its question needs.                   *)
EXTENDS BucketProperties, TLC

CONSTANTS x, y,         \* two random suffixes
          plain, labelled \* settings without and with the adoption labels

Sym == Permutations(Suffixed)
=============================================================================
