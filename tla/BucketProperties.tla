-------------------------- MODULE BucketProperties --------------------------
(***************************************************************************)
(* What the Bucket controller promises, as properties of module Bucket.    *)
(***************************************************************************)
EXTENDS Bucket, FiniteSets

(* Every variable has its type.                                              *)
TypeOK ==
    /\ bucket \in BucketObject /\ bucketCache \in BucketObject
    /\ remote \subseteq RemoteBucket
    /\ issued \in Nat /\ late \in 0..MaxLate
    /\ taken \subseteq [id : IDs, name : Names]
    /\ pc \in Phases /\ obj \in BucketObject /\ run \in Locals
    /\ faults \in 0..MaxFaults /\ edits \in 0..MaxEdits

Ours == {t.id : t \in taken}

(* A bucket with another owner is still there, as its owner left it.         *)
SparesForeign ==
    \A r \in remote : r.id \notin Ours =>
        \E q \in remote' : q.id = r.id /\ q.settings = r.settings

(* No step of the controller changes or deletes a bucket that it neither     *)
(* created nor was allowed to adopt: the name it works on is "the Thalassa   *)
(* bucket name known to belong to this CR" (provisionedBucketName).          *)
ForeignBucketKept == [][edits' = edits => SparesForeign]_vars

(* The same, but for a deletion with a fixed name that status never recorded *)
(* (which does harm: run foreign_base).                                      *)
FixedNameDeletion == pc = "delete" /\ ~obj.suffix /\ obj.status.name = NoName
ForeignBucketSpared ==
    [][edits' = edits /\ ~FixedNameDeletion => SparesForeign]_vars

(* An object that is gone took the bucket that its status recorded with it,  *)
(* however stale the copy was that Terminate worked from.                    *)
BucketGone ==
    bucket.phase = "gone" =>
        \A r \in remote : r.name = bucket.status.name => r.id \notin Ours

(* A bucket is taken only when it is made or carries the labels that permit  *)
(* adoption, with the feature gate on (CheckAdoptionEligibility).            *)
TakenByRight ==
    [][\A r \in remote : (r.id \notin Ours /\ r.id \in {t.id : t \in taken'})
          => AdoptionEnabled /\ r.settings \in Adoptable]_vars

(* Between passes there is at most one bucket that we made and that status   *)
(* does not name for each call that failed, crash that happened or write     *)
(* that the informer saw late: the retries of createBucket do not pile up    *)
(* buckets under fresh random names.                                         *)
OrphansBut(name) == {r \in remote : r.id \in Ours /\ r.name # name}
Orphans == OrphansBut(bucket.status.name)
OrphansBounded == pc = "idle" => Cardinality(Orphans) <= faults + late

(* Once faults and edits stop, no object waits for its deletion for ever,    *)
(* unless it is suspended: then it waits, finalizer and all, until somebody  *)
(* resumes it.                                                               *)
DeletionCompletes == <>[](bucket.phase = "deleting" => bucket.suspended)

(* What a live object asks for cannot be done as things are: it is suspended *)
(* or the name it must create is taken and may not be adopted, or all are.   *)
Blocked ==
    \/ bucket.suspended
    \/ /\ bucket.status.name = NoName
       /\ IF bucket.suffix THEN \A n \in Suffixed : Found(n) # {}
                           ELSE \E r \in Found(Base) : ~Eligible(r)

Honoured ==
    /\ bucket.status.cond = "Available"
    /\ \E r \in Found(bucket.status.name) : r.settings = bucket.settings

(* Once faults and edits stop, a live object that nothing blocks has, from   *)
(* some moment on, a bucket with the settings of its spec, and says so.      *)
Converges == <>[](bucket.phase = "live" /\ ~Blocked => Honoured)

-----------------------------------------------------------------------------
(* Inductive strengthenings, for the proofs.                                 *)

(* The service gives an identity once and a name to one bucket at a time;    *)
(* it is asked to create what has a name.                                    *)
ServiceInv ==
    /\ pc = "create" => run.name # NoName
    /\ \A r, q \in remote : (r.id = q.id \/ r.name = q.name) => r = q
    /\ \A r \in remote : r.id <= issued
    /\ \A t \in taken : t.id <= issued

(* Passes run under the finalizer, which goes only with the object, and      *)
(* without it nothing was ever recorded.                                     *)
LifecycleInv ==
    /\ (pc # "idle" \/ bucketCache.finalizer)
          => bucket.finalizer \/ bucket.phase = "gone"
    /\ pc \in {"pick", "create"} => bucket.phase # "gone"
    /\ (bucket.phase # "gone" /\ ~bucket.finalizer)
          => bucket.status.name = NoName

(* Terminate deletes the bucket of the status it read before the finalizer.  *)
GoneInv ==
    /\ BucketGone
    /\ (pc = "delete" /\ obj.status.name # NoName)
          => run.name = obj.status.name
    /\ pc = "unfinalize" =>
          \A r \in remote : r.name = obj.status.name => r.id \notin Ours

(* Unless others take over a name that was ours, what has such a name is     *)
(* ours, and the names a pass works with are such names.                     *)
TakenNames == {t.name : t \in taken}
NameInv ==
    /\ \A r \in remote : r.name \in TakenNames => r.id \in Ours
    /\ \A o \in {bucket, bucketCache, obj} :
          o.status.name \in TakenNames \cup {NoName}
    /\ pc \in {"get", "update"} => run.name \in TakenNames
    /\ pc = "delete" => run.name \in TakenNames \/ FixedNameDeletion

(* Whichever status is written next, be it the object's own, the informer's  *)
(* copy or that of the running pass, it leaves no more buckets unnamed than  *)
(* calls failed, crashes happened and writes came late. Only at the end of a *)
(* pass that may still succeed is one more unnamed as yet; and a pass that   *)
(* is to create one while the informer lags has one to spare.                *)
Unnamed(name, n) == Cardinality(OrphansBut(name)) <= n
Slack == faults + late
OrphanInv ==
    /\ IsFiniteSet(remote)
    /\ \A o \in {bucket, bucketCache} :
          /\ Unnamed(o.status.name, Slack + 1)
          /\ ~(pc = "persist" /\ CacheIsCurrent)
                => Unnamed(o.status.name, Slack)
    /\ pc # "idle" => Unnamed(obj.status.name, Slack)
    /\ pc \in {"pick", "create"} =>
          /\ obj.status.name = NoName /\ bucket.status.name = NoName
          /\ ~CacheIsCurrent => Cardinality(OrphansBut(NoName)) + 1 <= Slack
    /\ pc = "creating" => obj.status.name = NoName
    /\ pc \in {"get", "update"} => run.name = obj.status.name
=============================================================================
