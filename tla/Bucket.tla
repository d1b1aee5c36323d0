------------------------------- MODULE Bucket -------------------------------
(***************************************************************************)
(* The Bucket controller: one worker that reconciles one Bucket object     *)
(* against the object storage service, where other owners have buckets too *)
(* and names are shared by everybody.                                      *)
(*                                                                         *)
(* As in module BucketAccess the worker is a machine of phases (pc), one   *)
(* per call that leaves the process.                                       *)
(*                                                                         *)
(* Abstractions:                                                           *)
(*  - versioning, object lock, public access, labels and annotations are   *)
(*    one value of Settings; policies are the subject of BucketPolicy;     *)
(*  - the suffixes that random bytes can give are the set Suffixed;        *)
(*  - status.bucketName stands for status.resourceId too: the code sets    *)
(*    and clears them together;                                            *)
(*  - a region is configured, spec.policy parses, random bytes are         *)
(*    available: the error exits for these never happen;                   *)
(*  - one replica runs the controller.                                     *)
(***************************************************************************)
EXTENDS Naturals

CONSTANTS Base,           \* the base name: spec.name, or the object's
          Suffixed,       \* names made of the base name and a random suffix
          NoName,         \* the empty string
          Settings,       \* configurations of a bucket, labels included
          Adoptable,      \* those whose labels permit adoption
          AdoptionEnabled,\* the feature gate BucketAdoption
          MaxAttempts,    \* maxCreateNameAttempts, 5 in the code
          Modes,          \* initial values of spec.generateNameSuffix
          Env,            \* which kinds of trouble happen, see EnvKinds
          MaxFaults,      \* bound on failed calls and crashes
          MaxLate,        \* bound on writes that the informer sees late
          MaxEdits,       \* bound on what users and other owners do
          MaxBuckets      \* bound on buckets ever created, by anybody

EnvKinds == {"crash", "lostReply", "editSettings", "flipSuffix", "suspend",
             "delete", "foreign", "relabel", "remoteDelete", "reuse"}

Names == {Base} \cup Suffixed
IDs == 1..MaxBuckets

ASSUME BucketBounds ==
    /\ MaxAttempts \in Nat \ {0} /\ MaxFaults \in Nat /\ MaxEdits \in Nat
    /\ MaxLate \in Nat /\ MaxBuckets \in Nat \ {0}
    /\ Env \subseteq EnvKinds /\ Modes \subseteq BOOLEAN

ASSUME NamesAssumption ==
    /\ NoName \notin Names /\ Base \notin Suffixed
    /\ Adoptable \subseteq Settings /\ AdoptionEnabled \in BOOLEAN

VARIABLES
    bucket,        \* the Bucket object in the API server
    bucketCache,   \* the manager's informer copy of it
    late,          \* how many writes the informer did not see at once
    remote,        \* the buckets of the object storage service
    issued,        \* how many identities the service gave
    taken,         \* history: [id, name] our passes created or adopted
    pc, obj, run,  \* the worker: phase, its copy of the object, its locals
    faults, edits  \* budgets used

objectVars == <<bucket, bucketCache, late>>
remoteVars == <<remote, issued, taken>>
workVars == <<pc, obj, run>>
vars == <<bucket, bucketCache, late, remote, issued, taken, pc, obj, run, faults,
          edits>>

Status == [name : Names \cup {NoName},
           cond : {"none", "Progressing", "Available", "Degraded"}]

BucketObject == [phase : {"live", "deleting", "gone"}, finalizer : BOOLEAN,
                 suspended : BOOLEAN, suffix : BOOLEAN, settings : Settings,
                 status : Status]

Fresh(suffix, settings) ==
    [phase |-> "live", finalizer |-> FALSE, suspended |-> FALSE,
     suffix |-> suffix, settings |-> settings,
     status |-> [name |-> NoName, cond |-> "none"]]
NoObject == Fresh(FALSE, CHOOSE s \in Settings : TRUE)

RemoteBucket == [id : IDs, name : Names, settings : Settings, ready : BOOLEAN]

(* The locals of createBucket and reconcileBucket.                           *)
Locals == [name : Names \cup {NoName}, attempt : 0..MaxAttempts]
NoLocals == [name |-> NoName, attempt |-> 0]

Phases == {"idle", "creating", "pick", "create", "get", "update", "persist",
           "degrade", "delete", "unfinalize"}

-----------------------------------------------------------------------------
(* Calls that leave the process: see module BucketAccess.                    *)

Fail == faults < MaxFaults /\ faults' = faults + 1
Lost == "lostReply" \in Env /\ Fail

(* A write to the Bucket; the informer sees it at once or late.              *)
Publish(o) ==
    /\ bucket' = o
    /\ \/ bucketCache' = o /\ UNCHANGED late
       \/ late < MaxLate /\ late' = late + 1 /\ UNCHANGED bucketCache

CacheIsCurrent == bucketCache = bucket /\ bucket.phase # "gone"

(* updateStatusWithRetry                                                     *)
Persisted(status) ==
    /\ CacheIsCurrent
    /\ Publish([bucket EXCEPT !.status = status])
    /\ UNCHANGED faults

NotPersisted(status) ==
    \/ ~CacheIsCurrent /\ UNCHANGED <<objectVars, faults>>
    \/ Fail /\ UNCHANGED objectVars
    \/ Lost /\ CacheIsCurrent /\ Publish([bucket EXCEPT !.status = status])

Goto(phase) == pc' = phase
Stop == pc' = "idle" /\ obj' = NoObject /\ run' = NoLocals

-----------------------------------------------------------------------------
(* Decisions of the handler. Each operator that a mutant replaces is         *)
(* preceded by the mutated form.                                             *)

Eligible_GateOnly(r) == AdoptionEnabled

(* CheckAdoptionEligibility                                                  *)
Eligible(r) == AdoptionEnabled /\ r.settings \in Adoptable

ProvisionedName_OrBase(o) ==
    IF o.status.name # NoName THEN o.status.name ELSE Base

(* provisionedBucketName: NoName is the answer "not ok".                     *)
ProvisionedName(o) ==
    IF o.status.name # NoName THEN o.status.name
    ELSE IF o.suffix THEN NoName ELSE Base

(* bucketRequiresUpdate                                                      *)
RequiresUpdate(o, r) == r.settings # o.settings

Observed_NotRecorded(o, r) == o

(* applyObservedStatus                                                       *)
Observed(o, r) == [o EXCEPT !.status.name = r.name]

Forgotten_NotCleared(o) == o

(* reconcileBucket, when the service no longer knows the bucket.             *)
Forgotten(o) == [o EXCEPT !.status.name = NoName]

(* setConditionFromProviderStatus                                            *)
ProviderCondition(o, r) ==
    [o EXCEPT !.status.cond = IF r.ready THEN "Available" ELSE "Progressing"]

UpdateAccepted_AnyVersion == bucket.phase # "gone"

(* Terminate's Update is accepted at the resourceVersion its pass has read.  *)
UpdateAccepted == obj = bucket /\ bucket.phase # "gone"

Done_OnlyOk == {"ok"}

(* The answers to DeleteBucket with which Terminate goes on.                 *)
Done == {"ok", "notFound"}

(* Outside this code: what GetBucket finds under a name.                     *)
Found(n) == {r \in remote : r.name = n}

-----------------------------------------------------------------------------
(* Another owner may already hold the base name.                             *)
Init ==
    /\ \E suffix \in Modes, s \in Settings : bucket = Fresh(suffix, s)
    /\ bucketCache = bucket /\ late = 0
    /\ remote \in {{}} \cup IF "foreign" \in Env
                            THEN {{r} : r \in [id : {1}, name : {Base},
                                               settings : Settings,
                                               ready : {TRUE}]}
                            ELSE {}
    /\ issued = 1 /\ taken = {}
    /\ pc = "idle" /\ obj = NoObject /\ run = NoLocals
    /\ faults = 0 /\ edits = 0

-----------------------------------------------------------------------------
(* BucketReconciler.Reconcile                                                *)

AddFinalizer ==
    /\ pc = "idle" /\ ~bucketCache.suspended
    /\ bucketCache.phase = "live" /\ ~bucketCache.finalizer
    /\ \/ CacheIsCurrent /\ Publish([bucket EXCEPT !.finalizer = TRUE])
          /\ UNCHANGED faults
       \/ Fail /\ UNCHANGED objectVars
       \/ Lost /\ CacheIsCurrent /\ Publish([bucket EXCEPT !.finalizer = TRUE])
    /\ UNCHANGED <<workVars, remoteVars, edits>>

(* Without a recorded name the pass creates, else it reconciles that bucket. *)
StartReconcile ==
    /\ pc = "idle" /\ ~bucketCache.suspended
    /\ bucketCache.phase = "live" /\ bucketCache.finalizer
    /\ obj' = bucketCache
    /\ IF bucketCache.status.name = NoName
       THEN run' = NoLocals /\ Goto("creating")
       ELSE /\ run' = [NoLocals EXCEPT !.name = ProvisionedName(bucketCache)]
            /\ Goto("get")
    /\ UNCHANGED <<objectVars, remoteVars, faults, edits>>

StartTerminate ==
    /\ pc = "idle" /\ ~bucketCache.suspended
    /\ bucketCache.phase = "deleting" /\ bucketCache.finalizer
    /\ obj' = bucketCache
    /\ run' = [NoLocals EXCEPT !.name = ProvisionedName(bucketCache)]
    /\ Goto(IF run'.name = NoName THEN "unfinalize" ELSE "delete")
    /\ UNCHANGED <<objectVars, remoteVars, faults, edits>>

-----------------------------------------------------------------------------
(* Handler.createBucket                                                      *)

Creating ==
    /\ pc = "creating"
    /\ LET o == [obj EXCEPT !.status.cond = "Progressing"] IN
       \/ /\ Persisted(o.status) /\ obj' = o
          /\ run' = [run EXCEPT !.attempt = 1] /\ Goto("pick")
       \/ NotPersisted(o.status) /\ Stop
    /\ UNCHANGED <<remoteVars, edits>>

RetryOrDegrade_OneMore ==
    IF obj.suffix /\ run.attempt <= MaxAttempts
    THEN Goto("pick") /\ run' = [run EXCEPT !.attempt = @ + 1]
    ELSE Goto("degrade") /\ UNCHANGED run

(* Another suffix is tried, up to maxCreateNameAttempts of them.             *)
RetryOrDegrade ==
    IF obj.suffix /\ run.attempt < MaxAttempts
    THEN Goto("pick") /\ run' = [run EXCEPT !.attempt = @ + 1]
    ELSE Goto("degrade") /\ UNCHANGED run

(* One attempt: look the name up, and adopt, refuse, retry or go on.         *)
PickName ==
    /\ pc = "pick"
    /\ \E n \in IF obj.suffix THEN Suffixed ELSE {Base} :
          \/ /\ Found(n) = {} /\ run' = [run EXCEPT !.name = n]
             /\ Goto("create") /\ UNCHANGED <<obj, taken, faults>>
          \/ /\ Found(n) # {} /\ obj.suffix
             /\ RetryOrDegrade /\ UNCHANGED <<obj, taken, faults>>
          \/ \E r \in Found(n) :
                /\ ~obj.suffix /\ Eligible(r)
                /\ obj' = ProviderCondition(Observed(obj, r), r)
                /\ taken' = taken \cup {[id |-> r.id, name |-> n]}
                /\ Goto("persist") /\ UNCHANGED <<run, faults>>
          \/ \E r \in Found(n) :
                /\ ~obj.suffix /\ ~Eligible(r)
                /\ Goto("degrade") /\ UNCHANGED <<obj, run, taken, faults>>
          \/ Fail /\ Goto("degrade") /\ UNCHANGED <<obj, run, taken>>
    /\ UNCHANGED <<objectVars, remote, issued, edits>>

(* CreateBucket; the service refuses a name that exists by now.              *)
CreateBucket ==
    /\ pc = "create"
    /\ LET made == [id |-> issued + 1, name |-> run.name,
                    settings |-> obj.settings, ready |-> FALSE]
           Made == /\ Found(run.name) = {} /\ issued < MaxBuckets
                   /\ remote' = remote \cup {made} /\ issued' = made.id
                   /\ taken' = taken \cup {[id |-> made.id, name |-> made.name]}
       IN \/ /\ Made /\ obj' = ProviderCondition(Observed(obj, made), made)
             /\ Goto("persist") /\ UNCHANGED <<run, faults>>
          \/ Made /\ Lost /\ RetryOrDegrade /\ UNCHANGED obj
          \/ /\ Fail \/ (UNCHANGED faults /\ (\/ Found(run.name) # {}
                                              \/ issued = MaxBuckets))
             /\ RetryOrDegrade /\ UNCHANGED <<obj, remoteVars>>
    /\ UNCHANGED <<objectVars, edits>>

-----------------------------------------------------------------------------
(* Handler.reconcileBucket                                                   *)

GetBucket ==
    /\ pc = "get"
    /\ \/ /\ Found(run.name) = {} /\ UNCHANGED faults
          /\ obj' = Forgotten(obj) /\ Goto("persist")
       \/ /\ UNCHANGED faults
          /\ \E r \in Found(run.name) :
                IF RequiresUpdate(obj, r)
                THEN obj' = Observed(obj, r) /\ Goto("update")
                ELSE /\ obj' = ProviderCondition(Observed(obj, r), r)
                     /\ Goto("persist")
       \/ Fail /\ Goto("degrade") /\ UNCHANGED obj
    /\ UNCHANGED <<objectVars, run, remoteVars, edits>>

(* UpdateBucket, of whatever has the name by now.                            *)
UpdateBucket ==
    /\ pc = "update"
    /\ LET updated == {[r EXCEPT !.settings = obj.settings] :
                          r \in Found(run.name)}
           Updated == /\ Found(run.name) # {}
                      /\ remote' = (remote \ Found(run.name)) \cup updated
       IN \/ /\ Updated /\ obj' = [obj EXCEPT !.status.cond = "Progressing"]
             /\ Goto("persist") /\ UNCHANGED faults
          \/ Updated /\ Lost /\ Goto("degrade") /\ UNCHANGED obj
          \/ /\ Fail \/ (Found(run.name) = {} /\ UNCHANGED faults)
             /\ Goto("degrade") /\ UNCHANGED <<obj, remote>>
    /\ UNCHANGED <<objectVars, run, issued, taken, edits>>

(* The status write that ends a pass.                                        *)
PersistStatus ==
    /\ pc = "persist"
    /\ Persisted(obj.status) \/ NotPersisted(obj.status)
    /\ Stop
    /\ UNCHANGED <<remoteVars, edits>>

SetErrorCondition ==
    /\ pc = "degrade"
    /\ LET s == [obj.status EXCEPT !.cond = "Degraded"] IN
       Persisted(s) \/ NotPersisted(s)
    /\ Stop
    /\ UNCHANGED <<remoteVars, edits>>

-----------------------------------------------------------------------------
(* Handler.Terminate                                                         *)

(* A bucket that does not exist counts as deleted.                           *)
DeleteBucket ==
    /\ pc = "delete"
    /\ \/ /\ (IF Found(run.name) = {} THEN "notFound" ELSE "ok") \in Done
          /\ remote' = remote \ Found(run.name) /\ Goto("unfinalize")
          /\ UNCHANGED <<obj, run, faults>>
       \/ Fail /\ Stop /\ UNCHANGED remote
       \/ Lost /\ Stop /\ remote' = remote \ Found(run.name)
    /\ UNCHANGED <<objectVars, issued, taken, edits>>

Unfinalize ==
    /\ pc = "unfinalize" /\ Stop
    /\ LET done == [bucket EXCEPT !.finalizer = FALSE, !.phase = "gone"] IN
       \/ UpdateAccepted /\ Publish(done) /\ UNCHANGED faults
       \/ ~UpdateAccepted /\ UNCHANGED <<objectVars, faults>>
       \/ Fail /\ UNCHANGED objectVars
       \/ Lost /\ UpdateAccepted /\ Publish(done)
    /\ UNCHANGED <<remoteVars, edits>>

-----------------------------------------------------------------------------
(* The process, its cache and everybody else                                 *)

Crash ==
    /\ "crash" \in Env /\ pc # "idle" /\ Fail /\ Stop
    /\ bucketCache' = bucket
    /\ UNCHANGED <<bucket, late, remoteVars, edits>>

SyncBucket ==
    /\ bucketCache # bucket /\ bucketCache' = bucket
    /\ UNCHANGED <<bucket, late, remoteVars, workVars, faults, edits>>

Edit(kind) == kind \in Env /\ edits < MaxEdits /\ edits' = edits + 1

(* kubectl edits, suspends or deletes the Bucket.                            *)
EditBucket ==
    /\ bucket.phase # "gone"
    /\ \/ /\ Edit("editSettings")
          /\ \E s \in Settings \ {bucket.settings} :
                Publish([bucket EXCEPT !.settings = s])
       \/ Edit("flipSuffix") /\ Publish([bucket EXCEPT !.suffix = ~@])
       \/ Edit("suspend") /\ Publish([bucket EXCEPT !.suspended = ~@])
       \/ /\ Edit("delete") /\ bucket.phase = "live"
          /\ Publish([bucket EXCEPT !.phase =
                        IF bucket.finalizer THEN "deleting" ELSE "gone"])
    /\ UNCHANGED <<remoteVars, workVars, faults>>

(* Owners of the organisation create buckets (under a name that was ours     *)
(* only if "reuse" is on), change settings and labels, and delete.           *)
OthersAct ==
    /\ \/ /\ Edit("foreign") /\ issued < MaxBuckets /\ issued' = issued + 1
          /\ \E n \in Names, s \in Settings :
                /\ Found(n) = {}
                /\ n \in {t.name : t \in taken} => "reuse" \in Env
                /\ remote' = remote \cup {[id |-> issued', name |-> n,
                                           settings |-> s, ready |-> TRUE]}
       \/ /\ Edit("relabel") /\ UNCHANGED issued
          /\ \E r \in remote : \E s \in Settings \ {r.settings} :
                remote' = (remote \ {r}) \cup {[r EXCEPT !.settings = s]}
       \/ /\ Edit("remoteDelete") /\ UNCHANGED issued
          /\ \E r \in remote : remote' = remote \ {r}
    /\ UNCHANGED <<objectVars, taken, workVars, faults>>

(* The service finishes provisioning a bucket.                               *)
BecomesReady ==
    /\ \E r \in {q \in remote : ~q.ready} :
          remote' = (remote \ {r}) \cup {[r EXCEPT !.ready = TRUE]}
    /\ UNCHANGED <<objectVars, issued, taken, workVars, faults, edits>>

-----------------------------------------------------------------------------
Pass ==
    \/ AddFinalizer \/ StartReconcile \/ StartTerminate
    \/ Creating \/ PickName \/ CreateBucket
    \/ GetBucket \/ UpdateBucket \/ PersistStatus \/ SetErrorCondition
    \/ DeleteBucket \/ Unfinalize

Next == Pass \/ Crash \/ SyncBucket \/ EditBucket \/ OthersAct \/ BecomesReady

Spec == Init /\ [][Next]_vars

(* Every pass that ends asks to be run again (RequeueAfter or an error), the *)
(* informer delivers, the service finishes what it provisions, and random    *)
(* suffixes do not hit taken names for ever.                                 *)
LuckyPick == PickName /\ pc' = "create"
Fairness == /\ WF_vars(Pass) /\ WF_vars(SyncBucket) /\ WF_vars(BecomesReady)
            /\ SF_vars(LuckyPick)
FairSpec == Spec /\ Fairness
=============================================================================
