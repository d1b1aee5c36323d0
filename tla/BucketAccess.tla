---------------------------- MODULE BucketAccess ----------------------------
(***************************************************************************)
(* The BucketAccess controller and what it leaves behind: one worker that  *)
(* reconciles one BucketAccess object against the Kubernetes API, the      *)
(* Thalassa IAM service and the policies of the buckets it references.     *)
(*                                                                         *)
(* The worker is a machine of phases (pc), one per call that leaves the    *)
(* process, so that crashes, failed and half-answered calls, user edits    *)
(* and informer lag fall between any two of them.                          *)
(*                                                                         *)
(* Abstractions:                                                           *)
(*  - an access key is the identity of its credential; endpoint, expiry,   *)
(*    labels, events and bucket names in the Secret are left out;          *)
(*  - a bucket policy is the set of statements with this object's Sid. The *)
(*    handler's Update puts or removes its statement whatever its Get saw  *)
(*    of it, so for this Sid the two calls are one step; the Bucket        *)
(*    controller's Get and Update are two, since it writes back what it    *)
(*    read. What they do to the rest of the document is in BucketPolicy;   *)
(*  - the organisation is configured (cmd/main.go refuses to start without *)
(*    one) and permissions are allowlisted: these two checks never fail;   *)
(*  - one replica runs the controller, as leader election provides.        *)
(***************************************************************************)
EXTENDS Naturals

CONSTANTS Buckets,        \* Bucket objects a BucketAccess may reference
          ExternalSA,     \* a service account of the organisation, not ours
          ExternalUser,   \* a user of the organisation
          ForeignKey,     \* key material of a Secret somebody else wrote
          Env,            \* which kinds of trouble happen, see EnvKinds
          MaxFaults,      \* bound on failed calls and crashes
          MaxEdits,       \* bound on what users and other controllers do
          MaxAccounts,    \* bound on service accounts ever created
          MaxCredentials  \* bound on access credentials ever created

EnvKinds == { "crash", "lostReply", "accessLag", "secretLag", "editRefs",
              "switchMode", "rotate", "cancelRotation", "delete", "suspend",
              "deleteSecret", "foreignSecret", "racingSecret", "unlist",
              "bucketChurn", "policyRace", "noNamespace" }

NoID == 0                               \* the empty string of the Go status
AccountIDs == 1..MaxAccounts
CredentialIDs == 1..MaxCredentials
Externals == {ExternalSA, ExternalUser}
Principals == AccountIDs \cup Externals \cup {NoID}
Keys == CredentialIDs \cup {ForeignKey, NoID}

ASSUME BoundsAssumption ==
    /\ MaxFaults \in Nat /\ MaxEdits \in Nat
    /\ MaxAccounts \in Nat /\ MaxCredentials \in Nat
    /\ Env \subseteq EnvKinds

ASSUME IdentityAssumption ==
    /\ ExternalSA \notin Nat /\ ExternalUser \notin Nat
    /\ ForeignKey \notin Nat
    /\ ExternalSA # ExternalUser

VARIABLES
    ba,           \* the BucketAccess object in the API server
    baCache,      \* the manager's informer copy of it
    secret,       \* the Secret that writeSecretToRef names
    secretCache,  \* the informer copy of the Secret
    bucketCR,     \* what each Bucket object shows
    statements,   \* policy statements with our Sid, over all buckets
    accounts,     \* IAM service accounts that exist: ours and ExternalSA
    issuedSA,     \* how many identities IAM gave to our service accounts
    creds,        \* live access credentials: [id, sa]
    issuedCred,   \* how many identities IAM gave to credentials
    copies,       \* the policy the Bucket controller has read and will write
    undone,       \* history: what of ours others undid since we wrote it
    pc, obj, run, \* the worker: phase, its copy of the object, its locals
    faults, edits \* budgets used

apiVars == <<ba, baCache>>
secretVars == <<secret, secretCache>>
iamVars == <<accounts, issuedSA, creds, issuedCred>>
othersVars == <<copies, undone>>
workVars == <<pc, obj, run>>
vars == <<ba, baCache, secret, secretCache, bucketCR, statements, accounts,
          issuedSA, creds, issuedCred, copies, undone, pc, obj, run, faults,
          edits>>

Conditions == {"none", "Progressing", "Available", "Degraded"}

Status == [sa : Principals, principal : Principals,
           cred : CredentialIDs \cup {NoID},
           granted : SUBSET Buckets, cond : Conditions]

(* principalRef = NoID is managed mode: no principalRef, a writeSecretToRef.  *)
AccessObject == [phase : {"live", "deleting", "gone"}, finalizer : BOOLEAN,
                 suspended : BOOLEAN, rotate : BOOLEAN,
                 principalRef : Externals \cup {NoID},
                 refs : SUBSET Buckets, status : Status]

Statements == [bucket : Buckets, principal : Principals]

Secrets == [owner : {"none", "self", "other"}, key : Keys]
NoSecret == [owner |-> "none", key |-> NoID]

(* What the flags of the manager make of the Secret's namespace: the cache   *)
(* does not list it and every read is an error, or references to it are not  *)
(* allowed.                                                                  *)
Unreadable == [owner |-> "unreadable", key |-> NoID]
Forbidden == [owner |-> "forbidden", key |-> NoID]
Hidden == {Unreadable, Forbidden}

(* The locals of ensureManagedCredentials and Reconcile.                     *)
Locals == [sa : Principals, cred : CredentialIDs \cup {NoID},
           prev : CredentialIDs \cup {NoID}, key : Keys, rotated : BOOLEAN,
           swallow : BOOLEAN, todo : SUBSET Buckets]
NoLocals == [sa |-> NoID, cred |-> NoID, prev |-> NoID, key |-> NoID,
             rotated |-> FALSE, swallow |-> FALSE, todo |-> {}]

FreshStatus == [sa |-> NoID, principal |-> NoID, cred |-> NoID,
                granted |-> {}, cond |-> "none"]
Created(refs, ref) ==
    [phase |-> "live", finalizer |-> FALSE, suspended |-> FALSE,
     rotate |-> FALSE, principalRef |-> ref, refs |-> refs,
     status |-> FreshStatus]
NoObject == Created({}, NoID)

Phases == {"idle", "resolve", "degrade", "account", "createAccount",
           "persistAccount", "credential", "drop", "mint", "retire",
           "persistCredential", "undo", "checkSecret", "putSecret",
           "persistSecretRef", "principal", "grant", "clearRotate", "finish",
           "revokeGranted", "revokeRefs", "dropCred", "dropAccount",
           "unfinalize"}

-----------------------------------------------------------------------------
(* Calls that leave the process.                                             *)

(* A call answers with an error and had no effect.                           *)
Fail == faults < MaxFaults /\ faults' = faults + 1

(* A call took effect and its answer was lost: the caller sees an error.     *)
Lost == "lostReply" \in Env /\ Fail

(* A write to the BucketAccess; the informer follows at once unless it lags. *)
Publish(o) ==
    /\ ba' = o
    /\ baCache' = IF "accessLag" \in Env THEN baCache ELSE o

PublishSecret(s) ==
    /\ secret' = s
    /\ secretCache' = IF "secretLag" \in Env \/ secretCache \in Hidden
                      THEN secretCache ELSE s

(* A write that carries the resourceVersion of the cached object.            *)
CacheIsCurrent == baCache = ba /\ ba.phase # "gone"

(* updateStatusWithRetry: the latest (cached) object gets the worker's whole *)
(* status. Its five attempts end in success or in an error.                  *)
Persisted(status) ==
    /\ CacheIsCurrent
    /\ Publish([ba EXCEPT !.status = status])
    /\ UNCHANGED faults

NotPersisted(status) ==
    \/ ~CacheIsCurrent /\ UNCHANGED <<ba, baCache, faults>>
    \/ Fail /\ UNCHANGED apiVars
    \/ Lost /\ CacheIsCurrent /\ Publish([ba EXCEPT !.status = status])

Goto(phase) == pc' = phase
Stop == pc' = "idle" /\ obj' = NoObject /\ run' = NoLocals

Managed(o) == o.principalRef = NoID

-----------------------------------------------------------------------------
(* Decisions of the handler.                                                 *)

(* Each operator that a mutant replaces is preceded by the mutated form.     *)
Owned_AnyExisting(a) == a \in accounts

(* serviceAccountOwnedBy: the account carries our ownership label.           *)
Owned(a) == a \in accounts /\ a # ExternalSA

ListedAccounts_NotLookedUp == {}

(* findOwnedServiceAccount: the accounts listed by ownership label.          *)
ListedAccounts == {a \in accounts : Owned(a)}

(* readSecretCredentials: the (cached) Secret has both keys, whoever owns it; *)
(* an answer that is an error counts as no Secret.                           *)
SecretOK == secretCache # NoSecret /\ secretCache.key # NoID

KeepsMaterial_IgnoresRotation == SecretOK

(* Keep the Secret's material: it is complete and no rotation was requested. *)
KeepsMaterial == ~obj.rotate /\ SecretOK

Supersedes_Never(c) == FALSE

(* A newly minted credential takes the place of a tracked one.               *)
Supersedes(c) == obj.status.cred # NoID /\ obj.status.cred # c

CredentialChanged_KeptToo == run.cred # NoID

(* The status write failed: is there a credential to undo? (credID differs   *)
(* from prevCredID for a minted credential, and for an adopted one too.)     *)
CredentialChanged == run.cred # NoID /\ run.cred # run.prev

SecretOwned_Any(s) == TRUE

(* secretOwnedBy                                                             *)
SecretOwned(s) == s.owner = "self"

BucketsToGrant_OnlyNew == obj.refs \ obj.status.granted

(* The buckets Reconcile grants: all of spec.bucketRefs.                     *)
BucketsToGrant == obj.refs

Upserted_OneForAll(b, p) ==
    statements \cup {[bucket |-> obj.refs, principal |-> p]}

(* UpsertManagedStatement / RemoveManagedStatement, as an UpdateBucket.      *)
Upserted(b, p) ==
    {s \in statements : s.bucket # b} \cup {[bucket |-> b, principal |-> p]}
Removed(b) == {s \in statements : s.bucket # b}

(* The principals that have our statement on a bucket; a policy made of such. *)
GrantedOn(b) == {s.principal : s \in statements \ Removed(b)}
Granting(b, principals) == [bucket : {b}, principal : principals]

Rewrite(b, policies) ==
    /\ statements' = policies
    /\ undone' = [undone EXCEPT !.grants = @ \ {b}]

DesiredSecret_KeepsOldKey ==
    [owner |-> "self", key |-> IF SecretOK THEN secretCache.key ELSE run.key]

(* The Secret a pass wants: its own, with the key it settled on.             *)
DesiredSecret == [owner |-> "self", key |-> run.key]

RemovalSucceeds_OnlyIfFound(b) == bucketCR[b] \in {"pending", "ready"}

(* removeBucketGrant treats a bucket that no longer exists as done.          *)
RemovalSucceeds(b) == bucketCR[b] \in {"pending", "ready", "deleted", "gone"}

UpdateAccepted_AnyVersion == ba.phase # "gone"

(* Terminate's Update is accepted at the resourceVersion its pass has read.  *)
UpdateAccepted == obj = ba /\ ba.phase # "gone"

(* Outside this code: the bucket exists in the object storage service.       *)
RemoteExists(b) == bucketCR[b] \in {"pending", "ready"}

-----------------------------------------------------------------------------
Init ==
    /\ \E refs \in (SUBSET Buckets) \ {{}}, ref \in Externals \cup {NoID} :
          /\ ref # NoID => "switchMode" \in Env
          /\ ba = Created(refs, ref)
    /\ baCache = ba
    /\ secret \in {NoSecret} \cup
          IF "foreignSecret" \in Env
          THEN [owner : {"other"}, key : {ForeignKey, NoID}] ELSE {}
    /\ secretCache = secret
    /\ bucketCR \in [Buckets -> IF "bucketChurn" \in Env
                                THEN {"pending", "ready"} ELSE {"ready"}]
    /\ statements = {}
    /\ accounts = {ExternalSA} /\ issuedSA = 0
    /\ creds = {} /\ issuedCred = 0
    /\ copies = {} /\ undone = [grants |-> {}, secret |-> FALSE]
    /\ pc = "idle" /\ obj = NoObject /\ run = NoLocals
    /\ faults = 0 /\ edits = 0

-----------------------------------------------------------------------------
(* BucketAccessReconciler.Reconcile                                          *)

(* The finalizer is added by a pass of its own.                              *)
AddFinalizer ==
    /\ pc = "idle" /\ ~baCache.suspended
    /\ baCache.phase = "live" /\ ~baCache.finalizer
    /\ \/ CacheIsCurrent /\ Publish([ba EXCEPT !.finalizer = TRUE])
          /\ UNCHANGED faults
       \/ Fail /\ UNCHANGED apiVars
       \/ Lost /\ CacheIsCurrent /\ Publish([ba EXCEPT !.finalizer = TRUE])
    /\ UNCHANGED <<workVars, secretVars, bucketCR, statements, iamVars, edits,
                   othersVars>>

StartReconcile ==
    /\ pc = "idle" /\ ~baCache.suspended
    /\ baCache.phase = "live" /\ baCache.finalizer
    /\ obj' = baCache /\ run' = NoLocals /\ Goto("resolve")
    /\ UNCHANGED <<apiVars, secretVars, bucketCR, statements, iamVars, faults,
                   edits, othersVars>>

StartTerminate ==
    /\ pc = "idle" /\ ~baCache.suspended
    /\ baCache.phase = "deleting" /\ baCache.finalizer
    /\ obj' = baCache /\ Goto("revokeGranted")
    /\ run' = [NoLocals EXCEPT !.todo = baCache.status.granted]
    /\ UNCHANGED <<apiVars, secretVars, bucketCR, statements, iamVars, faults,
                   edits, othersVars>>

-----------------------------------------------------------------------------
(* Handler.Reconcile                                                         *)

Progressing(o) == [o EXCEPT !.status.cond = "Progressing"]

(* resolveBuckets fails on a Bucket that is gone; external mode refuses the  *)
(* rotation annotation.                                                      *)
RefuseReconcile ==
    /\ pc = "resolve"
    /\ \/ \E b \in obj.refs : bucketCR[b] = "gone"
       \/ /\ \A b \in obj.refs : bucketCR[b] \in {"ready", "deleted"}
          /\ ~Managed(obj) /\ obj.rotate
    /\ Goto("degrade")
    /\ UNCHANGED <<apiVars, obj, run, secretVars, bucketCR, statements,
                   iamVars, faults, edits, othersVars>>

(* ErrDependencyNotReady: the outcome of the status write is ignored.        *)
WaitForBucket ==
    /\ pc = "resolve"
    /\ \E b \in obj.refs : bucketCR[b] = "pending"
    /\ LET s == Progressing(obj).status IN Persisted(s) \/ NotPersisted(s)
    /\ Stop
    /\ UNCHANGED <<secretVars, bucketCR, statements, iamVars, edits,
                   othersVars>>

Progress ==
    /\ pc = "resolve"
    /\ \A b \in obj.refs : bucketCR[b] \in {"ready", "deleted"}
    /\ Managed(obj) \/ ~obj.rotate
    /\ \/ /\ Persisted(Progressing(obj).status)
          /\ obj' = Progressing(obj)
          /\ Goto(IF Managed(obj) THEN "account" ELSE "principal")
          /\ UNCHANGED run
       \/ NotPersisted(Progressing(obj).status) /\ Stop
    /\ UNCHANGED <<secretVars, bucketCR, statements, iamVars, edits,
                   othersVars>>

(* setErrorCondition. It returns no error for a Kubernetes NotFound, so      *)
(* ensureManagedCredentials returns none either and Reconcile goes on to the *)
(* grants, with the empty principal it got (run.swallow).                    *)
SetErrorCondition ==
    /\ pc = "degrade"
    /\ LET o == [obj EXCEPT !.status.cond = "Degraded"] IN
       \/ /\ run.swallow /\ Persisted(o.status)
          /\ obj' = o /\ Goto("grant")
          /\ run' = [NoLocals EXCEPT !.todo = BucketsToGrant]
       \/ ~run.swallow /\ Persisted(o.status) /\ Stop
       \/ NotPersisted(o.status) /\ Stop
    /\ UNCHANGED <<secretVars, bucketCR, statements, iamVars, edits,
                   othersVars>>

-----------------------------------------------------------------------------
(* ensureServiceAccount                                                      *)

(* Reuse the account in status if we own it, else one listed by label.       *)
FindServiceAccount ==
    /\ pc = "account"
    /\ \/ /\ \E a \in IF Owned(obj.status.sa) THEN {obj.status.sa}
                      ELSE ListedAccounts :
                run' = [run EXCEPT !.sa = a]
          /\ Goto("persistAccount") /\ UNCHANGED faults
       \/ /\ ~Owned(obj.status.sa) /\ ListedAccounts = {}
          /\ Goto("createAccount") /\ UNCHANGED <<run, faults>>
       \/ Fail /\ Goto("degrade") /\ UNCHANGED run
    /\ UNCHANGED <<apiVars, obj, secretVars, bucketCR, statements, iamVars,
                   edits, othersVars>>

CreateServiceAccount ==
    /\ pc = "createAccount"
    /\ \/ /\ issuedSA < MaxAccounts
          /\ issuedSA' = issuedSA + 1
          /\ accounts' = accounts \cup {issuedSA'}
          /\ \/ /\ run' = [run EXCEPT !.sa = issuedSA']
                /\ Goto("persistAccount") /\ UNCHANGED faults
             \/ Lost /\ Goto("degrade") /\ UNCHANGED run
       \/ Fail /\ Goto("degrade") /\ UNCHANGED <<run, accounts, issuedSA>>
    /\ UNCHANGED <<apiVars, obj, secretVars, bucketCR, statements, creds,
                   issuedCred, edits, othersVars>>

PersistAccount ==
    /\ pc = "persistAccount"
    /\ LET o == [obj EXCEPT !.status.sa = run.sa,
                            !.status.principal = run.sa] IN
       \/ /\ Persisted(o.status) /\ obj' = o
          /\ run' = [run EXCEPT !.prev = o.status.cred]
          /\ Goto("credential")
       \/ NotPersisted(o.status) /\ Stop
    /\ UNCHANGED <<secretVars, bucketCR, statements, iamVars, edits,
                   othersVars>>

-----------------------------------------------------------------------------
(* ensureAccessCredential                                                    *)

(* The credential on the account whose access key the Secret holds.          *)
Matching == {c \in creds : c.sa = run.sa /\ c.id = secretCache.key}

KeepCredential(c) ==
    /\ run' = [run EXCEPT !.cred = c, !.key = secretCache.key]
    /\ Goto("persistCredential")

(* Keep the credential the Secret holds unless a rotation was requested; a   *)
(* failed listing counts as no match. secretref.Resolve comes first.         *)
LookUpCredential ==
    /\ pc = "credential" /\ secretCache # Forbidden
    /\ LET tracked == obj.status.cred # NoID IN
       \/ /\ KeepsMaterial /\ tracked /\ UNCHANGED faults
          /\ KeepCredential(obj.status.cred)
       \/ /\ KeepsMaterial /\ ~tracked /\ UNCHANGED faults
          /\ \E c \in Matching : KeepCredential(c.id)
       \/ KeepsMaterial /\ ~tracked /\ Fail /\ Goto("mint") /\ UNCHANGED run
       \/ /\ ~KeepsMaterial \/ (~tracked /\ Matching = {})
          /\ Goto(IF tracked /\ ~SecretOK THEN "drop" ELSE "mint")
          /\ UNCHANGED <<run, faults>>
    /\ UNCHANGED <<apiVars, obj, secretVars, bucketCR, statements, iamVars,
                   edits, othersVars>>

RefuseNamespace ==
    /\ pc = "credential" /\ secretCache = Forbidden
    /\ Goto("degrade")
    /\ UNCHANGED <<apiVars, obj, run, secretVars, bucketCR, statements,
                   iamVars, faults, edits, othersVars>>

Deleted(account, cred) == creds \ {[id |-> cred, sa |-> account]}

(* The tracked credential cannot be recovered without its Secret.            *)
DropTracked ==
    /\ pc = "drop"
    /\ \/ /\ creds' = Deleted(run.sa, obj.status.cred) /\ UNCHANGED faults
          /\ obj' = [obj EXCEPT !.status.cred = NoID] /\ Goto("mint")
       \/ Fail /\ Goto("degrade") /\ UNCHANGED <<creds, obj>>
       \/ /\ Lost /\ creds' = Deleted(run.sa, obj.status.cred)
          /\ Goto("degrade") /\ UNCHANGED obj
    /\ UNCHANGED <<apiVars, run, secretVars, bucketCR, statements, accounts,
                   issuedSA, issuedCred, edits, othersVars>>

(* IAM mints, fails, or is at its limit (here the bound MaxCredentials).     *)
MintCredential ==
    /\ pc = "mint"
    /\ \/ /\ issuedCred < MaxCredentials
          /\ issuedCred' = issuedCred + 1
          /\ creds' = creds \cup {[id |-> issuedCred', sa |-> run.sa]}
          /\ \/ /\ run' = [run EXCEPT !.cred = issuedCred', !.key = issuedCred',
                             !.rotated = obj.rotate \/ obj.status.cred # NoID]
                /\ Goto(IF Supersedes(issuedCred') THEN "retire"
                        ELSE "persistCredential")
                /\ UNCHANGED faults
             \/ Lost /\ Goto("degrade") /\ UNCHANGED run
       \/ /\ Fail \/ (issuedCred = MaxCredentials /\ UNCHANGED faults)
          /\ Goto("degrade") /\ UNCHANGED <<run, creds, issuedCred>>
    /\ UNCHANGED <<apiVars, obj, secretVars, bucketCR, statements, accounts,
                   issuedSA, edits, othersVars>>

(* Deleting a credential whose failure is logged and forgotten.              *)
DeleteOrLog(cred) ==
    \/ creds' = Deleted(run.sa, cred) /\ (Lost \/ UNCHANGED faults)
    \/ Fail /\ UNCHANGED creds

RetirePrevious ==
    /\ pc = "retire"
    /\ DeleteOrLog(obj.status.cred)
    /\ Goto("persistCredential")
    /\ UNCHANGED <<apiVars, obj, run, secretVars, bucketCR, statements,
                   accounts, issuedSA, issuedCred, edits, othersVars>>

-----------------------------------------------------------------------------
(* The rest of ensureManagedCredentials                                      *)

PersistCredential ==
    /\ pc = "persistCredential"
    /\ LET o == [obj EXCEPT !.status.cred = run.cred] IN
       \/ /\ Persisted(o.status) /\ obj' = o
          /\ Goto("checkSecret") /\ UNCHANGED run
       \/ /\ NotPersisted(o.status) /\ CredentialChanged
          /\ Goto("undo") /\ UNCHANGED <<obj, run>>
       \/ NotPersisted(o.status) /\ ~CredentialChanged /\ Stop
    /\ UNCHANGED <<secretVars, bucketCR, statements, iamVars, edits,
                   othersVars>>

UndoCredential ==
    /\ pc = "undo"
    /\ DeleteOrLog(run.cred)
    /\ Stop
    /\ UNCHANGED <<apiVars, secretVars, bucketCR, statements, accounts,
                   issuedSA, issuedCred, edits, othersVars>>

(* writeSecret, the check: refuse an existing Secret that is not ours.       *)
CheckSecret ==
    /\ pc = "checkSecret"
    /\ Goto(IF secretCache = NoSecret \/ SecretOwned(secretCache)
            THEN "putSecret" ELSE "degrade")
    /\ UNCHANGED <<apiVars, obj, run, secretVars, bucketCR, statements,
                   iamVars, faults, edits, othersVars>>

(* writeSecret, the write: CreateOrUpdate reads the cache again and creates, *)
(* updates (with the resourceVersion it read) or does nothing.               *)
SecretWriteAccepted ==
    IF secretCache = NoSecret
    THEN secret = NoSecret /\ "noNamespace" \notin Env
    ELSE secret = secretCache
SecretWriteNotFound ==
    /\ ~SecretWriteAccepted
    /\ \/ secretCache = NoSecret /\ "noNamespace" \in Env
       \/ secretCache # NoSecret /\ secret = NoSecret

WriteSecret ==
    /\ PublishSecret(DesiredSecret)
    /\ undone' = [undone EXCEPT !.secret = FALSE]

PutSecret ==
    /\ pc = "putSecret"
    /\ \/ /\ secretCache = DesiredSecret /\ Goto("persistSecretRef")
          /\ UNCHANGED <<secretVars, undone, run, faults>>
       \/ /\ secretCache # DesiredSecret /\ SecretWriteAccepted
          /\ WriteSecret /\ Goto("persistSecretRef")
          /\ UNCHANGED <<run, faults>>
       \/ /\ secretCache # DesiredSecret /\ ~SecretWriteAccepted
          /\ run' = [run EXCEPT !.swallow = SecretWriteNotFound]
          /\ Goto("degrade") /\ UNCHANGED <<secretVars, undone, faults>>
       \/ /\ secretCache # DesiredSecret /\ Fail
          /\ Goto("degrade") /\ UNCHANGED <<secretVars, undone, run>>
       \/ /\ secretCache # DesiredSecret /\ SecretWriteAccepted /\ Lost
          /\ WriteSecret /\ Goto("degrade") /\ UNCHANGED run
    /\ UNCHANGED <<apiVars, obj, bucketCR, statements, iamVars, copies, edits>>

PersistSecretRef ==
    /\ pc = "persistSecretRef"
    /\ \/ /\ Persisted(obj.status) /\ UNCHANGED obj
          /\ run' = [run EXCEPT !.todo = BucketsToGrant] /\ Goto("grant")
       \/ NotPersisted(obj.status) /\ Stop
    /\ UNCHANGED <<secretVars, bucketCR, statements, iamVars, edits,
                   othersVars>>

(* External mode: resolveExternalPrincipal, then the managed fields go.      *)
ResolveExternalPrincipal ==
    /\ pc = "principal"
    /\ \/ /\ obj' = [obj EXCEPT
                       !.status.sa = IF obj.principalRef = ExternalSA
                                     THEN ExternalSA ELSE NoID,
                       !.status.principal = obj.principalRef,
                       !.status.cred = NoID]
          /\ run' = [run EXCEPT !.sa = obj.principalRef,
                                !.todo = BucketsToGrant]
          /\ Goto("grant") /\ UNCHANGED faults
       \/ Fail /\ Goto("degrade") /\ UNCHANGED <<obj, run>>
    /\ UNCHANGED <<apiVars, secretVars, bucketCR, statements, iamVars, edits,
                   othersVars>>

-----------------------------------------------------------------------------
(* Grants and the end of Handler.Reconcile                                   *)

(* ensureBucketGrant for one more bucket; an error ends the pass before      *)
(* GrantedBuckets is assigned.                                               *)
GrantBucket ==
    /\ pc = "grant"
    /\ \E b \in run.todo :
          \/ /\ RemoteExists(b) /\ Rewrite(b, Upserted(b, run.sa))
             /\ run' = [run EXCEPT !.todo = @ \ {b}]
             /\ UNCHANGED <<pc, faults>>
          \/ /\ ~RemoteExists(b) /\ Goto("degrade")
             /\ UNCHANGED <<statements, undone, run, faults>>
          \/ Fail /\ Goto("degrade") /\ UNCHANGED <<statements, undone, run>>
          \/ /\ RemoteExists(b) /\ Lost /\ Rewrite(b, Upserted(b, run.sa))
             /\ Goto("degrade") /\ UNCHANGED run
    /\ UNCHANGED <<apiVars, obj, secretVars, bucketCR, iamVars, copies, edits>>

AllGranted ==
    /\ pc = "grant" /\ run.todo = {}
    /\ obj' = [obj EXCEPT !.status.granted = obj.refs]
    /\ Goto(IF run.rotated THEN "clearRotate" ELSE "finish")
    /\ UNCHANGED <<apiVars, run, secretVars, bucketCR, statements, iamVars,
                   faults, edits, othersVars>>

(* clearRotateAnnotation, on the latest (cached) object. After a write whose *)
(* answer was lost, the next attempt finds the annotation gone and is done   *)
(* without touching the worker's copy, unless it was the last attempt.       *)
ClearRotateAnnotation ==
    /\ pc = "clearRotate"
    /\ LET cleared == [ba EXCEPT !.rotate = FALSE] IN
       \/ /\ ~(obj.rotate /\ baCache.rotate) /\ Goto("finish")
          /\ UNCHANGED <<apiVars, obj, run, faults>>
       \/ /\ obj.rotate /\ baCache.rotate /\ CacheIsCurrent /\ Publish(cleared)
          /\ obj' = [obj EXCEPT !.rotate = FALSE] /\ Goto("finish")
          /\ UNCHANGED <<run, faults>>
       \/ /\ obj.rotate /\ baCache.rotate /\ Stop
          /\ \/ ~CacheIsCurrent /\ UNCHANGED <<apiVars, faults>>
             \/ Fail /\ UNCHANGED apiVars
       \/ /\ obj.rotate /\ baCache.rotate /\ CacheIsCurrent
          /\ Lost /\ Publish(cleared)
          /\ Stop \/ (Goto("finish") /\ UNCHANGED <<obj, run>>)
    /\ UNCHANGED <<secretVars, bucketCR, statements, iamVars, edits,
                   othersVars>>

Finish ==
    /\ pc = "finish"
    /\ LET s == [obj.status EXCEPT !.cond = "Available"] IN
       Persisted(s) \/ NotPersisted(s)
    /\ Stop
    /\ UNCHANGED <<secretVars, bucketCR, statements, iamVars, edits,
                   othersVars>>

-----------------------------------------------------------------------------
(* Handler.Terminate                                                         *)

(* The recorded grants: an error ends the pass.                              *)
RevokeGranted ==
    /\ pc = "revokeGranted"
    /\ \/ \E b \in run.todo :
             \/ /\ RemovalSucceeds(b) /\ Rewrite(b, Removed(b))
                /\ UNCHANGED <<pc, obj, faults>>
                /\ run' = [run EXCEPT !.todo = @ \ {b}]
             \/ Fail /\ Stop /\ UNCHANGED <<statements, undone>>
             \/ Lost /\ Stop /\ Rewrite(b, Removed(b))
       \/ /\ run.todo = {} /\ run' = [run EXCEPT !.todo = obj.refs]
          /\ Goto("revokeRefs") /\ UNCHANGED <<statements, undone, obj, faults>>
    /\ UNCHANGED <<apiVars, secretVars, bucketCR, iamVars, copies, edits>>

(* The referenced Buckets: errors are ignored.                               *)
RevokeRefs ==
    /\ pc = "revokeRefs" /\ UNCHANGED obj
    /\ \/ \E b \in run.todo :
             /\ run' = [run EXCEPT !.todo = @ \ {b}] /\ UNCHANGED pc
             /\ \/ Rewrite(b, Removed(b)) /\ UNCHANGED faults
                \/ Fail /\ UNCHANGED <<statements, undone>>
       \/ /\ run.todo = {} /\ UNCHANGED <<statements, undone, run, faults>>
          /\ Goto(IF Managed(obj) /\ obj.status.sa # NoID
                  THEN "dropCred" ELSE "unfinalize")
    /\ UNCHANGED <<apiVars, secretVars, bucketCR, iamVars, copies, edits>>

(* Only an account that carries our label loses its credential and goes.     *)
TerminateCredential ==
    /\ pc = "dropCred" /\ UNCHANGED run
    /\ \/ /\ Owned(obj.status.sa) /\ UNCHANGED <<obj, faults>>
          /\ creds' = Deleted(obj.status.sa, obj.status.cred)
          /\ Goto("dropAccount")
       \/ /\ ~Owned(obj.status.sa) /\ Goto("unfinalize")
          /\ UNCHANGED <<creds, obj, faults>>
       \/ Fail /\ pc' = "idle" /\ obj' = NoObject /\ UNCHANGED creds
       \/ /\ Owned(obj.status.sa) /\ Lost /\ pc' = "idle" /\ obj' = NoObject
          /\ creds' = Deleted(obj.status.sa, obj.status.cred)
    /\ UNCHANGED <<apiVars, secretVars, bucketCR, statements, accounts,
                   issuedSA, issuedCred, edits, othersVars>>

(* Outside this code: an account takes its remaining credentials with it.    *)
WithoutAccount(a) ==
    /\ accounts' = accounts \ {a}
    /\ creds' = {c \in creds : c.sa # a}

TerminateAccount ==
    /\ pc = "dropAccount"
    /\ \/ /\ WithoutAccount(obj.status.sa)
          /\ Goto("unfinalize") /\ UNCHANGED <<obj, run, faults>>
       \/ Fail /\ Stop /\ UNCHANGED <<accounts, creds>>
       \/ Lost /\ Stop /\ WithoutAccount(obj.status.sa)
    /\ UNCHANGED <<apiVars, secretVars, bucketCR, statements, issuedSA,
                   issuedCred, edits, othersVars>>

(* The Update carries the version read when the pass began. Without its last *)
(* finalizer a deleted object is gone.                                       *)
Unfinalize ==
    /\ pc = "unfinalize" /\ Stop
    /\ LET done == [ba EXCEPT !.finalizer = FALSE, !.phase = "gone"] IN
       \/ UpdateAccepted /\ Publish(done) /\ UNCHANGED faults
       \/ ~UpdateAccepted /\ UNCHANGED <<apiVars, faults>>
       \/ Fail /\ UNCHANGED apiVars
       \/ Lost /\ UpdateAccepted /\ Publish(done)
    /\ UNCHANGED <<secretVars, bucketCR, statements, iamVars, edits,
                   othersVars>>

-----------------------------------------------------------------------------
(* The process, its caches and everybody else                                *)

(* The manager restarts: locals are gone, caches are listed afresh.          *)
Crash ==
    /\ "crash" \in Env /\ pc # "idle" /\ Fail /\ Stop
    /\ baCache' = ba /\ copies' = {}
    /\ secretCache' = IF secretCache \in Hidden THEN secretCache ELSE secret
    /\ UNCHANGED <<ba, secret, bucketCR, statements, iamVars, undone, edits>>

SyncAccess ==
    /\ baCache # ba /\ baCache' = ba
    /\ UNCHANGED <<ba, secretVars, bucketCR, statements, iamVars, workVars,
                   faults, edits, othersVars>>

SyncSecret ==
    /\ secretCache \notin {secret} \cup Hidden /\ secretCache' = secret
    /\ UNCHANGED <<apiVars, secret, bucketCR, statements, iamVars, workVars,
                   faults, edits, othersVars>>

Edit(kind) == kind \in Env /\ edits < MaxEdits /\ edits' = edits + 1

(* kubectl edits, annotates, suspends or deletes the BucketAccess.           *)
EditAccess ==
    /\ ba.phase # "gone"
    /\ \/ /\ Edit("editRefs") /\ ba.phase = "live"
          /\ \E refs \in (SUBSET Buckets) \ {{}, ba.refs} :
                Publish([ba EXCEPT !.refs = refs])
       \/ /\ Edit("switchMode") /\ ba.phase = "live"
          /\ \E ref \in (Externals \cup {NoID}) \ {ba.principalRef} :
                Publish([ba EXCEPT !.principalRef = ref])
       \/ Edit("rotate") /\ ~ba.rotate /\ Publish([ba EXCEPT !.rotate = TRUE])
       \/ /\ Edit("cancelRotation") /\ ba.rotate
          /\ Publish([ba EXCEPT !.rotate = FALSE])
       \/ Edit("suspend") /\ Publish([ba EXCEPT !.suspended = ~@])
       \/ /\ Edit("delete") /\ ba.phase = "live"
          /\ Publish([ba EXCEPT !.phase = IF ba.finalizer THEN "deleting"
                                                          ELSE "gone"])
    /\ UNCHANGED <<secretVars, bucketCR, statements, iamVars, othersVars,
                   workVars, faults>>

(* Somebody deletes the Secret, or creates one under its name.               *)
EditSecret ==
    /\ \/ /\ Edit("deleteSecret") /\ secret # NoSecret
          /\ PublishSecret(NoSecret)
          /\ undone' = [undone EXCEPT !.secret = @ \/ SecretOwned(secret)]
       \/ /\ Edit("racingSecret") /\ secret = NoSecret /\ UNCHANGED undone
          /\ \E key \in {ForeignKey, NoID} :
                PublishSecret([owner |-> "other", key |-> key])
    /\ UNCHANGED <<apiVars, bucketCR, statements, iamVars, copies, workVars,
                   faults>>

(* The Bucket controller: a bucket becomes ready, stops being ready, is      *)
(* deleted remotely while its object still shows Ready, and then goes.       *)
BucketChanges ==
    /\ Edit("bucketChurn")
    /\ \E b \in Buckets :
          /\ \E to \in CASE bucketCR[b] = "pending" -> {"ready", "gone"}
                         [] bucketCR[b] = "ready"   -> {"pending", "deleted"}
                         [] bucketCR[b] = "deleted" -> {"gone"}
                         [] OTHER -> {} :
                bucketCR' = [bucketCR EXCEPT ![b] = to]
          /\ statements' = {s \in statements : s.bucket = b =>
                               bucketCR'[b] \in {"pending", "ready"}}
    /\ UNCHANGED <<apiVars, secretVars, iamVars, othersVars, workVars, faults>>

(* The Bucket controller updates a Bucket whose spec was edited: it reads    *)
(* the policy, and later writes it back with the managed statements as they  *)
(* were (reconcileBucket; module BucketPolicy has the whole document).       *)
ReadPolicy ==
    /\ Edit("policyRace") /\ copies = {}
    /\ \E b \in Buckets :
          /\ RemoteExists(b)
          /\ copies' = {[bucket |-> b, principals |-> GrantedOn(b)]}
    /\ UNCHANGED <<apiVars, secretVars, bucketCR, statements, iamVars, undone,
                   workVars, faults>>

WritePolicy ==
    /\ \E c \in copies :
          LET restored == Removed(c.bucket) \cup Granting(c.bucket, c.principals)
          IN
          \/ /\ RemoteExists(c.bucket) /\ statements' = restored
             /\ undone' = [undone EXCEPT !.grants =
                               @ \cup IF restored = statements THEN {}
                                      ELSE {c.bucket}]
          \/ UNCHANGED <<statements, undone>>
    /\ copies' = {}
    /\ UNCHANGED <<apiVars, secretVars, bucketCR, iamVars, workVars, faults,
                   edits>>

(* The manager is stopped between passes and comes back with another list of *)
(* --secret-namespaces or without --allow-all-namespaces-secret-ref.         *)
RestartWithNamespaces ==
    /\ Edit("unlist") /\ pc = "idle"
    /\ secretCache' \in {secret} \cup Hidden
    /\ baCache' = ba /\ copies' = {}
    /\ UNCHANGED <<ba, secret, bucketCR, statements, iamVars, undone, workVars,
                   faults>>

-----------------------------------------------------------------------------
Pass ==
    \/ AddFinalizer \/ StartReconcile \/ StartTerminate
    \/ RefuseReconcile \/ WaitForBucket \/ Progress \/ SetErrorCondition
    \/ FindServiceAccount \/ CreateServiceAccount \/ PersistAccount
    \/ LookUpCredential \/ RefuseNamespace \/ DropTracked
    \/ MintCredential \/ RetirePrevious
    \/ PersistCredential \/ UndoCredential
    \/ CheckSecret \/ PutSecret \/ PersistSecretRef
    \/ ResolveExternalPrincipal \/ GrantBucket \/ AllGranted
    \/ ClearRotateAnnotation \/ Finish
    \/ RevokeGranted \/ RevokeRefs \/ TerminateCredential \/ TerminateAccount
    \/ Unfinalize

Sync == SyncAccess \/ SyncSecret

BucketController == BucketChanges \/ ReadPolicy \/ WritePolicy

Users == EditAccess \/ EditSecret \/ BucketController \/ RestartWithNamespaces

Next == Pass \/ Crash \/ Sync \/ Users

Spec == Init /\ [][Next]_vars

(* Every pass that ends asks to be run again (RequeueAfter or an error) and  *)
(* every call returns; informers deliver. Faults and edits are bounded.      *)
Fairness == WF_vars(Pass) /\ WF_vars(SyncAccess) /\ WF_vars(SyncSecret)
FairSpec == Spec /\ Fairness
=============================================================================
