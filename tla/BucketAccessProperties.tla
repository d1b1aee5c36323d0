----------------------- MODULE BucketAccessProperties -----------------------
(***************************************************************************)
(* What the BucketAccess controller promises, as invariants, step          *)
(* properties and liveness properties of module BucketAccess.              *)
(***************************************************************************)
EXTENDS BucketAccess, FiniteSets

(* Every variable has its type.                                              *)
TypeOK ==
    /\ ba \in AccessObject /\ baCache \in AccessObject
    /\ secret \in Secrets /\ secretCache \in Secrets \cup Hidden
    /\ bucketCR \in [Buckets -> {"pending", "ready", "deleted", "gone"}]
    /\ statements \subseteq Statements
    /\ accounts \subseteq AccountIDs \cup {ExternalSA}
    /\ issuedSA \in 0..MaxAccounts
    /\ creds \subseteq [id : CredentialIDs, sa : Principals]
    /\ issuedCred \in 0..MaxCredentials
    /\ copies \subseteq [bucket : Buckets, principals : SUBSET Principals]
    /\ undone \in [grants : SUBSET Buckets, secret : BOOLEAN]
    /\ pc \in Phases /\ obj \in AccessObject /\ run \in Locals
    /\ faults \in 0..MaxFaults /\ edits \in 0..MaxEdits

OurAccounts == accounts \ {ExternalSA}

(* However passes crash, fail half way or lose answers, there is never more  *)
(* than one service account with this object's ownership label: what status  *)
(* forgot is found again by label (ensureServiceAccount).                    *)
OneServiceAccount == \A a, b \in OurAccounts : a = b

(* A service account the controller does not own, which external mode puts   *)
(* into the same status field, never gets a credential and is never deleted, *)
(* whatever the order of mode switches, passes and deletion (the comments of *)
(* ensureServiceAccount and Terminate).                                      *)
ForeignAccountUntouched ==
    /\ ExternalSA \in accounts
    /\ \A c \in creds : c.sa # ExternalSA

(* A Secret that exists and is not owned by the BucketAccess is not          *)
(* overwritten (writeSecret; README.md, Security notes).                     *)
ForeignSecretKept ==
    [][secret.owner = "other" => secret' \in {secret, NoSecret}]_vars

ReportsReady == ba.phase = "live" /\ ba.status.cond = "Available"

(* The key in the Secret works: its credential lives on the account that     *)
(* status names. (It need not be the one status tracks: after a listing that *)
(* failed in ensureAccessCredential and a crash the two can differ.)         *)
Usable == [id |-> secret.key, sa |-> ba.status.sa] \in creds

(* Between passes, an object that reports Ready for its own service account  *)
(* and awaits no rotation has a Secret with a working key (Reconcile's       *)
(* readyMsg "Bucket access credentials are ready"), unless somebody deleted  *)
(* that Secret and no pass has written it again.                             *)
SecretDeleted == undone.secret
SecretUsable ==
    (/\ pc = "idle" /\ ReportsReady /\ ~ba.rotate /\ ~SecretDeleted
     /\ ba.status.principal \in AccountIDs) => Usable

(* The key in the Secret dies only by a rotation or with the object: a pass  *)
(* that no annotation asked to rotate may repair, retry and undo, but it     *)
(* does not delete the credential that clients are using.                    *)
WorkingKeyKept ==
    [][(pc \in {"drop", "retire", "undo"} /\ ~obj.rotate /\ Usable)
          => Usable']_vars

(* Retries do not pile up credentials (ensureAccessCredential, "so retries   *)
(* cannot accumulate credentials up to the API limit"): between passes there *)
(* is at most one live credential that status does not track for each call   *)
(* that failed or crash that happened, and one for each edit where users may *)
(* switch modes, since external mode forgets the tracked one.                *)
Untracked == {c \in creds : c.id # ba.status.cred}
StraysBounded ==
    pc = "idle" => Cardinality(Untracked)
                   <= faults + IF "switchMode" \in Env THEN edits ELSE 0

(* While the object reports Ready, each bucket of status.grantedBuckets has  *)
(* the statement for status.principalArn, unless the Bucket controller wrote *)
(* back an older policy of that bucket since this controller last wrote it.  *)
Overwritten(b) == b \in undone.grants
GrantedIsGranted ==
    ReportsReady =>
        \A b \in ba.status.granted : (RemoteExists(b) /\ ~Overwritten(b)) =>
            [bucket |-> b, principal |-> ba.status.principal] \in statements

(* status.grantedBuckets "lists Thalassa bucket names that currently have    *)
(* the managed policy grant" (api/v1/bucketaccess_types.go): a statement is  *)
(* on no other bucket when the object reports Ready.                         *)
GrantsTracked ==
    ReportsReady => \A s \in statements : s.bucket \in ba.status.granted

(* The statements for which this controller answers.                         *)
Standing == {s \in statements : ~Overwritten(s.bucket)}

(* An object that is gone left behind nothing that its last status recorded: *)
(* no granted bucket keeps its statement (unless the Bucket controller wrote *)
(* it back since its removal), and in managed mode its service account went  *)
(* with every credential (Terminate).                                        *)
CleanDeletion ==
    ba.phase = "gone" =>
        /\ \A s \in Standing : s.bucket \notin ba.status.granted
        /\ Managed(ba) => /\ ba.status.sa \notin OurAccounts
                          /\ \A c \in creds : c.sa # ba.status.sa

(* The controller clears the rotation annotation only when the rotation is   *)
(* complete: the Secret (unless somebody deleted it meanwhile) holds the     *)
(* credential this pass minted, and it lives (rotation.go, "clears the       *)
(* annotation after a successful rotation").                                 *)
RotationComplete ==
    [][(pc = "clearRotate" /\ ba.rotate /\ ~ba'.rotate /\ ~SecretDeleted)
          => Usable /\ secret.key = run.cred /\ run.rotated]_vars

(* A deletion that was asked for happens, unless the object is suspended:    *)
(* then it waits, finalizer and all, until somebody resumes it.              *)
DeletionCompletes ==
    (ba.phase = "deleting") ~> (ba.phase = "gone" \/ ba.suspended)

(* What a live object asks for cannot be done as things are.                 *)
Blocked ==
    \/ ba.suspended
    \/ ~Managed(ba) /\ ba.rotate
    \/ Managed(ba) /\ (secret.owner = "other" \/ secretCache \in Hidden)
    \/ \E b \in ba.refs : bucketCR[b] # "ready"

Honoured ==
    /\ ba.status.granted = ba.refs
    /\ \A b \in ba.refs :
          [bucket |-> b, principal |-> IF Managed(ba) THEN ba.status.sa
                                       ELSE ba.principalRef] \in statements
    /\ Managed(ba) => ~ba.rotate /\ Usable

(* Once faults and edits stop, a live object that nothing blocks has, from   *)
(* some moment on, exactly what its spec asks for: grants for its principal  *)
(* on every referenced bucket and, in managed mode, a working Secret and no  *)
(* rotation still pending.                                                   *)
Converges == <>[](ba.phase = "live" /\ ~Blocked => Honoured)

-----------------------------------------------------------------------------
(* The abstract specification. An external principal is not ours: external   *)
(* mode claims no account.                                                   *)
ClaimsOf(o) == [account |-> IF Managed(o) THEN o.status.sa ELSE NoID,
                buckets |-> o.status.granted]

Abstract == INSTANCE Ownership WITH
    Nobody <- NoID, phase <- ba.phase, claims <- ClaimsOf(ba),
    accounts <- OurAccounts, statements <- Standing

(* With all its crashes, lost answers and stale copies, the controller does  *)
(* nothing that module Ownership does not allow in one step: it acquires one *)
(* account at most, mints on it only, releases it only after the deletion    *)
(* was requested, goes when its claims are released, and acquires nothing    *)
(* afterwards. A statement that the Bucket controller rewrote is no longer   *)
(* one of the object's until this controller writes it again.                *)
Implements == Abstract!Spec

-----------------------------------------------------------------------------
(* Inductive strengthenings, for the proofs.                                 *)

(* An account is created only where the search by label came back empty.     *)
AccountInv ==
    /\ OneServiceAccount
    /\ pc = "createAccount" => OurAccounts = {}

(* From the choice of an account to the minting on it, and from the ownership *)
(* check of Terminate to the deletion, the account is not the external one.  *)
OnAccount == {"persistAccount", "credential", "drop", "mint"}
ForeignInv ==
    /\ ForeignAccountUntouched
    /\ pc \in OnAccount => run.sa # ExternalSA
    /\ pc = "dropAccount" => obj.status.sa # ExternalSA

(* Credentials are minted on, and die with, accounts that exist.             *)
HomeInv ==
    /\ \A c \in creds : c.sa \in accounts
    /\ pc \in OnAccount => run.sa \in accounts

(* Terminate works its list of grants down, then drops the account it owns.  *)
TerminateInv ==
    /\ pc = "revokeGranted" =>
          \A s \in Standing : s.bucket \in obj.status.granted
                                => s.bucket \in run.todo
    /\ pc \in {"revokeRefs", "dropCred", "dropAccount", "unfinalize"} =>
          \A s \in Standing : s.bucket \notin obj.status.granted
    /\ (pc = "unfinalize" /\ Managed(obj)) => obj.status.sa \notin OurAccounts

(* Phases of Reconcile that a pass reaches only by a status write.           *)
Reconciling == Phases \ {"idle", "resolve", "degrade", "revokeGranted",
                         "revokeRefs", "dropCred", "dropAccount", "unfinalize"}

(* Passes run under the finalizer, which goes only with the object, and      *)
(* without it nothing was ever recorded.                                     *)
LifecycleInv ==
    /\ ba.phase = "gone" =>
          /\ \A s \in Standing : s.bucket \notin ba.status.granted
          /\ Managed(ba) => ba.status.sa \notin OurAccounts
    /\ (pc # "idle" \/ baCache.finalizer) => ba.finalizer \/ ba.phase = "gone"
    /\ pc \in Reconciling => ba.phase # "gone"
    /\ (ba.phase # "gone" /\ ~ba.finalizer)
          => ba.status.granted = {} /\ ba.status.sa = NoID

(* The phases of Terminate.                                                  *)
Terminating == {"revokeGranted", "revokeRefs", "dropCred", "dropAccount",
                "unfinalize"}

(* The deletion is not taken back: a cached copy that shows it, or a pass of *)
(* Terminate, is not ahead of the object.                                    *)
DeletionInv ==
    (baCache.phase # "live" \/ pc \in Terminating) => ba.phase # "live"

(* IAM gives an identity once.                                               *)
IssueInv == \A c \in creds : c.id <= issuedCred

(* A Secret that is there never shows as missing to the write that goes on   *)
(* to replace it, so writeSecret's NotFound, which Reconcile would take for  *)
(* a success, does not occur.                                                *)
NotFoundInv ==
    /\ secret = NoSecret => secretCache \in {NoSecret} \cup Hidden
    /\ pc = "putSecret" => secretCache \notin Hidden
    /\ ~run.swallow

(* A pass reports Ready at its end only, for the principal it granted to:    *)
(* what is granted so far is recorded in its locals.                         *)
Granted(b, p) ==
    RemoteExists(b) /\ ~Overwritten(b)
        => [bucket |-> b, principal |-> p] \in statements
Principled == {"credential", "drop", "mint", "retire", "persistCredential",
               "checkSecret", "putSecret", "persistSecretRef", "grant"}
GrantInv ==
    /\ GrantedIsGranted
    /\ pc \in Reconciling =>
          ba.status.cond # "Available" /\ obj.status.cond # "Available"
    /\ pc \in Principled => run.sa = obj.status.principal
    /\ pc = "grant" => \A b \in obj.refs \ run.todo : Granted(b, run.sa)
    /\ pc \in {"clearRotate", "finish"} =>
          \A b \in obj.status.granted : Granted(b, obj.status.principal)

(* A foreign Secret is seen as such, and no write to it is under way.        *)
ForeignSecretInv ==
    secret.owner = "other" =>
        secretCache \in {secret} \cup Hidden /\ pc # "putSecret"

(* Without lag the cached object is the object, which a pass finds alive and *)
(* under its finalizer: then a status write is refused only at the price of  *)
(* a fault.                                                                  *)
CurrentInv ==
    /\ baCache = ba
    /\ pc # "idle" => ba.finalizer /\ ba.phase # "gone"

(* The phases in which a pass may only be in managed mode, and those up to   *)
(* the choice of a credential.                                               *)
Choosing == {"account", "createAccount", "persistAccount", "credential",
             "drop", "mint", "retire"}
Issuing == Choosing \cup {"persistCredential", "undo"}

(* A pass forgets the tracked credential only where it has deleted it or     *)
(* does not use it, and all credentials are on the account it works with.    *)
TrackInv ==
    /\ pc \in Issuing => Managed(obj)
    /\ pc = "principal" => ~Managed(obj)
    /\ pc \in {"resolve"} \cup Choosing =>
          obj.status.cred \in {NoID, ba.status.cred}
    /\ pc = "retire" => [id |-> run.cred, sa |-> run.sa] \in creds

(* What may still be lost from sight without another edit.                   *)
Left(ids) == Cardinality({c \in creds : c.id \notin ids})
Budget == faults + IF "switchMode" \in Env THEN edits ELSE 0
Spare(b) == IF b THEN 1 ELSE 0
Forgettable(o) == Spare(~Managed(o) /\ o.status.cred # NoID)
Switched == IF Managed(obj) THEN Spare(~Managed(ba))
            ELSE Spare(obj.status.cred # NoID)

(* At each phase, what is or may become untracked is within the budget. An   *)
(* external pass forgets one credential, which a switch has paid for.        *)
StrayInv ==
    /\ pc \in {"idle"} \cup Terminating =>
          Left({ba.status.cred}) + Forgettable(ba) <= Budget
    /\ pc \notin {"idle", "retire", "persistCredential", "undo"} \cup Terminating
          => Left({obj.status.cred}) + Switched <= Budget
    /\ pc = "retire" =>
          Left({obj.status.cred, run.cred}) + Switched <= Budget
    /\ pc = "persistCredential" => Left({run.cred}) + Switched <= Budget
    /\ pc = "undo" => Left({run.cred}) + 1 + Switched <= Budget

(* The phases in which the account of the pass is the one that both statuses *)
(* name, and those before and after the Secret is written.                   *)
Unwritten == {"retire", "persistCredential", "checkSecret", "putSecret"}
Written == {"persistSecretRef", "grant", "clearRotate"}
Accounted == {"credential", "drop", "mint", "undo"} \cup Unwritten
             \cup {"persistSecretRef"}

(* No Secret holds a key that was not issued, so a newly minted one differs  *)
(* from what is there.                                                       *)
KeysInv ==
    \A k \in {secret.key, secretCache.key, run.key} :
        k # ForeignKey => k <= issuedCred

(* A rotation in progress: its credential lives on the account that status   *)
(* names, and the key is nowhere before, and in the Secret after the write.  *)
RotateInv ==
    /\ pc \in Accounted \/ (run.rotated /\ pc \in Written) =>
          ba.status.sa = run.sa /\ obj.status.sa = run.sa
    /\ pc = "clearRotate" => run.rotated
    /\ run.rotated =>
          /\ pc \in Unwritten \cup Written \cup {"undo", "degrade", "finish"}
          /\ run.key = run.cred
          /\ pc \in Unwritten \cup Written =>
                [id |-> run.cred, sa |-> run.sa] \in creds
          /\ pc \in Unwritten => run.key \notin {secret.key, secretCache.key}
          /\ pc \in Written =>
                /\ secret.owner = "self" => secret.key = run.key
                /\ secret.owner = "self" \/ SecretDeleted
    /\ pc = "retire" => obj.status.cred # run.cred

(* Without lag, other modes and unlisted namespaces: the tracked credential  *)
(* is never forgotten while our Secret is there, and without a rotation a    *)
(* pass drops, replaces or undoes credentials only while it is not.          *)
KeepInv ==
    /\ secretCache = secret
    /\ secret.owner = "self" => secret.key # NoID
    /\ secret.owner # "self" => secret.key \in {ForeignKey, NoID}
    /\ Managed(ba) /\ (pc # "idle" => Managed(obj) /\ pc # "principal")
    /\ secret.owner = "self" \/ pc \in {"checkSecret", "putSecret"} =>
          /\ ba.status.cred # NoID
          /\ pc # "idle" => obj.status.cred # NoID
    /\ pc = "credential" => run.prev = obj.status.cred
    /\ pc \in {"retire", "persistCredential"} => run.cred # NoID
    /\ pc \in Unwritten => run.key # NoID
    /\ pc = "drop" => secret.owner # "self"
    /\ pc = "mint" => obj.rotate \/ obj.status.cred = NoID
    /\ pc = "retire" => obj.rotate
    /\ pc = "undo" \/ (pc = "persistCredential" /\ CredentialChanged) =>
          obj.rotate \/ secret.owner # "self"

(* Nor does anybody cancel a rotation or delete a Secret that is not ours:   *)
(* our Secret works unless a rotation is pending, the key that goes into it  *)
(* works, and it is there when a pass gets to its end.                       *)
Works(key) == [id |-> key, sa |-> ba.status.sa] \in creds
UsableInv ==
    /\ secret.owner = "none" => secret = NoSecret
    /\ secret.owner = "other" => "deleteSecret" \notin Env
    /\ pc \notin {"idle"} \cup Terminating =>
          /\ obj.status.sa = ba.status.sa
          /\ obj.rotate => ba.rotate \/ pc = "finish"
    /\ ba.phase = "live" /\ ~ba.rotate =>
          /\ secret.owner = "self" => Works(secret.key)
          /\ pc \in {"persistCredential", "checkSecret"} =>
                Works(run.key) \/ secret.owner = "other"
          /\ pc = "putSecret" => Works(run.key)
    /\ \/ ba.status.cond = "Available" \/ obj.status.cond = "Available"
       \/ pc \in {"persistSecretRef", "grant", "clearRotate", "finish"}
       => secret.owner = "self" \/ SecretDeleted
=============================================================================
