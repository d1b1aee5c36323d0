----------------------- MODULE BucketAccessGrantProofs -----------------------
(***************************************************************************)
(* What "Ready" means for the policies: the grants that a BucketAccess     *)
(* records are there while it reports Ready. And what the controller makes *)
(* of the Secret: no NotFound on the way, no Secret of somebody else       *)
(* overwritten.                                                            *)
(***************************************************************************)
EXTENDS BucketAccessProofs

-----------------------------------------------------------------------------
(* writeSecret's NotFound                                                    *)

(* The kinds of trouble under which writeSecret meets a NotFound, which      *)
(* Reconcile takes for a success: the Secret's namespace does not exist, or  *)
(* somebody deletes the Secret while the informer still shows it.            *)
SecretsSettle ==
    /\ "noNamespace" \notin Env
    /\ "secretLag" \notin Env \/ "deleteSecret" \notin Env

LEMMA PublishSecretEffect ==
    ASSUME NEW s, PublishSecret(s)
    PROVE  /\ secret' = s /\ secretCache' \in {secretCache, s}
           /\ "secretLag" \notin Env => \/ secretCache' = s
                                        \/ secretCache \in Hidden
                                           /\ secretCache' = secretCache
           /\ secretCache \in Hidden => secretCache' = secretCache
BY DEF PublishSecret

LEMMA DesiredSecretIsThere == DesiredSecret # NoSecret /\ DesiredSecret \notin Hidden
<1>1. /\ DesiredSecret.owner = "self" /\ NoSecret.owner = "none"
      /\ \A s \in Hidden : s.owner \in {"unreadable", "forbidden"}
  BY DEF DesiredSecret, NoSecret, Hidden, Unreadable, Forbidden
<1> QED BY <1>1

(* Who writes to the Secret or looks at it.                                  *)
SecretActions == PutSecret \/ CheckSecret \/ EditSecret \/ SyncSecret \/ Crash
                 \/ RestartWithNamespaces

LEMMA SecretFrame ==
    ASSUME TypeOK, Next, ~SecretActions
    PROVE  /\ UNCHANGED secretVars
           /\ pc' = "putSecret" => pc = "putSecret"
           /\ ~run.swallow => ~run'.swallow
<1> USE DEF Goto, Stop, SecretActions, workVars
<1>1. CASE Pass
  <2>1. UNCHANGED secretVars /\ (pc' = "putSecret" => pc = "putSecret")
    <3>1. CASE \/ AddFinalizer \/ StartReconcile \/ StartTerminate
               \/ RefuseReconcile \/ WaitForBucket \/ Progress
               \/ SetErrorCondition \/ FindServiceAccount
               \/ CreateServiceAccount \/ PersistAccount
      BY <3>1 DEF AddFinalizer, StartReconcile, StartTerminate, RefuseReconcile,
                  WaitForBucket, Progress, SetErrorCondition,
                  FindServiceAccount, CreateServiceAccount, PersistAccount
    <3>2. CASE \/ LookUpCredential \/ RefuseNamespace \/ DropTracked
               \/ MintCredential \/ RetirePrevious
               \/ PersistCredential \/ UndoCredential \/ PersistSecretRef
      BY <3>2 DEF LookUpCredential, KeepCredential, RefuseNamespace,
                  DropTracked, MintCredential, RetirePrevious,
                  PersistCredential, UndoCredential, PersistSecretRef
    <3>3. CASE \/ ResolveExternalPrincipal \/ GrantBucket \/ AllGranted
               \/ ClearRotateAnnotation \/ Finish
               \/ RevokeGranted \/ RevokeRefs \/ TerminateCredential
               \/ TerminateAccount \/ Unfinalize
      BY <3>3 DEF ResolveExternalPrincipal, GrantBucket, AllGranted,
                  ClearRotateAnnotation, Finish, RevokeGranted, RevokeRefs,
                  TerminateCredential, TerminateAccount, Unfinalize
    <3> QED BY <1>1, <3>1, <3>2, <3>3 DEF Pass
  <2>2. (~run.swallow => ~run'.swallow)
    <3> USE DEF NoLocals, TypeOK, Locals
    <3>2. CASE \/ AddFinalizer \/ StartReconcile \/ StartTerminate
               \/ RefuseReconcile \/ WaitForBucket \/ Progress
               \/ SetErrorCondition
      BY <3>2 DEF AddFinalizer, StartReconcile, StartTerminate,
                  RefuseReconcile, WaitForBucket, Progress, SetErrorCondition
    <3>3. CASE FindServiceAccount \/ CreateServiceAccount \/ PersistAccount
      BY <3>3 DEF FindServiceAccount, CreateServiceAccount, PersistAccount
    <3>4. CASE LookUpCredential
      BY <3>4 DEF LookUpCredential, KeepCredential
    <3>5. CASE MintCredential
      BY <3>5 DEF MintCredential
    <3>6. CASE \/ RefuseNamespace \/ DropTracked \/ RetirePrevious
               \/ PersistCredential \/ UndoCredential \/ PersistSecretRef
      BY <3>6 DEF RefuseNamespace, DropTracked, RetirePrevious,
                  PersistCredential, UndoCredential, PersistSecretRef
    <3>7. CASE ResolveExternalPrincipal \/ GrantBucket
      BY <3>7 DEF ResolveExternalPrincipal, GrantBucket
    <3>8. CASE AllGranted \/ ClearRotateAnnotation \/ Finish
      BY <3>8 DEF AllGranted, ClearRotateAnnotation, Finish
    <3>9. CASE \/ RevokeGranted \/ RevokeRefs \/ TerminateCredential
               \/ TerminateAccount \/ Unfinalize
      BY <3>9 DEF RevokeGranted, RevokeRefs, TerminateCredential,
                  TerminateAccount, Unfinalize
    <3> QED BY <1>1, <3>2, <3>3, <3>4, <3>5, <3>6, <3>7, <3>8, <3>9 DEF Pass
  <2> QED BY <2>1, <2>2
<1>2. CASE SyncAccess \/ EditAccess \/ BucketController
  BY <1>2 DEF SyncAccess, EditAccess, BucketController, BucketChanges,
              ReadPolicy, WritePolicy
<1> QED BY <1>1, <1>2 DEF Next, Sync, Users

LEMMA NotFoundStep ==
    SecretsSettle /\ TypeOK /\ NotFoundInv /\ [Next]_vars => NotFoundInv'
<1> SUFFICES ASSUME SecretsSettle, TypeOK, NotFoundInv, [Next]_vars
             PROVE  NotFoundInv'
  OBVIOUS
<1> USE DEF NotFoundInv
<1>1. CASE UNCHANGED vars
  BY <1>1 DEF vars
<1>2. CASE Next /\ ~SecretActions
  BY <1>2, SecretFrame DEF secretVars
<1>3. CASE PutSecret
  <2>1. ~SecretWriteNotFound
    BY <1>3 DEF PutSecret, SecretWriteNotFound, SecretsSettle
  <2>2. ~run'.swallow
    BY <1>3, <2>1 DEF PutSecret, TypeOK, Locals
  <2>3. UNCHANGED secretVars \/ secret' # NoSecret
    BY <1>3, PublishSecretEffect, DesiredSecretIsThere
       DEF PutSecret, WriteSecret
  <2>4. pc' # "putSecret"
    BY <1>3 DEF PutSecret, Goto
  <2> QED BY <2>2, <2>3, <2>4 DEF secretVars
<1>4. CASE CheckSecret
  <2>1. \A s \in Hidden : s # NoSecret /\ ~SecretOwned(s)
    BY DEF Hidden, Unreadable, Forbidden, NoSecret, SecretOwned
  <2> QED BY <1>4, <2>1 DEF CheckSecret, Goto, secretVars
<1>5. CASE EditSecret
  <2>1. UNCHANGED <<pc, run>>
    BY <1>5 DEF EditSecret, workVars
  <2>2. NoSecret \notin Hidden
    BY DEF Hidden, Unreadable, Forbidden, NoSecret
  <2>3. CASE "deleteSecret" \in Env /\ PublishSecret(NoSecret)
    BY <2>1, <2>2, <2>3, PublishSecretEffect DEF SecretsSettle
  <2>4. CASE \E key : PublishSecret([owner |-> "other", key |-> key])
    <3>1. PICK key : PublishSecret([owner |-> "other", key |-> key])
      BY <2>4
    <3> DEFINE s == [owner |-> "other", key |-> key]
    <3>2. s.owner = "other" /\ NoSecret.owner = "none"
          /\ \A h \in Hidden : h.owner \in {"unreadable", "forbidden"}
      BY DEF NoSecret, Hidden, Unreadable, Forbidden
    <3> QED BY <2>1, <3>1, <3>2, PublishSecretEffect
  <2> QED BY <1>5, <2>3, <2>4 DEF EditSecret, Edit
<1>6. CASE SyncSecret
  <2>1. secret \notin Hidden
    BY DEF TypeOK, Secrets, Hidden, Unreadable, Forbidden
  <2> QED BY <1>6, <2>1 DEF SyncSecret, workVars
<1>7. CASE Crash \/ RestartWithNamespaces
  BY <1>7 DEF Crash, RestartWithNamespaces, Stop, NoLocals, workVars
<1> QED BY <1>1, <1>2, <1>3, <1>4, <1>5, <1>6, <1>7 DEF SecretActions

-----------------------------------------------------------------------------
(* Grants                                                                    *)

(* What a bucket grants is taken back by Terminate only, or because another  *)
(* principal is granted instead.                                             *)
LEMMA GrantedStays ==
    ASSUME TypeOK, Next, ~RevokeGranted, ~RevokeRefs, NEW b \in Buckets, NEW p,
           Granted(b, p), pc = "grant" => p = run.sa
    PROVE  Granted(b, p)'
<1> USE DEF Granted, RemoteExists, Overwritten
<1>1. CASE GrantBucket
  <2>1. bucketCR' = bucketCR
    BY <1>1 DEF GrantBucket
  <2>2. \/ UNCHANGED <<statements, undone>>
        \/ \E c : Rewrite(c, Upserted(c, run.sa))
    BY <1>1 DEF GrantBucket
  <2>3. p = run.sa
    BY <1>1 DEF GrantBucket
  <2>4. ASSUME NEW c, Rewrite(c, Upserted(c, run.sa))
        PROVE  Granted(b, p)'
    <3>1. statements' = Upserted(c, p) /\ undone'.grants = undone.grants \ {c}
      BY <2>3, <2>4 DEF Rewrite, TypeOK
    <3> QED BY <2>1, <3>1 DEF Upserted
  <2> QED BY <2>1, <2>2, <2>4
<1>2. CASE BucketChanges
  <2>1. PICK c \in Buckets :
           /\ \E to \in CASE bucketCR[c] = "pending" -> {"ready", "gone"}
                          [] bucketCR[c] = "ready"   -> {"pending", "deleted"}
                          [] bucketCR[c] = "deleted" -> {"gone"}
                          [] OTHER -> {} :
                 bucketCR' = [bucketCR EXCEPT ![c] = to]
           /\ statements' = {s \in statements : s.bucket = c =>
                                bucketCR'[c] \in {"pending", "ready"}}
    BY <1>2 DEF BucketChanges
  <2>2. undone' = undone
    BY <1>2 DEF BucketChanges, othersVars
  <2>3. bucketCR'[b] \in {"pending", "ready"}
           => bucketCR[b] \in {"pending", "ready"}
    BY <2>1 DEF TypeOK
  <2> QED BY <2>1, <2>2, <2>3
<1>3. CASE ReadPolicy
  BY <1>3 DEF ReadPolicy
<1>4. CASE WritePolicy
  <2>1. bucketCR' = bucketCR
    BY <1>4 DEF WritePolicy
  <2>2. PICK c \in copies :
           LET restored == Removed(c.bucket)
                           \cup Granting(c.bucket, c.principals) IN
           \/ /\ statements' = restored
              /\ undone' = [undone EXCEPT !.grants =
                                @ \cup IF restored = statements THEN {}
                                       ELSE {c.bucket}]
           \/ UNCHANGED <<statements, undone>>
    BY <1>4 DEF WritePolicy
  <2>3. CASE UNCHANGED <<statements, undone>>
    BY <2>1, <2>3
  <2>4. CASE statements' = statements /\ undone' = [undone EXCEPT !.grants = @]
    BY <2>1, <2>4 DEF TypeOK
  <2>5. CASE /\ statements' = Removed(c.bucket)
                               \cup Granting(c.bucket, c.principals)
             /\ undone' = [undone EXCEPT !.grants = @ \cup {c.bucket}]
    <3>1. undone'.grants = undone.grants \cup {c.bucket}
      BY <2>5 DEF TypeOK
    <3> QED BY <2>1, <2>5, <3>1 DEF Removed
  <2> QED BY <2>2, <2>3, <2>4, <2>5
<1>5. CASE ~PolicyActions
  BY <1>5, PolicyFrame
<1> QED BY <1>1, <1>2, <1>3, <1>4, <1>5 DEF PolicyActions, BucketController

LEMMA StatusWritten ==
    ASSUME TypeOK, NEW s, Persisted(s) \/ NotPersisted(s)
    PROVE  ba' = ba \/ ba'.status = s
<1>1. [ba EXCEPT !.status = s].status = s
  BY DEF TypeOK, AccessObject
<1> QED BY <1>1, PublishEffect DEF Persisted, NotPersisted, apiVars

(* A pass reports Ready in its last write only, with what it recorded.       *)
LEMMA ReadyStep ==
    ASSUME TypeOK, Next, ba'.status.cond = "Available",
           pc \in Reconciling => obj.status.cond # "Available"
    PROVE  \/ ba'.status = ba.status
           \/ /\ pc = "finish"
              /\ ba'.status.granted = obj.status.granted
              /\ ba'.status.principal = obj.status.principal
<1>1. CASE StatusWriters
  <2> USE DEF TypeOK, AccessObject, Status
  <2>1. CASE Finish
    <3>1. ba' = ba \/ ba'.status = [obj.status EXCEPT !.cond = "Available"]
      BY <2>1, StatusWritten DEF Finish
    <3> QED BY <2>1, <3>1 DEF Finish
  <2>2. CASE WaitForBucket \/ Progress
    <3>1. ba' = ba \/ ba'.status = Progressing(obj).status
      BY <2>2, StatusWritten DEF WaitForBucket, Progress
    <3>2. Progressing(obj).status.cond = "Progressing"
      BY DEF Progressing
    <3> QED BY <3>1, <3>2
  <2>3. CASE SetErrorCondition
    <3> DEFINE o == [obj EXCEPT !.status.cond = "Degraded"]
    <3>1. ba' = ba \/ ba'.status = o.status
      BY <2>3, StatusWritten DEF SetErrorCondition
    <3>2. o.status.cond = "Degraded"
      OBVIOUS
    <3> QED BY <3>1, <3>2
  <2>4. CASE PersistAccount
    <3> DEFINE o == [obj EXCEPT !.status.sa = run.sa,
                                !.status.principal = run.sa]
    <3>1. ba' = ba \/ ba'.status = o.status
      BY <2>4, StatusWritten DEF PersistAccount
    <3>2. o.status.cond = obj.status.cond /\ pc \in Reconciling
      BY <2>4 DEF PersistAccount, Reconciling, Phases
    <3> QED BY <3>1, <3>2
  <2>5. CASE PersistCredential
    <3> DEFINE o == [obj EXCEPT !.status.cred = run.cred]
    <3>1. ba' = ba \/ ba'.status = o.status
      BY <2>5, StatusWritten DEF PersistCredential
    <3>2. o.status.cond = obj.status.cond /\ pc \in Reconciling
      BY <2>5 DEF PersistCredential, Reconciling, Phases
    <3> QED BY <3>1, <3>2
  <2>6. CASE PersistSecretRef
    <3>1. ba' = ba \/ ba'.status = obj.status
      BY <2>6, StatusWritten DEF PersistSecretRef
    <3>2. pc \in Reconciling
      BY <2>6 DEF PersistSecretRef, Reconciling, Phases
    <3> QED BY <3>1, <3>2
  <2> QED BY <1>1, <2>1, <2>2, <2>3, <2>4, <2>5, <2>6 DEF StatusWriters
<1>2. CASE Pass /\ ~StatusWriters
  <2>1. \/ ba' = ba \/ \E f : ba' = [ba EXCEPT !.finalizer = f]
        \/ \E r : ba' = [ba EXCEPT !.rotate = r]
        \/ \E f, ph : ba' = [ba EXCEPT !.finalizer = f, !.phase = ph]
    <3>1. CASE \/ AddFinalizer \/ StartReconcile \/ StartTerminate
               \/ RefuseReconcile \/ ClearRotateAnnotation \/ Unfinalize
      BY <3>1 DEF AddFinalizer, StartReconcile, StartTerminate,
                  RefuseReconcile, ClearRotateAnnotation, Unfinalize, apiVars,
                  Publish
    <3>2. CASE \/ FindServiceAccount \/ CreateServiceAccount
               \/ LookUpCredential \/ RefuseNamespace \/ DropTracked
               \/ MintCredential \/ RetirePrevious \/ UndoCredential
      BY <3>2 DEF FindServiceAccount, CreateServiceAccount, LookUpCredential,
                  RefuseNamespace, DropTracked, MintCredential, RetirePrevious,
                  UndoCredential, apiVars
    <3>3. CASE \/ CheckSecret \/ PutSecret \/ ResolveExternalPrincipal
               \/ GrantBucket \/ AllGranted
               \/ RevokeGranted \/ RevokeRefs \/ TerminateCredential
               \/ TerminateAccount
      BY <3>3 DEF CheckSecret, PutSecret, ResolveExternalPrincipal,
                  GrantBucket, AllGranted, RevokeGranted, RevokeRefs,
                  TerminateCredential, TerminateAccount, apiVars
    <3> QED BY <1>2, <3>1, <3>2, <3>3 DEF Pass, StatusWriters
  <2> QED BY <2>1 DEF TypeOK, AccessObject
<1>3. CASE EditAccess
  BY <1>3, EditEffect
<1>4. CASE \/ Crash \/ Sync \/ EditSecret \/ BucketController
           \/ RestartWithNamespaces
  BY <1>4 DEF Crash, Sync, SyncAccess, SyncSecret, EditSecret,
              BucketController, BucketChanges, ReadPolicy, WritePolicy,
              RestartWithNamespaces, apiVars
<1> QED BY <1>1, <1>2, <1>3, <1>4 DEF Next, Users

(* How a pass of Reconcile moves on, as far as its condition, its principal  *)
(* and its grants are concerned.                                             *)
LEMMA ReconcileMoves ==
    ASSUME TypeOK, ~run.swallow, Pass
    PROVE  /\ pc' \in Reconciling =>
                 \/ Progress
                 \/ /\ pc \in Reconciling /\ pc # "finish"
                    /\ obj'.status.cond = obj.status.cond
           /\ pc' \in Principled =>
                 \/ PersistAccount \/ ResolveExternalPrincipal
                 \/ /\ pc \in Principled /\ run'.sa = run.sa
                    /\ obj'.status.principal = obj.status.principal
           /\ pc' = "grant" => PersistSecretRef \/ ResolveExternalPrincipal
                               \/ GrantBucket
           /\ pc' \in {"clearRotate", "finish"} =>
                 AllGranted \/ (pc = "clearRotate" /\ obj'.status = obj.status)
<1> USE DEF Goto, Stop, workVars, Reconciling, Principled, Phases
<1>1. CASE \/ AddFinalizer \/ StartReconcile \/ StartTerminate
           \/ RefuseReconcile \/ WaitForBucket \/ SetErrorCondition
  BY <1>1 DEF AddFinalizer, StartReconcile, StartTerminate, RefuseReconcile,
              WaitForBucket, SetErrorCondition
<1>2. CASE Progress
  BY <1>2 DEF Progress
<1>3. CASE \/ FindServiceAccount \/ CreateServiceAccount
           \/ RefuseNamespace \/ UndoCredential
  BY <1>3 DEF FindServiceAccount, CreateServiceAccount, RefuseNamespace,
              UndoCredential
<1>4. CASE PersistAccount
  <2> DEFINE o == [obj EXCEPT !.status.sa = run.sa,
                              !.status.principal = run.sa]
  <2>1. o.status.cond = obj.status.cond
    BY DEF TypeOK, AccessObject, Status
  <2> QED BY <1>4, <2>1 DEF PersistAccount
<1>5. CASE LookUpCredential
  BY <1>5 DEF LookUpCredential, KeepCredential, TypeOK, Locals
<1>6. CASE DropTracked
  BY <1>6 DEF DropTracked, TypeOK, AccessObject, Status
<1>7. CASE MintCredential \/ RetirePrevious
  BY <1>7 DEF MintCredential, RetirePrevious, TypeOK, Locals
<1>8. CASE PersistCredential
  BY <1>8 DEF PersistCredential, TypeOK, AccessObject, Status
<1>9. CASE CheckSecret \/ PutSecret \/ PersistSecretRef
  BY <1>9 DEF CheckSecret, PutSecret, PersistSecretRef, TypeOK, Locals
<1>10. CASE ResolveExternalPrincipal
  <2> DEFINE v == IF obj.principalRef = ExternalSA THEN ExternalSA ELSE NoID
             o == [obj EXCEPT !.status.sa = v,
                              !.status.principal = obj.principalRef,
                              !.status.cred = NoID]
  <2>1. o.status.cond = obj.status.cond
    <3> HIDE DEF v
    <3> QED BY DEF TypeOK, AccessObject, Status
  <2>2. /\ pc = "principal" /\ pc' \in {"grant", "degrade"}
        /\ obj' = o \/ obj' = obj
    BY <1>10 DEF ResolveExternalPrincipal
  <2> HIDE DEF o
  <2> QED BY <1>10, <2>1, <2>2
<1>11. CASE GrantBucket
  BY <1>11 DEF GrantBucket, TypeOK, Locals
<1>12. CASE AllGranted
  <2>1. [obj EXCEPT !.status.granted = obj.refs].status.cond
           = obj.status.cond
    BY DEF TypeOK, AccessObject, Status
  <2> QED BY <1>12, <2>1 DEF AllGranted
<1>13. CASE ClearRotateAnnotation \/ Finish
  BY <1>13 DEF ClearRotateAnnotation, Finish, TypeOK, AccessObject, Status
<1>14. CASE \/ RevokeGranted \/ RevokeRefs \/ TerminateCredential
            \/ TerminateAccount \/ Unfinalize
  BY <1>14 DEF RevokeGranted, RevokeRefs, TerminateCredential,
               TerminateAccount, Unfinalize
<1> QED BY <1>1, <1>2, <1>3, <1>4, <1>5, <1>6, <1>7, <1>8, <1>9, <1>10,
           <1>11, <1>12, <1>13, <1>14 DEF Pass

(* Everybody else leaves the worker alone, or ends its pass.                 *)
LEMMA OthersMove ==
    ASSUME TypeOK, Crash \/ Sync \/ Users
    PROVE  /\ pc' = "idle" \/ UNCHANGED <<pc, obj, run>>
           /\ ba'.status = ba.status
<1>1. CASE EditAccess
  BY <1>1, EditEffect DEF EditAccess, workVars
<1>2. CASE \/ Crash \/ Sync \/ EditSecret \/ BucketController
           \/ RestartWithNamespaces
  BY <1>2 DEF Crash, Stop, Sync, SyncAccess, SyncSecret, EditSecret,
              BucketController, BucketChanges, ReadPolicy, WritePolicy,
              RestartWithNamespaces, apiVars, workVars
<1> QED BY <1>1, <1>2 DEF Users

LEMMA ExternalResolved ==
    ASSUME TypeOK, ResolveExternalPrincipal, pc' # "degrade"
    PROVE  /\ pc' = "grant" /\ obj'.refs = obj.refs
           /\ run'.sa = obj.principalRef /\ run'.todo = obj.refs
           /\ obj'.status.principal = obj.principalRef
<1> DEFINE v == IF obj.principalRef = ExternalSA THEN ExternalSA ELSE NoID
           o == [obj EXCEPT !.status.sa = v,
                            !.status.principal = obj.principalRef,
                            !.status.cred = NoID]
           r == [run EXCEPT !.sa = obj.principalRef, !.todo = BucketsToGrant]
<1>1. o.refs = obj.refs /\ o.status.principal = obj.principalRef
  <2> HIDE DEF v
  <2> QED BY DEF TypeOK, AccessObject, Status
<1>2. r.sa = obj.principalRef /\ r.todo = obj.refs
  BY DEF TypeOK, Locals, BucketsToGrant
<1>3. obj' = o /\ run' = r /\ pc' = "grant"
  BY DEF ResolveExternalPrincipal, Goto
<1> QED BY <1>1, <1>2, <1>3

LEMMA GrantStep ==
    /\ TypeOK /\ NotFoundInv /\ DeletionInv /\ GrantInv /\ [Next]_vars
    => GrantInv'
<1> SUFFICES ASSUME TypeOK, NotFoundInv, DeletionInv, GrantInv, [Next]_vars
             PROVE  GrantInv'
  OBVIOUS
<1>1. CASE UNCHANGED vars
  BY <1>1 DEF vars, GrantInv, GrantedIsGranted, ReportsReady, Granted,
              RemoteExists, Overwritten, Reconciling, Principled
<1>2. CASE Next
  <2>1. /\ pc \in Reconciling =>
              ba.status.cond # "Available" /\ obj.status.cond # "Available"
        /\ ~run.swallow
    BY DEF GrantInv, NotFoundInv
  <2>2. \A b \in Buckets : \A p :
           /\ pc \notin {"revokeGranted", "revokeRefs"} /\ Granted(b, p)
           /\ pc = "grant" => p = run.sa
           => Granted(b, p)'
    BY <1>2, GrantedStays DEF RevokeGranted, RevokeRefs
  <2>3. GrantedIsGranted'
    <3> SUFFICES ASSUME ReportsReady', NEW b \in ba'.status.granted,
                        NEW p, p = ba'.status.principal
                 PROVE  Granted(b, p)'
      BY DEF GrantedIsGranted, Granted, RemoteExists, Overwritten
    <3>1. ba.phase = "live" /\ pc \notin {"revokeGranted", "revokeRefs"}
      BY <1>2, DeletionStays DEF ReportsReady, DeletionInv, Terminating
    <3>2. CASE ba'.status = ba.status
      <4>1. ReportsReady /\ pc # "grant"
        BY <3>1, <3>2, <2>1 DEF ReportsReady, Reconciling, Phases
      <4>2. Granted(b, p) /\ b \in Buckets
        BY <3>2, <4>1 DEF GrantInv, GrantedIsGranted, Granted, TypeOK,
                          AccessObject, Status
      <4> QED BY <2>2, <3>1, <4>1, <4>2
    <3>3. CASE /\ pc = "finish"
               /\ ba'.status.granted = obj.status.granted
               /\ ba'.status.principal = obj.status.principal
      <4>1. Granted(b, p) /\ b \in Buckets
        BY <3>3 DEF GrantInv, TypeOK, AccessObject, Status
      <4> QED BY <2>2, <3>3, <4>1
    <3> QED BY <1>2, <2>1, <3>2, <3>3, ReadyStep DEF ReportsReady
  <2>4. pc' \in Reconciling =>
           ba'.status.cond # "Available" /\ obj'.status.cond # "Available"
    <3> SUFFICES ASSUME pc' \in Reconciling
                 PROVE  /\ ba'.status.cond # "Available"
                        /\ obj'.status.cond # "Available"
      OBVIOUS
    <3>1. CASE Progress
      <4>1. Progressing(obj).status.cond = "Progressing"
        BY DEF Progressing, TypeOK, AccessObject, Status
      <4>2. Persisted(Progressing(obj).status) /\ obj' = Progressing(obj)
        BY <3>1 DEF Progress, Stop, Reconciling
      <4>3. ba'.status = Progressing(obj).status
        BY <4>2, PublishEffect DEF Persisted, TypeOK, AccessObject
      <4> QED BY <4>1, <4>2, <4>3
    <3>2. CASE Pass /\ ~Progress
      <4>1. /\ pc \in Reconciling /\ pc # "finish"
            /\ obj'.status.cond = obj.status.cond
        BY <2>1, <3>2, ReconcileMoves
      <4> QED BY <1>2, <2>1, <4>1, ReadyStep
    <3>3. CASE Crash \/ Sync \/ Users
      BY <2>1, <3>3, OthersMove DEF Reconciling
    <3> QED BY <1>2, <3>1, <3>2, <3>3 DEF Next
  <2>5. pc' \in Principled => run'.sa = obj'.status.principal
    <3>1. CASE PersistAccount /\ pc' \in Principled
      <4> DEFINE o == [obj EXCEPT !.status.sa = run.sa,
                                  !.status.principal = run.sa]
                 r == [run EXCEPT !.prev = o.status.cred]
      <4>1. o.status.principal = run.sa
        BY DEF TypeOK, AccessObject, Status
      <4>2. r.sa = run.sa
        BY DEF TypeOK, Locals
      <4>3. obj' = o /\ run' = r
        BY <3>1 DEF PersistAccount, Stop, Principled
      <4> QED BY <4>1, <4>2, <4>3
    <3>2. CASE ResolveExternalPrincipal /\ pc' \in Principled
      BY <3>2, ExternalResolved DEF Principled
    <3>3. CASE Pass /\ ~PersistAccount /\ ~ResolveExternalPrincipal
      BY <2>1, <3>3, ReconcileMoves DEF GrantInv
    <3>4. CASE Crash \/ Sync \/ Users
      BY <3>4, OthersMove DEF GrantInv, Principled
    <3> QED BY <1>2, <3>1, <3>2, <3>3, <3>4 DEF Next
  <2>6. pc' = "grant" =>
           \A b \in obj'.refs \ run'.todo :
              \A p : p = run'.sa => Granted(b, p)'
    <3> SUFFICES ASSUME pc' = "grant", NEW b \in obj'.refs \ run'.todo,
                        NEW p, p = run'.sa
                 PROVE  Granted(b, p)'
      OBVIOUS
    <3>1. CASE PersistSecretRef
      <4>1. [run EXCEPT !.todo = BucketsToGrant].todo = obj.refs
        BY DEF TypeOK, Locals, BucketsToGrant
      <4> QED BY <3>1, <4>1 DEF PersistSecretRef, Stop
    <3>2. CASE ResolveExternalPrincipal
      BY <3>2, ExternalResolved
    <3>3. CASE GrantBucket
      <4>1. PICK c \in run.todo :
               /\ RemoteExists(c) /\ Rewrite(c, Upserted(c, run.sa))
               /\ run' = [run EXCEPT !.todo = @ \ {c}]
        BY <3>3 DEF GrantBucket, Goto
      <4>2. run'.sa = run.sa /\ run'.todo = run.todo \ {c}
        BY <4>1 DEF TypeOK, Locals
      <4>3. pc = "grant" /\ obj' = obj
        BY <3>3 DEF GrantBucket
      <4>4. CASE b = c
        BY <4>1, <4>2, <4>4 DEF Granted, Rewrite, Upserted
      <4>5. CASE b # c
        <5>1. b \in obj.refs \ run.todo /\ b \in Buckets
          BY <4>2, <4>3, <4>5 DEF TypeOK, AccessObject
        <5> QED BY <2>2, <4>2, <4>3, <5>1 DEF GrantInv
      <4> QED BY <4>4, <4>5
    <3>4. CASE Crash \/ Sync \/ Users
      <4>1. UNCHANGED <<pc, obj, run>>
        BY <3>4, OthersMove
      <4> QED BY <2>2, <4>1 DEF GrantInv, TypeOK, AccessObject
    <3> QED BY <1>2, <2>1, <3>1, <3>2, <3>3, <3>4, ReconcileMoves DEF Next
  <2>7. pc' \in {"clearRotate", "finish"} =>
           \A b \in obj'.status.granted :
              \A p : p = obj'.status.principal => Granted(b, p)'
    <3> SUFFICES ASSUME pc' \in {"clearRotate", "finish"},
                        NEW b \in obj'.status.granted,
                        NEW p, p = obj'.status.principal
                 PROVE  Granted(b, p)'
      OBVIOUS
    <3>1. CASE AllGranted
      <4> DEFINE o == [obj EXCEPT !.status.granted = obj.refs]
      <4>1. /\ o.status.granted = obj.refs
            /\ o.status.principal = obj.status.principal
        BY DEF TypeOK, AccessObject, Status
      <4>2. pc = "grant" /\ run.todo = {} /\ obj' = o
        BY <3>1 DEF AllGranted
      <4>3. p = run.sa /\ b \in obj.refs \ run.todo /\ b \in Buckets
        BY <4>1, <4>2 DEF GrantInv, Principled, TypeOK, AccessObject
      <4> QED BY <2>2, <4>2, <4>3 DEF GrantInv
    <3>2. CASE /\ pc \in {"clearRotate", "finish"}
               /\ obj'.status = obj.status
      <4>1. b \in Buckets
        BY <3>2 DEF TypeOK, AccessObject, Status
      <4> QED BY <2>2, <3>2, <4>1 DEF GrantInv
    <3>3. CASE Crash \/ Sync \/ Users
      BY <3>2, <3>3, OthersMove
    <3> QED BY <1>2, <2>1, <3>1, <3>2, <3>3, ReconcileMoves DEF Next
  <2> QED BY <2>3, <2>4, <2>5, <2>6, <2>7 DEF GrantInv, Reconciling, Principled
<1> QED BY <1>1, <1>2

(* While an object reports Ready, every existing bucket among those that its *)
(* status records as granted has the statement for the principal in status,  *)
(* unless the Bucket controller wrote back an older policy of that bucket    *)
(* since this controller last wrote it: for any lag of the informers,        *)
(* crashes, lost answers, edits of references and mode, rotations, Buckets   *)
(* that come and go, and such writes on the other buckets. The hypothesis    *)
(* excludes what lets a NotFound of writeSecret pass for a success           *)
(* (SecretsSettle): then Reconcile grants to the empty principal and records *)
(* another.                                                                  *)
THEOREM ReadyMeansGranted == SecretsSettle => (Spec => []GrantedIsGranted)
<1> SUFFICES ASSUME SecretsSettle PROVE Spec => []GrantedIsGranted
  OBVIOUS
<1> DEFINE IInv == TypeOK /\ NotFoundInv /\ DeletionInv /\ GrantInv
<1>1. Init => IInv
  <2> SUFFICES ASSUME Init PROVE IInv
    OBVIOUS
  <2>1. ba.phase = "live" /\ ba.status = FreshStatus
    BY DEF Init, Created
  <2>2. NotFoundInv
    BY DEF Init, NotFoundInv, NoLocals
  <2>3. DeletionInv
    BY <2>1 DEF Init, DeletionInv, Terminating
  <2>4. GrantInv
    BY <2>1 DEF Init, GrantInv, GrantedIsGranted, ReportsReady, FreshStatus,
                Reconciling, Principled
  <2> QED BY InitType, <2>2, <2>3, <2>4
<1>2. IInv /\ [Next]_vars => IInv'
  <2> SUFFICES ASSUME IInv, [Next]_vars PROVE IInv'
    OBVIOUS
  <2>1. TypeOK'
    BY PassType, OthersType DEF Next, TypeOK, vars
  <2> QED BY <2>1, NotFoundStep, DeletionStep, GrantStep
<1>3. IInv => GrantedIsGranted
  BY DEF GrantInv
<1> QED BY <1>1, <1>2, <1>3, PTL DEF Spec

-----------------------------------------------------------------------------
(* A Secret of somebody else                                                 *)

(* Without a competing writer, a foreign Secret was there before the first   *)
(* pass: only its deletion makes it go.                                      *)
LEMMA ForeignSecretStep ==
    ASSUME "racingSecret" \notin Env, TypeOK, ForeignSecretInv, [Next]_vars
    PROVE  /\ ForeignSecretInv'
           /\ secret.owner = "other" => secret' \in {secret, NoSecret}
<1> USE DEF ForeignSecretInv
<1>0. /\ NoSecret.owner = "none" /\ NoSecret \notin Hidden
      /\ DesiredSecret.owner = "self"
      /\ \A s \in Hidden : s.owner \in {"unreadable", "forbidden"}
  BY DEF NoSecret, DesiredSecret, Hidden, Unreadable, Forbidden
<1>1. CASE UNCHANGED vars
  BY <1>1 DEF vars
<1>2. CASE Next /\ ~SecretActions
  BY <1>2, SecretFrame DEF secretVars
<1>3. CASE PutSecret
  <2>1. pc = "putSecret" /\ pc' # "putSecret"
    BY <1>3 DEF PutSecret, Goto
  <2>2. secret' \in {secret, DesiredSecret}
    BY <1>3, PublishSecretEffect DEF PutSecret, WriteSecret, secretVars
  <2> QED BY <1>0, <2>1, <2>2
<1>4. CASE CheckSecret
  BY <1>0, <1>4 DEF CheckSecret, Goto, secretVars, SecretOwned
<1>5. CASE EditSecret
  <2>1. PublishSecret(NoSecret)
    BY <1>5 DEF EditSecret, Edit
  <2> QED BY <1>0, <2>1, PublishSecretEffect
<1>6. CASE SyncSecret
  BY <1>6 DEF SyncSecret, workVars
<1>7. CASE Crash \/ RestartWithNamespaces
  BY <1>7 DEF Crash, RestartWithNamespaces, Stop, workVars
<1> QED BY <1>1, <1>2, <1>3, <1>4, <1>5, <1>6, <1>7 DEF SecretActions

(* The controller never overwrites a Secret that it does not own, whatever   *)
(* the informer shows of it, unless somebody creates one between writeSecret's *)
(* check and its CreateOrUpdate.                                             *)
THEOREM ForeignSecretUntouched ==
    "racingSecret" \notin Env => (Spec => ForeignSecretKept)
<1> SUFFICES ASSUME "racingSecret" \notin Env
             PROVE  Spec => ForeignSecretKept
  OBVIOUS
<1> DEFINE IInv == TypeOK /\ ForeignSecretInv
           Keeps == secret.owner = "other" => secret' \in {secret, NoSecret}
<1>1. Init => IInv
  BY InitType DEF Init, ForeignSecretInv
<1>2. IInv /\ [Next]_vars => IInv'
  <2> SUFFICES ASSUME IInv, [Next]_vars PROVE IInv'
    OBVIOUS
  <2>1. TypeOK'
    BY PassType, OthersType DEF Next, TypeOK, vars
  <2> QED BY <2>1, ForeignSecretStep
<1>3. IInv /\ [Next]_vars => [Keeps]_vars
  BY ForeignSecretStep
<1> QED BY <1>1, <1>2, <1>3, PTL DEF Spec, ForeignSecretKept
=============================================================================
