------------------------- MODULE BucketAccessProofs -------------------------
(***************************************************************************)
(* Theorems about BucketAccess, for every set of buckets, every kind of    *)
(* trouble in Env and every value of the bounds.                           *)
(***************************************************************************)
EXTENDS BucketAccessProperties, TLAPS

(* The sentinels are outside every set of identities.                        *)
LEMMA Sentinels ==
    /\ NoID \notin AccountIDs /\ NoID \notin CredentialIDs
    /\ NoID \notin Externals /\ ExternalSA \notin AccountIDs
    /\ ExternalSA # NoID /\ ExternalSA \in Principals /\ NoID \in Principals
BY BoundsAssumption, IdentityAssumption
   DEF NoID, AccountIDs, CredentialIDs, Externals, Principals

-----------------------------------------------------------------------------
(* Type correctness                                                          *)

LEMMA BlankTypes ==
    /\ NoObject \in AccessObject /\ NoLocals \in Locals
    /\ FreshStatus \in Status /\ NoSecret \in Secrets
    /\ \A s \in Hidden : s.key \in Keys
BY DEF NoObject, Created, AccessObject, NoLocals, Locals, FreshStatus, Status,
       NoSecret, Secrets, NoID, Principals, Keys, Conditions, Hidden,
       Unreadable, Forbidden

LEMMA FailType ==
    ASSUME faults \in 0..MaxFaults, Fail
    PROVE  faults' \in 0..MaxFaults
BY BoundsAssumption DEF Fail

LEMMA PublishType ==
    ASSUME TypeOK, NEW o \in AccessObject, Publish(o)
    PROVE  ba' \in AccessObject /\ baCache' \in AccessObject
BY DEF TypeOK, Publish

LEMMA StatusWriteType ==
    ASSUME TypeOK, NEW s \in Status, Persisted(s) \/ NotPersisted(s)
    PROVE  /\ ba' \in AccessObject /\ baCache' \in AccessObject
           /\ faults' \in 0..MaxFaults
<1>1. [ba EXCEPT !.status = s] \in AccessObject
  BY DEF TypeOK, AccessObject
<1>2. CASE Persisted(s)
  BY <1>1, <1>2, PublishType DEF Persisted, TypeOK
<1>3. CASE NotPersisted(s)
  <2>1. CASE ~CacheIsCurrent /\ UNCHANGED <<ba, baCache, faults>>
    BY <2>1 DEF TypeOK
  <2>2. CASE Fail /\ UNCHANGED apiVars
    BY <2>2, FailType DEF TypeOK, apiVars
  <2>3. CASE /\ Lost /\ CacheIsCurrent
             /\ Publish([ba EXCEPT !.status = s])
    BY <2>3, <1>1, FailType, PublishType DEF TypeOK, Lost
  <2> QED BY <1>3, <2>1, <2>2, <2>3 DEF NotPersisted
<1> QED BY <1>2, <1>3

THEOREM InitType == Init => TypeOK
<1> SUFFICES ASSUME Init PROVE TypeOK
  OBVIOUS
<1>1. ba \in AccessObject
  <2>1. PICK refs \in (SUBSET Buckets) \ {{}}, ref \in Externals \cup {NoID} :
              ba = Created(refs, ref)
    BY DEF Init
  <2> QED BY <2>1, BlankTypes DEF Created, AccessObject
<1>2. secret \in Secrets
  BY DEF Init, Secrets, NoSecret, Keys, NoID
<1>3. bucketCR \in [Buckets -> {"pending", "ready", "deleted", "gone"}]
  BY DEF Init
<1> QED BY <1>1, <1>2, <1>3, BlankTypes, BoundsAssumption
        DEF Init, TypeOK, Phases

(* The worker's copy, after a pass has ended, and after a change of status.  *)
LEMMA StopType ==
    ASSUME Stop
    PROVE  pc' \in Phases /\ obj' \in AccessObject /\ run' \in Locals
BY BlankTypes DEF Stop, Phases

LEMMA CondType ==
    ASSUME NEW o \in AccessObject, NEW c \in Conditions
    PROVE  /\ [o EXCEPT !.status.cond = c] \in AccessObject
           /\ [o.status EXCEPT !.cond = c] \in Status
           /\ [o EXCEPT !.status.cond = c].status \in Status
BY DEF AccessObject, Status

LEMMA DeletedType ==
    ASSUME TypeOK, NEW a, NEW c
    PROVE  Deleted(a, c) \subseteq [id : CredentialIDs, sa : Principals]
BY DEF TypeOK, Deleted

LEMMA DeleteOrLogType ==
    ASSUME TypeOK, NEW c \in CredentialIDs \cup {NoID}, DeleteOrLog(c)
    PROVE  /\ creds' \subseteq [id : CredentialIDs, sa : Principals]
           /\ faults' \in 0..MaxFaults
BY DeletedType, FailType DEF TypeOK, DeleteOrLog, Lost

LEMMA RewriteType ==
    ASSUME TypeOK, NEW b, NEW S \in SUBSET Statements, Rewrite(b, S)
    PROVE  /\ statements' \subseteq Statements
           /\ undone' \in [grants : SUBSET Buckets, secret : BOOLEAN]
BY DEF TypeOK, Rewrite

LEMMA PassType == TypeOK /\ Pass => TypeOK'
<1> SUFFICES ASSUME TypeOK, Pass PROVE TypeOK'
  OBVIOUS
<1> USE DEF secretVars, iamVars, workVars, apiVars, othersVars, Goto
<1>1. CASE AddFinalizer
  <2>1. [ba EXCEPT !.finalizer = TRUE] \in AccessObject
    BY DEF TypeOK, AccessObject
  <2>2. /\ ba' \in AccessObject /\ baCache' \in AccessObject
        /\ faults' \in 0..MaxFaults
    BY <1>1, <2>1, PublishType, FailType DEF TypeOK, AddFinalizer, Lost
  <2> QED BY <1>1, <2>2 DEF TypeOK, AddFinalizer
<1>2. CASE StartReconcile
  BY <1>2, BlankTypes DEF TypeOK, StartReconcile, Phases
<1>3. CASE StartTerminate
  <2>1. run' \in Locals
    BY <1>3, BlankTypes
       DEF TypeOK, StartTerminate, Locals, AccessObject, Status
  <2> QED BY <1>3, <2>1 DEF TypeOK, StartTerminate, Phases
<1>4. CASE RefuseReconcile
  BY <1>4 DEF TypeOK, RefuseReconcile, Phases
<1>5. CASE WaitForBucket
  <2>1. Progressing(obj).status \in Status
    BY CondType DEF TypeOK, Progressing, Conditions
  <2> QED BY <1>5, <2>1, StatusWriteType, StopType DEF TypeOK, WaitForBucket
<1>6. CASE Progress
  <2>1. Progressing(obj).status \in Status /\ Progressing(obj) \in AccessObject
    BY CondType DEF TypeOK, Progressing, Conditions
  <2>2. /\ ba' \in AccessObject /\ baCache' \in AccessObject
        /\ faults' \in 0..MaxFaults
    BY <1>6, <2>1, StatusWriteType DEF Progress
  <2>3. pc' \in Phases /\ obj' \in AccessObject /\ run' \in Locals
    BY <1>6, <2>1, StopType DEF TypeOK, Progress, Phases
  <2> QED BY <1>6, <2>2, <2>3 DEF TypeOK, Progress
<1>7. CASE SetErrorCondition
  <2> DEFINE o == [obj EXCEPT !.status.cond = "Degraded"]
  <2>1. o \in AccessObject /\ o.status \in Status
    BY CondType DEF TypeOK, Conditions
  <2>2. /\ ba' \in AccessObject /\ baCache' \in AccessObject
        /\ faults' \in 0..MaxFaults
    BY <1>7, <2>1, StatusWriteType DEF SetErrorCondition
  <2>3. [NoLocals EXCEPT !.todo = BucketsToGrant] \in Locals
    BY BlankTypes DEF TypeOK, Locals, AccessObject, BucketsToGrant
  <2>4. pc' \in Phases /\ obj' \in AccessObject /\ run' \in Locals
    BY <1>7, <2>1, <2>3, StopType DEF TypeOK, SetErrorCondition, Phases
  <2> QED BY <1>7, <2>2, <2>4 DEF TypeOK, SetErrorCondition
<1>8. CASE FindServiceAccount
  <2>1. run' \in Locals
    <3>1. \A a \in accounts : [run EXCEPT !.sa = a] \in Locals
      BY DEF TypeOK, Locals, Principals, Externals
    <3>2. Owned(obj.status.sa) => obj.status.sa \in accounts
      BY DEF Owned
    <3>3. ListedAccounts \subseteq accounts
      BY DEF ListedAccounts
    <3> QED BY <1>8, <3>1, <3>2, <3>3 DEF TypeOK, FindServiceAccount
  <2>2. faults' \in 0..MaxFaults
    BY <1>8, FailType DEF TypeOK, FindServiceAccount
  <2> QED BY <1>8, <2>1, <2>2 DEF TypeOK, FindServiceAccount, Phases
<1>9. CASE CreateServiceAccount
  <2>1. /\ issuedSA' \in 0..MaxAccounts
        /\ accounts' \subseteq AccountIDs \cup {ExternalSA}
    BY <1>9, BoundsAssumption DEF TypeOK, CreateServiceAccount, AccountIDs
  <2>2. run' \in Locals
    BY <1>9, BoundsAssumption
       DEF TypeOK, CreateServiceAccount, AccountIDs, Locals, Principals
  <2>3. faults' \in 0..MaxFaults
    BY <1>9, FailType DEF TypeOK, CreateServiceAccount, Lost
  <2> QED BY <1>9, <2>1, <2>2, <2>3 DEF TypeOK, CreateServiceAccount, Phases
<1>10. CASE PersistAccount
  <2> DEFINE o == [obj EXCEPT !.status.sa = run.sa,
                              !.status.principal = run.sa]
  <2>1. o \in AccessObject /\ o.status \in Status
    BY DEF TypeOK, AccessObject, Status, Locals
  <2>2. /\ ba' \in AccessObject /\ baCache' \in AccessObject
        /\ faults' \in 0..MaxFaults
    BY <1>10, <2>1, StatusWriteType DEF PersistAccount
  <2>3. [run EXCEPT !.prev = o.status.cred] \in Locals
    BY <2>1 DEF TypeOK, Locals, Status
  <2>4. pc' \in Phases /\ obj' \in AccessObject /\ run' \in Locals
    BY <1>10, <2>1, <2>3, StopType DEF TypeOK, PersistAccount, Phases
  <2> QED BY <1>10, <2>2, <2>4 DEF TypeOK, PersistAccount
<1>11. CASE LookUpCredential
  <2>1. \A c \in CredentialIDs \cup {NoID} :
           [run EXCEPT !.cred = c, !.key = secretCache.key] \in Locals
    <3>1. secretCache.key \in Keys
      BY BlankTypes DEF TypeOK, Secrets
    <3> QED BY <3>1 DEF TypeOK, Locals
  <2>2. obj.status.cred \in CredentialIDs \cup {NoID}
    BY DEF TypeOK, AccessObject, Status
  <2>3. \A c \in Matching : c.id \in CredentialIDs
    BY DEF TypeOK, Matching
  <2>4. pc' \in Phases
    BY <1>11 DEF LookUpCredential, KeepCredential, Phases
  <2>5. \/ run' = run
        \/ \E c \in CredentialIDs \cup {NoID} :
              run' = [run EXCEPT !.cred = c, !.key = secretCache.key]
    <3>1. CASE \E c \in {obj.status.cred} : KeepCredential(c)
      BY <2>2, <3>1 DEF KeepCredential
    <3>2. CASE \E c \in Matching : KeepCredential(c.id)
      BY <2>3, <3>2 DEF KeepCredential
    <3>3. CASE run' = run
      BY <3>3
    <3> QED BY <1>11, <3>1, <3>2, <3>3 DEF LookUpCredential
  <2>6. run' \in Locals
    <3>1. CASE run' = run
      BY <3>1 DEF TypeOK
    <3>2. ASSUME NEW c \in CredentialIDs \cup {NoID},
                 run' = [run EXCEPT !.cred = c, !.key = secretCache.key]
          PROVE  run' \in Locals
      BY <2>1, <3>2, Zenon
    <3> QED BY <2>5, <3>1, <3>2, Zenon
  <2>7. faults' \in 0..MaxFaults
    BY <1>11, FailType DEF TypeOK, LookUpCredential
  <2> QED BY <1>11, <2>4, <2>6, <2>7 DEF TypeOK, LookUpCredential
<1>12. CASE DropTracked
  <2>1. [obj EXCEPT !.status.cred = NoID] \in AccessObject
    BY DEF TypeOK, AccessObject, Status
  <2>2. faults' \in 0..MaxFaults
    BY <1>12, FailType DEF TypeOK, DropTracked, Lost
  <2> QED BY <1>12, <2>1, <2>2, DeletedType DEF TypeOK, DropTracked, Phases
<1>13. CASE MintCredential
  <2>1. /\ issuedCred' \in 0..MaxCredentials
        /\ creds' \subseteq [id : CredentialIDs, sa : Principals]
    BY <1>13, BoundsAssumption
       DEF TypeOK, MintCredential, CredentialIDs, Locals
  <2>2. run' \in Locals
    <3>1. issuedCred < MaxCredentials => issuedCred + 1 \in CredentialIDs
      BY BoundsAssumption DEF TypeOK, CredentialIDs
    <3>2. \A c \in CredentialIDs, r \in BOOLEAN :
             [run EXCEPT !.cred = c, !.key = c, !.rotated = r] \in Locals
      BY DEF TypeOK, Locals, Keys
    <3> DEFINE r == obj.rotate \/ obj.status.cred # NoID
    <3>3. r \in BOOLEAN
      OBVIOUS
    <3>4. \/ run' = run
          \/ /\ issuedCred < MaxCredentials /\ issuedCred' = issuedCred + 1
             /\ run' = [run EXCEPT !.cred = issuedCred', !.key = issuedCred',
                                   !.rotated = r]
      BY <1>13 DEF MintCredential
    <3> HIDE DEF r
    <3>5. CASE run' = run
      BY <3>5 DEF TypeOK
    <3>6. CASE /\ issuedCred < MaxCredentials /\ issuedCred' = issuedCred + 1
               /\ run' = [run EXCEPT !.cred = issuedCred',
                                     !.key = issuedCred', !.rotated = r]
      <4>1. issuedCred' \in CredentialIDs
        BY <3>1, <3>6
      <4> QED BY <3>2, <3>3, <3>6, <4>1
    <3> QED BY <3>4, <3>5, <3>6
  <2>3. faults' \in 0..MaxFaults
    BY <1>13, FailType DEF TypeOK, MintCredential, Lost
  <2> QED BY <1>13, <2>1, <2>2, <2>3 DEF TypeOK, MintCredential, Phases
<1>14. CASE RetirePrevious
  <2>1. obj.status.cred \in CredentialIDs \cup {NoID}
    BY DEF TypeOK, AccessObject, Status
  <2>2. /\ creds' \subseteq [id : CredentialIDs, sa : Principals]
        /\ faults' \in 0..MaxFaults
    BY <1>14, <2>1, DeleteOrLogType DEF RetirePrevious
  <2> QED BY <1>14, <2>2 DEF TypeOK, RetirePrevious, Phases
<1>15. CASE PersistCredential
  <2> DEFINE o == [obj EXCEPT !.status.cred = run.cred]
  <2>1. o \in AccessObject /\ o.status \in Status
    BY DEF TypeOK, AccessObject, Status, Locals
  <2>2. /\ ba' \in AccessObject /\ baCache' \in AccessObject
        /\ faults' \in 0..MaxFaults
    BY <1>15, <2>1, StatusWriteType DEF PersistCredential
  <2>3. pc' \in Phases /\ obj' \in AccessObject /\ run' \in Locals
    BY <1>15, <2>1, StopType DEF TypeOK, PersistCredential, Phases
  <2> QED BY <1>15, <2>2, <2>3 DEF TypeOK, PersistCredential
<1>16. CASE UndoCredential
  <2>1. run.cred \in CredentialIDs \cup {NoID}
    BY DEF TypeOK, Locals
  <2>2. /\ creds' \subseteq [id : CredentialIDs, sa : Principals]
        /\ faults' \in 0..MaxFaults
    BY <1>16, <2>1, DeleteOrLogType DEF UndoCredential
  <2> QED BY <1>16, <2>2, StopType DEF TypeOK, UndoCredential
<1>17. CASE CheckSecret
  BY <1>17 DEF TypeOK, CheckSecret, Phases
<1>18. CASE PutSecret
  <2>1. DesiredSecret \in Secrets
    BY DEF TypeOK, DesiredSecret, Secrets, Locals
  <2>2. secret' \in Secrets /\ secretCache' \in Secrets \cup Hidden
    BY <1>18, <2>1 DEF TypeOK, PutSecret, WriteSecret, PublishSecret
  <2>3. run' \in Locals
    <3>1. SecretWriteNotFound \in BOOLEAN
      BY DEF SecretWriteNotFound
    <3>2. [run EXCEPT !.swallow = SecretWriteNotFound] \in Locals
      BY <3>1 DEF TypeOK, Locals
    <3> QED BY <1>18, <3>2 DEF TypeOK, PutSecret
  <2>4. faults' \in 0..MaxFaults
    BY <1>18, FailType DEF TypeOK, PutSecret, Lost
  <2>5. undone' \in [grants : SUBSET Buckets, secret : BOOLEAN]
    BY <1>18 DEF TypeOK, PutSecret, WriteSecret
  <2> QED BY <1>18, <2>2, <2>3, <2>4, <2>5 DEF TypeOK, PutSecret, Phases
<1>19. CASE PersistSecretRef
  <2>1. obj.status \in Status
    BY DEF TypeOK, AccessObject
  <2>2. /\ ba' \in AccessObject /\ baCache' \in AccessObject
        /\ faults' \in 0..MaxFaults
    BY <1>19, <2>1, StatusWriteType DEF PersistSecretRef
  <2>3. [run EXCEPT !.todo = BucketsToGrant] \in Locals
    BY DEF TypeOK, Locals, AccessObject, BucketsToGrant
  <2>4. pc' \in Phases /\ obj' \in AccessObject /\ run' \in Locals
    BY <1>19, <2>3, StopType DEF TypeOK, PersistSecretRef, Phases
  <2> QED BY <1>19, <2>2, <2>4 DEF TypeOK, PersistSecretRef
<1>20. CASE ResolveExternalPrincipal
  <2>1. obj' \in AccessObject
    <3>1. obj.principalRef \in Principals
      BY DEF TypeOK, AccessObject, Principals
    <3>2. \A p, q \in Principals :
             [obj EXCEPT !.status.sa = p, !.status.principal = q,
                         !.status.cred = NoID] \in AccessObject
      BY DEF TypeOK, AccessObject, Status
    <3>3. \/ obj' = obj
          \/ \E p \in {ExternalSA, NoID} :
                obj' = [obj EXCEPT !.status.sa = p,
                                   !.status.principal = obj.principalRef,
                                   !.status.cred = NoID]
      BY <1>20 DEF ResolveExternalPrincipal
    <3>4. CASE obj' = obj
      BY <3>4 DEF TypeOK
    <3>5. CASE \E p \in {ExternalSA, NoID} :
                  obj' = [obj EXCEPT !.status.sa = p,
                                     !.status.principal = obj.principalRef,
                                     !.status.cred = NoID]
      <4>1. PICK p \in {ExternalSA, NoID} :
                  obj' = [obj EXCEPT !.status.sa = p,
                                     !.status.principal = obj.principalRef,
                                     !.status.cred = NoID]
        BY <3>5
      <4>2. p \in Principals
        BY Sentinels
      <4> QED BY <3>1, <3>2, <4>1, <4>2, Zenon
    <3> QED BY <3>3, <3>4, <3>5
  <2>2. run' \in Locals
    BY <1>20 DEF TypeOK, ResolveExternalPrincipal, AccessObject, Locals,
                 Principals, Externals, BucketsToGrant
  <2>3. faults' \in 0..MaxFaults
    BY <1>20, FailType DEF TypeOK, ResolveExternalPrincipal
  <2> QED BY <1>20, <2>1, <2>2, <2>3
          DEF TypeOK, ResolveExternalPrincipal, Phases
<1>21. CASE GrantBucket
  <2>1. PICK b \in run.todo :
          /\ \/ UNCHANGED <<statements, undone>>
             \/ Rewrite(b, Upserted(b, run.sa))
          /\ run' = run \/ run' = [run EXCEPT !.todo = @ \ {b}]
          /\ pc' \in {pc, "degrade"}
          /\ faults' = faults \/ Fail
    BY <1>21 DEF GrantBucket, Lost
  <2>2. b \in Buckets /\ run.sa \in Principals
    BY DEF TypeOK, Locals
  <2>3. /\ statements' \subseteq Statements
        /\ undone' \in [grants : SUBSET Buckets, secret : BOOLEAN]
    BY <2>1, <2>2, RewriteType DEF TypeOK, Upserted, Statements
  <2>4. run' \in Locals
    BY <2>1 DEF TypeOK, Locals
  <2>5. faults' \in 0..MaxFaults
    BY <2>1, FailType DEF TypeOK
  <2> QED BY <1>21, <2>1, <2>3, <2>4, <2>5 DEF TypeOK, GrantBucket, Phases
<1>22. CASE AllGranted
  <2>1. obj' \in AccessObject
    BY <1>22 DEF TypeOK, AllGranted, AccessObject, Status
  <2> QED BY <1>22, <2>1 DEF TypeOK, AllGranted, Phases
<1>23. CASE ClearRotateAnnotation
  <2>1. /\ [ba EXCEPT !.rotate = FALSE] \in AccessObject
        /\ [obj EXCEPT !.rotate = FALSE] \in AccessObject
    BY DEF TypeOK, AccessObject
  <2>2. /\ ba' \in AccessObject /\ baCache' \in AccessObject
        /\ faults' \in 0..MaxFaults
    BY <1>23, <2>1, PublishType, FailType
       DEF TypeOK, ClearRotateAnnotation, Lost
  <2>3. pc' \in Phases /\ obj' \in AccessObject /\ run' \in Locals
    BY <1>23, <2>1, StopType DEF TypeOK, ClearRotateAnnotation, Phases
  <2> QED BY <1>23, <2>2, <2>3 DEF TypeOK, ClearRotateAnnotation
<1>24. CASE Finish
  <2>1. [obj.status EXCEPT !.cond = "Available"] \in Status
    BY CondType DEF TypeOK, Conditions
  <2> QED BY <1>24, <2>1, StatusWriteType, StopType DEF TypeOK, Finish
<1>25. CASE RevokeGranted
  <2>1. /\ statements' \subseteq Statements
        /\ undone' \in [grants : SUBSET Buckets, secret : BOOLEAN]
    <3>1. \/ UNCHANGED <<statements, undone>>
          \/ \E b : Rewrite(b, Removed(b))
      BY <1>25 DEF RevokeGranted
    <3> QED BY <3>1, RewriteType DEF TypeOK, Removed
  <2>2. pc' \in Phases /\ obj' \in AccessObject /\ run' \in Locals
    <3>1. \A b : [run EXCEPT !.todo = @ \ {b}] \in Locals
      BY DEF TypeOK, Locals
    <3>2. [run EXCEPT !.todo = obj.refs] \in Locals
      BY DEF TypeOK, Locals, AccessObject
    <3> QED BY <1>25, <3>1, <3>2, StopType DEF TypeOK, RevokeGranted, Phases
  <2>3. faults' \in 0..MaxFaults
    BY <1>25, FailType DEF TypeOK, RevokeGranted, Lost
  <2> QED BY <1>25, <2>1, <2>2, <2>3 DEF TypeOK, RevokeGranted
<1>26. CASE RevokeRefs
  <2>1. /\ statements' \subseteq Statements
        /\ undone' \in [grants : SUBSET Buckets, secret : BOOLEAN]
    <3>1. \/ UNCHANGED <<statements, undone>>
          \/ \E b : Rewrite(b, Removed(b))
      BY <1>26 DEF RevokeRefs
    <3> QED BY <3>1, RewriteType DEF TypeOK, Removed
  <2>2. run' \in Locals
    <3>1. \A b : [run EXCEPT !.todo = @ \ {b}] \in Locals
      BY DEF TypeOK, Locals
    <3> QED BY <1>26, <3>1 DEF TypeOK, RevokeRefs
  <2>3. faults' \in 0..MaxFaults
    BY <1>26, FailType DEF TypeOK, RevokeRefs
  <2> QED BY <1>26, <2>1, <2>2, <2>3 DEF TypeOK, RevokeRefs, Phases
<1>27. CASE TerminateCredential
  <2>1. faults' \in 0..MaxFaults
    BY <1>27, FailType DEF TypeOK, TerminateCredential, Lost
  <2> QED BY <1>27, <2>1, DeletedType, BlankTypes
          DEF TypeOK, TerminateCredential, Phases
<1>28. CASE TerminateAccount
  <2>1. /\ accounts' \subseteq accounts
        /\ creds' \subseteq creds
    BY <1>28 DEF TerminateAccount, WithoutAccount
  <2>2. faults' \in 0..MaxFaults
    BY <1>28, FailType DEF TypeOK, TerminateAccount, Lost
  <2>3. pc' \in Phases /\ obj' \in AccessObject /\ run' \in Locals
    BY <1>28, StopType DEF TypeOK, TerminateAccount, Phases
  <2> QED BY <1>28, <2>1, <2>2, <2>3 DEF TypeOK, TerminateAccount
<1>29. CASE Unfinalize
  <2>1. [ba EXCEPT !.finalizer = FALSE, !.phase = "gone"] \in AccessObject
    BY DEF TypeOK, AccessObject
  <2>2. /\ ba' \in AccessObject /\ baCache' \in AccessObject
        /\ faults' \in 0..MaxFaults
    BY <1>29, <2>1, PublishType, FailType DEF TypeOK, Unfinalize, Lost
  <2> QED BY <1>29, <2>2, StopType DEF TypeOK, Unfinalize
<1>30. CASE RefuseNamespace
  BY <1>30 DEF TypeOK, RefuseNamespace, Phases
<1> QED BY <1>1, <1>2, <1>3, <1>4, <1>5, <1>6, <1>7, <1>8, <1>9, <1>10, <1>11,
           <1>12, <1>13, <1>14, <1>15, <1>16, <1>17, <1>18, <1>19, <1>20,
           <1>21, <1>22, <1>23, <1>24, <1>25, <1>26, <1>27, <1>28, <1>29,
           <1>30
        DEF Pass

LEMMA OthersType == TypeOK /\ (Crash \/ Sync \/ Users) => TypeOK'
<1> SUFFICES ASSUME TypeOK, Crash \/ Sync \/ Users PROVE TypeOK'
  OBVIOUS
<1> USE DEF secretVars, iamVars, workVars, apiVars, othersVars
<1>1. CASE Crash
  BY <1>1, FailType, StopType DEF TypeOK, Crash
<1>2. CASE Sync
  BY <1>2 DEF TypeOK, Sync, SyncAccess, SyncSecret
<1>3. ASSUME NEW k, Edit(k)
      PROVE  edits' \in 0..MaxEdits
  BY <1>3, BoundsAssumption DEF TypeOK, Edit
<1>4. CASE EditAccess
  <2>1. \E o \in AccessObject : Publish(o)
    <3>1. /\ \A S \in SUBSET Buckets : [ba EXCEPT !.refs = S] \in AccessObject
          /\ \A p \in Externals \cup {NoID} :
                [ba EXCEPT !.principalRef = p] \in AccessObject
          /\ \A r \in BOOLEAN : [ba EXCEPT !.rotate = r] \in AccessObject
          /\ [ba EXCEPT !.suspended = ~@] \in AccessObject
          /\ [ba EXCEPT !.phase = IF ba.finalizer THEN "deleting"
                                 ELSE "gone"] \in AccessObject
      BY DEF TypeOK, AccessObject
    <3> QED BY <1>4, <3>1 DEF EditAccess
  <2>2. ba' \in AccessObject /\ baCache' \in AccessObject
    BY <2>1, PublishType
  <2>3. edits' \in 0..MaxEdits
    BY <1>3, <1>4 DEF EditAccess
  <2> QED BY <1>4, <2>2, <2>3 DEF TypeOK, EditAccess
<1>5. CASE EditSecret
  <2>1. secret' \in Secrets /\ secretCache' \in Secrets \cup Hidden
    BY <1>5, BlankTypes DEF TypeOK, EditSecret, PublishSecret, Secrets, Keys
  <2>2. edits' \in 0..MaxEdits
    BY <1>3, <1>5 DEF EditSecret
  <2>3. undone' \in [grants : SUBSET Buckets, secret : BOOLEAN]
    BY <1>5 DEF TypeOK, EditSecret, SecretOwned
  <2> QED BY <1>5, <2>1, <2>2, <2>3 DEF TypeOK, EditSecret
<1>6. CASE BucketChanges
  <2>1. bucketCR' \in [Buckets -> {"pending", "ready", "deleted", "gone"}]
    BY <1>6 DEF TypeOK, BucketChanges
  <2>2. statements' \subseteq statements
    BY <1>6 DEF BucketChanges
  <2>3. edits' \in 0..MaxEdits
    BY <1>3, <1>6 DEF BucketChanges
  <2> QED BY <1>6, <2>1, <2>2, <2>3 DEF TypeOK, BucketChanges
<1>7. CASE RestartWithNamespaces
  <2>1. edits' \in 0..MaxEdits
    BY <1>3, <1>7 DEF RestartWithNamespaces
  <2> QED BY <1>7, <2>1 DEF TypeOK, RestartWithNamespaces
<1>8. CASE ReadPolicy
  <2>1. \A b : GrantedOn(b) \in SUBSET Principals
    BY DEF TypeOK, GrantedOn, Statements
  <2>2. edits' \in 0..MaxEdits
    BY <1>3, <1>8 DEF ReadPolicy
  <2> QED BY <1>8, <2>1, <2>2 DEF TypeOK, ReadPolicy
<1>9. CASE WritePolicy
  <2>1. PICK c \in copies :
           \/ /\ statements' = Removed(c.bucket)
                                \cup Granting(c.bucket, c.principals)
              /\ \E S \in {{}, {c.bucket}} :
                    undone' = [undone EXCEPT !.grants = @ \cup S]
           \/ UNCHANGED <<statements, undone>>
    BY <1>9 DEF WritePolicy
  <2>2. Granting(c.bucket, c.principals) \subseteq Statements
    BY DEF TypeOK, Granting, Statements
  <2>3. /\ statements' \subseteq Statements
        /\ undone' \in [grants : SUBSET Buckets, secret : BOOLEAN]
    BY <2>1, <2>2 DEF TypeOK, Removed
  <2> QED BY <1>9, <2>3 DEF TypeOK, WritePolicy
<1> QED BY <1>1, <1>2, <1>4, <1>5, <1>6, <1>7, <1>8, <1>9
        DEF Users, BucketController

(* Every behaviour keeps the types.                                          *)
THEOREM TypeCorrect == Spec => []TypeOK
<1>1. TypeOK /\ UNCHANGED vars => TypeOK'
  BY DEF TypeOK, vars
<1>2. TypeOK /\ [Next]_vars => TypeOK'
  BY <1>1, PassType, OthersType DEF Next
<1> QED BY InitType, <1>2, PTL DEF Spec

-----------------------------------------------------------------------------
(* Service accounts                                                          *)

AccountActions == FindServiceAccount \/ CreateServiceAccount
                  \/ TerminateAccount

(* Every other step leaves the accounts alone and starts no creation.        *)
LEMMA AccountFrame ==
    ASSUME Next, ~AccountActions
    PROVE  accounts' = accounts /\ (pc' = "createAccount" => pc' = pc)
<1> USE DEF iamVars, workVars, Goto, Stop, AccountActions
<1>1. CASE Pass
  <2>1. CASE \/ AddFinalizer \/ StartReconcile \/ StartTerminate
             \/ RefuseReconcile \/ WaitForBucket \/ Progress
             \/ SetErrorCondition \/ PersistAccount
    BY <2>1 DEF AddFinalizer, StartReconcile, StartTerminate, RefuseReconcile,
                WaitForBucket, Progress, SetErrorCondition, PersistAccount
  <2>2. CASE \/ LookUpCredential \/ DropTracked \/ MintCredential
             \/ RetirePrevious \/ PersistCredential \/ UndoCredential
    BY <2>2 DEF LookUpCredential, KeepCredential, DropTracked, MintCredential,
                RetirePrevious, PersistCredential, UndoCredential
  <2>3. CASE \/ RefuseNamespace \/ CheckSecret \/ PutSecret
             \/ PersistSecretRef
             \/ ResolveExternalPrincipal \/ GrantBucket \/ AllGranted
             \/ ClearRotateAnnotation \/ Finish
    BY <2>3 DEF RefuseNamespace, CheckSecret, PutSecret, PersistSecretRef,
                Finish, GrantBucket,
                ResolveExternalPrincipal, AllGranted, ClearRotateAnnotation
  <2>4. CASE \/ RevokeGranted \/ RevokeRefs \/ TerminateCredential
             \/ Unfinalize
    BY <2>4 DEF RevokeGranted, RevokeRefs, TerminateCredential, Unfinalize
  <2> QED BY <1>1, <2>1, <2>2, <2>3, <2>4 DEF Pass
<1>2. CASE Crash \/ Sync \/ Users
  BY <1>2 DEF Crash, Sync, SyncAccess, SyncSecret, Users, EditAccess,
              EditSecret, BucketController, BucketChanges, ReadPolicy,
              WritePolicy, RestartWithNamespaces
<1> QED BY <1>1, <1>2 DEF Next

LEMMA AccountStep == TypeOK /\ AccountInv /\ [Next]_vars => AccountInv'
<1> SUFFICES ASSUME TypeOK, AccountInv, [Next]_vars PROVE AccountInv'
  OBVIOUS
<1> USE DEF AccountInv, OneServiceAccount, OurAccounts
<1>1. CASE UNCHANGED vars
  BY <1>1 DEF vars
<1>2. CASE Next /\ ~AccountActions
  BY <1>2, AccountFrame
<1>3. CASE FindServiceAccount
  <2>1. pc' = "createAccount" => ListedAccounts = {}
    BY <1>3 DEF FindServiceAccount, Goto
  <2>2. accounts' = accounts
    BY <1>3 DEF FindServiceAccount, iamVars
  <2> QED BY <2>1, <2>2 DEF ListedAccounts, Owned
<1>4. CASE CreateServiceAccount
  <2>1. accounts \subseteq {ExternalSA}
    BY <1>4 DEF CreateServiceAccount
  <2>2. pc' # "createAccount"
    BY <1>4 DEF CreateServiceAccount, Goto
  <2>3. accounts' = accounts \/ accounts' = accounts \cup {issuedSA'}
    BY <1>4 DEF CreateServiceAccount
  <2> QED BY <2>1, <2>2, <2>3
<1>5. CASE TerminateAccount
  <2>1. accounts' \subseteq accounts /\ pc' # "createAccount"
    BY <1>5 DEF TerminateAccount, WithoutAccount, Goto, Stop
  <2> QED BY <2>1
<1> QED BY <1>1, <1>2, <1>3, <1>4, <1>5 DEF AccountActions

(* However passes crash, fail, lose answers or read stale copies, IAM never  *)
(* has two service accounts with this object's ownership label.              *)
THEOREM NeverTwoServiceAccounts == Spec => []OneServiceAccount
<1>1. Init => AccountInv
  BY DEF Init, AccountInv, OneServiceAccount, OurAccounts
<1>2. AccountInv => OneServiceAccount
  BY DEF AccountInv
<1> QED BY <1>1, <1>2, AccountStep, TypeCorrect, PTL DEF Spec

-----------------------------------------------------------------------------
(* The external service account                                              *)

ForeignActions ==
    \/ FindServiceAccount \/ CreateServiceAccount \/ PersistAccount
    \/ LookUpCredential \/ DropTracked \/ MintCredential
    \/ TerminateCredential \/ TerminateAccount

(* Every other step deletes at most, and enters none of the phases.          *)
LEMMA ForeignFrame ==
    ASSUME Next, ~ForeignActions
    PROVE  /\ accounts' = accounts /\ creds' \subseteq creds
           /\ pc' \in OnAccount \cup {"dropAccount"}
                => UNCHANGED <<pc, obj, run>>
<1> USE DEF iamVars, workVars, Goto, Stop, ForeignActions, OnAccount
<1>1. CASE Pass
  <2>1. CASE \/ AddFinalizer \/ StartReconcile \/ StartTerminate
             \/ RefuseReconcile \/ WaitForBucket \/ Progress
             \/ SetErrorCondition
    BY <2>1 DEF AddFinalizer, StartReconcile, StartTerminate, RefuseReconcile,
                WaitForBucket, Progress, SetErrorCondition
  <2>2. CASE RetirePrevious \/ PersistCredential \/ UndoCredential
    BY <2>2 DEF RetirePrevious, PersistCredential, UndoCredential,
                DeleteOrLog, Deleted
  <2>3. CASE \/ RefuseNamespace \/ CheckSecret \/ PutSecret
             \/ PersistSecretRef
             \/ ResolveExternalPrincipal \/ GrantBucket \/ AllGranted
             \/ ClearRotateAnnotation \/ Finish
    BY <2>3 DEF RefuseNamespace, CheckSecret, PutSecret, PersistSecretRef,
                Finish, GrantBucket,
                ResolveExternalPrincipal, AllGranted, ClearRotateAnnotation
  <2>4. CASE RevokeGranted \/ RevokeRefs \/ Unfinalize
    BY <2>4 DEF RevokeGranted, RevokeRefs, Unfinalize
  <2> QED BY <1>1, <2>1, <2>2, <2>3, <2>4 DEF Pass
<1>2. CASE Crash \/ Sync \/ Users
  BY <1>2 DEF Crash, Sync, SyncAccess, SyncSecret, Users, EditAccess,
              EditSecret, BucketController, BucketChanges, ReadPolicy,
              WritePolicy, RestartWithNamespaces
<1> QED BY <1>1, <1>2 DEF Next

LEMMA ForeignStep == TypeOK /\ ForeignInv /\ [Next]_vars => ForeignInv'
<1> SUFFICES ASSUME TypeOK, ForeignInv, [Next]_vars PROVE ForeignInv'
  OBVIOUS
<1> USE DEF ForeignInv, ForeignAccountUntouched, OnAccount
<1>1. CASE UNCHANGED vars
  BY <1>1 DEF vars
<1>2. CASE Next /\ ~ForeignActions
  BY <1>2, ForeignFrame
<1>3. CASE FindServiceAccount
  <2>1. /\ UNCHANGED <<accounts, creds, obj>>
        /\ pc' \in {"persistAccount", "createAccount", "degrade"}
    BY <1>3 DEF FindServiceAccount, iamVars, Goto
  <2>2. pc' = "persistAccount" => run'.sa # ExternalSA
    BY <1>3 DEF FindServiceAccount, Goto, TypeOK, Locals, ListedAccounts, Owned
  <2> QED BY <2>1, <2>2
<1>4. CASE CreateServiceAccount
  <2>1. /\ UNCHANGED <<creds, obj>> /\ accounts \subseteq accounts'
        /\ pc' \in {"persistAccount", "degrade"}
    BY <1>4 DEF CreateServiceAccount, Goto
  <2>2. pc' = "persistAccount" => run'.sa = issuedSA + 1
    BY <1>4 DEF CreateServiceAccount, Goto, TypeOK, Locals
  <2>3. issuedSA + 1 # ExternalSA
    BY IdentityAssumption, BoundsAssumption DEF TypeOK
  <2> QED BY <2>1, <2>2, <2>3
<1>5. CASE PersistAccount \/ LookUpCredential
  <2>1. /\ UNCHANGED <<accounts, creds>>
        /\ pc \in OnAccount /\ pc' # "dropAccount"
    BY <1>5 DEF PersistAccount, LookUpCredential, KeepCredential, iamVars,
                Goto, Stop
  <2>2. pc' \in OnAccount => run'.sa = run.sa
    BY <1>5 DEF PersistAccount, LookUpCredential, KeepCredential, Goto, Stop,
                TypeOK, Locals
  <2> QED BY <2>1, <2>2
<1>6. CASE DropTracked
  <2>1. /\ UNCHANGED <<accounts, run>> /\ creds' \subseteq creds
        /\ pc' \in {"mint", "degrade"} /\ pc \in OnAccount
    BY <1>6 DEF DropTracked, Deleted, Goto
  <2> QED BY <2>1
<1>7. CASE MintCredential
  <2>1. /\ UNCHANGED accounts /\ pc = "mint"
        /\ creds' \subseteq creds \cup {[id |-> issuedCred', sa |-> run.sa]}
        /\ pc' \in {"retire", "persistCredential", "degrade"}
    BY <1>7 DEF MintCredential, Goto
  <2> QED BY <2>1
<1>8. CASE TerminateCredential
  <2>1. UNCHANGED accounts /\ creds' \subseteq creds
    BY <1>8 DEF TerminateCredential, Deleted
  <2>2. pc' = "dropAccount" => obj'.status.sa # ExternalSA
    BY <1>8 DEF TerminateCredential, Goto, Owned
  <2>3. pc' \notin OnAccount
    BY <1>8 DEF TerminateCredential, Goto
  <2> QED BY <2>1, <2>2, <2>3
<1>9. CASE TerminateAccount
  <2>1. /\ pc = "dropAccount" /\ pc' \in {"unfinalize", "idle"}
        /\ creds' \subseteq creds
        /\ accounts' = accounts \/ accounts' = accounts \ {obj.status.sa}
    BY <1>9 DEF TerminateAccount, WithoutAccount, Goto, Stop
  <2> QED BY <2>1
<1> QED BY <1>1, <1>2, <1>3, <1>4, <1>5, <1>6, <1>7, <1>8, <1>9
        DEF ForeignActions

(* Whatever the mode switches in between, the service account of an external *)
(* principal never gets a credential and is never deleted.                   *)
THEOREM ForeignAccountNeverTouched == Spec => []ForeignAccountUntouched
<1>1. Init => ForeignInv
  BY DEF Init, ForeignInv, ForeignAccountUntouched, OnAccount
<1>2. ForeignInv => ForeignAccountUntouched
  BY DEF ForeignInv
<1> QED BY <1>1, <1>2, ForeignStep, TypeCorrect, PTL DEF Spec

-----------------------------------------------------------------------------
(* The statements for which this controller answers                          *)

LEMMA StandingFrame ==
    ASSUME statements' = statements, undone'.grants = undone.grants
    PROVE  Standing' = Standing
BY DEF Standing, Overwritten

PolicyActions == GrantBucket \/ RevokeGranted \/ RevokeRefs \/ BucketController

LEMMA PolicyFrame ==
    ASSUME TypeOK, Next, ~PolicyActions
    PROVE  /\ UNCHANGED <<statements, bucketCR>>
           /\ undone'.grants = undone.grants
<1> USE DEF othersVars, PolicyActions
<1>1. CASE Pass
  <2>1. CASE \/ AddFinalizer \/ StartReconcile \/ StartTerminate
             \/ RefuseReconcile \/ WaitForBucket \/ Progress
             \/ SetErrorCondition \/ FindServiceAccount
             \/ CreateServiceAccount \/ PersistAccount
    BY <2>1 DEF AddFinalizer, StartReconcile, StartTerminate, RefuseReconcile,
                WaitForBucket, Progress, SetErrorCondition,
                FindServiceAccount, CreateServiceAccount, PersistAccount
  <2>2. CASE \/ LookUpCredential \/ RefuseNamespace \/ DropTracked
             \/ MintCredential \/ RetirePrevious
             \/ PersistCredential \/ UndoCredential
    BY <2>2 DEF LookUpCredential, RefuseNamespace, DropTracked, MintCredential,
                RetirePrevious, PersistCredential, UndoCredential
  <2>3. CASE PutSecret
    BY <2>3 DEF PutSecret, WriteSecret, TypeOK
  <2>4. CASE \/ CheckSecret \/ PersistSecretRef
             \/ ResolveExternalPrincipal \/ AllGranted
             \/ ClearRotateAnnotation \/ Finish
    BY <2>4 DEF CheckSecret, PersistSecretRef, Finish,
                ResolveExternalPrincipal, AllGranted, ClearRotateAnnotation
  <2>5. CASE TerminateCredential \/ TerminateAccount \/ Unfinalize
    BY <2>5 DEF TerminateCredential, TerminateAccount, Unfinalize
  <2> QED BY <1>1, <2>1, <2>2, <2>3, <2>4, <2>5 DEF Pass
<1>2. CASE Crash \/ Sync \/ EditAccess \/ RestartWithNamespaces
  BY <1>2 DEF Crash, Sync, SyncAccess, SyncSecret, EditAccess,
              RestartWithNamespaces
<1>3. CASE EditSecret
  BY <1>3 DEF EditSecret, TypeOK
<1> QED BY <1>1, <1>2, <1>3 DEF Next, Users

LEMMA OthersStand ==
    ASSUME TypeOK, Next, ~PolicyActions
    PROVE  Standing' = Standing
BY PolicyFrame, StandingFrame

(* Terminate removes what it rewrites, a pass grants what it rewrites.       *)
LEMMA RewriteStands ==
    ASSUME TypeOK, NEW b, NEW S, Rewrite(b, S),
           \A s : s.bucket # b => (s \in S <=> s \in statements)
    PROVE  Standing' = {s \in Standing : s.bucket # b}
                       \cup {s \in S : s.bucket = b}
BY DEF Rewrite, Standing, Overwritten, TypeOK

LEMMA RemovalStands ==
    ASSUME TypeOK, NEW b, Rewrite(b, Removed(b))
    PROVE  Standing' = {s \in Standing : s.bucket # b}
BY RewriteStands DEF Removed

LEMMA GrantStands ==
    ASSUME TypeOK, NEW b, NEW p, Rewrite(b, Upserted(b, p))
    PROVE  Standing' = {s \in Standing : s.bucket # b}
                       \cup {[bucket |-> b, principal |-> p]}
BY RewriteStands DEF Upserted

(* The Bucket controller takes the statements of a bucket away, or rewrites  *)
(* them and has to answer for them.                                          *)
LEMMA BucketControllerStands ==
    ASSUME TypeOK, BucketController
    PROVE  \/ Standing' = Standing
           \/ \E b \in Buckets : Standing' = {s \in Standing : s.bucket # b}
<1>1. CASE BucketChanges
  <2>1. PICK b \in Buckets :
           statements' = {s \in statements : s.bucket = b =>
                             bucketCR'[b] \in {"pending", "ready"}}
    BY <1>1 DEF BucketChanges
  <2>2. undone' = undone
    BY <1>1 DEF BucketChanges, othersVars
  <2> QED BY <2>1, <2>2 DEF Standing, Overwritten
<1>2. CASE ReadPolicy
  BY <1>2, StandingFrame DEF ReadPolicy
<1>3. CASE WritePolicy
  <2>1. PICK c \in copies :
           LET restored == Removed(c.bucket)
                           \cup Granting(c.bucket, c.principals) IN
           \/ /\ statements' = restored
              /\ undone' = [undone EXCEPT !.grants =
                                @ \cup IF restored = statements THEN {}
                                       ELSE {c.bucket}]
           \/ UNCHANGED <<statements, undone>>
    BY <1>3 DEF WritePolicy
  <2> DEFINE restored == Removed(c.bucket)
                         \cup Granting(c.bucket, c.principals)
  <2>2. CASE UNCHANGED <<statements, undone>>
    BY <2>2, StandingFrame
  <2>3. CASE statements' = statements /\ undone' = [undone EXCEPT !.grants = @]
    BY <2>3, StandingFrame DEF TypeOK
  <2>4. CASE /\ statements' = restored
             /\ undone' = [undone EXCEPT !.grants = @ \cup {c.bucket}]
    <3>1. /\ c.bucket \in Buckets
          /\ \A s \in Granting(c.bucket, c.principals) : s.bucket = c.bucket
      BY DEF TypeOK, Granting
    <3>2. undone'.grants = undone.grants \cup {c.bucket}
      BY <2>4 DEF TypeOK
    <3>3. Standing' = {s \in Standing : s.bucket # c.bucket}
      BY <2>4, <3>1, <3>2 DEF Standing, Overwritten, Removed
    <3> QED BY <3>1, <3>3
  <2> QED BY <2>1, <2>2, <2>3, <2>4
<1> QED BY <1>1, <1>2, <1>3 DEF BucketController

LEMMA OutsideStands ==
    ASSUME TypeOK, Crash \/ Sync \/ Users
    PROVE  Standing' \subseteq Standing
<1>1. CASE Crash \/ Sync \/ EditAccess \/ RestartWithNamespaces
  BY <1>1, StandingFrame DEF Crash, Sync, SyncAccess, SyncSecret, EditAccess,
                             RestartWithNamespaces, othersVars
<1>2. CASE EditSecret
  BY <1>2, StandingFrame DEF EditSecret, TypeOK
<1> QED BY <1>1, <1>2, BucketControllerStands DEF Users

-----------------------------------------------------------------------------
(* Deletion leaves nothing that was recorded                                 *)

LEMMA PublishEffect ==
    ASSUME NEW o, Publish(o)
    PROVE  ba' = o /\ baCache' \in {baCache, ba'}
BY DEF Publish

LEMMA StatusWriteEffect ==
    ASSUME TypeOK, NEW s \in Status, Persisted(s) \/ NotPersisted(s)
    PROVE  /\ ba'.phase = ba.phase /\ ba'.finalizer = ba.finalizer
           /\ baCache' \in {baCache, ba'}
           /\ ba' # ba => ba.phase # "gone"
<1> DEFINE o == [ba EXCEPT !.status = s]
<1>1. o.phase = ba.phase /\ o.finalizer = ba.finalizer
  BY DEF TypeOK, AccessObject
<1>2. CASE CacheIsCurrent /\ Publish(o)
  BY <1>1, <1>2, PublishEffect DEF CacheIsCurrent
<1>3. CASE UNCHANGED <<ba, baCache>>
  BY <1>3
<1> QED BY <1>2, <1>3 DEF Persisted, NotPersisted, apiVars

StatusWriters == WaitForBucket \/ Progress \/ SetErrorCondition
                 \/ PersistAccount \/ PersistCredential \/ PersistSecretRef
                 \/ Finish

(* These steps write a status, and a pass goes on only if it was accepted.   *)
LEMMA StatusWritersWrite ==
    ASSUME TypeOK, StatusWriters
    PROVE  /\ \E s \in Status : Persisted(s) \/ NotPersisted(s)
           /\ pc # "idle"
           /\ pc' \in Reconciling => pc \in Reconciling \/ ba.phase # "gone"
<1> USE DEF Goto, Stop
<1>1. obj.status \in Status
  BY DEF TypeOK, AccessObject
<1>2. /\ Progressing(obj).status \in Status
      /\ [obj EXCEPT !.status.cond = "Degraded"].status \in Status
      /\ [obj.status EXCEPT !.cond = "Available"] \in Status
  BY CondType DEF TypeOK, Progressing, Conditions
<1>3. /\ [obj EXCEPT !.status.sa = run.sa,
                     !.status.principal = run.sa].status \in Status
      /\ [obj EXCEPT !.status.cred = run.cred].status \in Status
  BY DEF TypeOK, AccessObject, Status, Locals
<1>4. CASE WaitForBucket \/ Finish
  BY <1>2, <1>4 DEF WaitForBucket, Finish, Reconciling
<1>5. CASE Progress \/ SetErrorCondition
  BY <1>2, <1>5 DEF Progress, SetErrorCondition, Reconciling, Persisted,
                    CacheIsCurrent
<1>6. CASE PersistAccount \/ PersistCredential \/ PersistSecretRef
  BY <1>1, <1>3, <1>6 DEF PersistAccount, PersistCredential, PersistSecretRef,
                          Reconciling, Phases
<1> QED BY <1>4, <1>5, <1>6 DEF StatusWriters

(* What a pass may do to the object, beside adding and removing the          *)
(* finalizer: status and annotation, while the object exists.                *)
LEMMA PassKeepsLifecycle ==
    ASSUME TypeOK, Pass, ~AddFinalizer, ~Unfinalize
    PROVE  /\ ba'.phase = ba.phase /\ ba'.finalizer = ba.finalizer
           /\ baCache' \in {baCache, ba'}
           /\ ba' # ba => pc # "idle" /\ ba.phase # "gone"
           /\ (pc = "idle" /\ pc' # "idle") => baCache.finalizer
           /\ pc' \in Reconciling => pc \in Reconciling \/ ba.phase # "gone"
<1> USE DEF apiVars, workVars, Goto, Stop
<1>1. CASE StatusWriters
  BY <1>1, StatusWritersWrite, StatusWriteEffect
<1>2. CASE ClearRotateAnnotation
  <2> DEFINE cleared == [ba EXCEPT !.rotate = FALSE]
  <2>1. cleared.phase = ba.phase /\ cleared.finalizer = ba.finalizer
    BY DEF TypeOK, AccessObject
  <2>2. \/ UNCHANGED <<ba, baCache>>
        \/ CacheIsCurrent /\ Publish(cleared)
    BY <1>2 DEF ClearRotateAnnotation
  <2>3. pc = "clearRotate"
    BY <1>2 DEF ClearRotateAnnotation
  <2> QED BY <2>1, <2>2, <2>3, PublishEffect
          DEF CacheIsCurrent, Reconciling, Phases
<1>3. CASE StartReconcile \/ StartTerminate \/ RefuseReconcile
  BY <1>3 DEF StartReconcile, StartTerminate, RefuseReconcile, Reconciling
<1>4. CASE \/ FindServiceAccount \/ CreateServiceAccount
           \/ LookUpCredential \/ DropTracked \/ MintCredential
           \/ RetirePrevious \/ UndoCredential
  BY <1>4 DEF FindServiceAccount, CreateServiceAccount, LookUpCredential,
              DropTracked, MintCredential, RetirePrevious, UndoCredential,
              Reconciling, Phases
<1>5. CASE \/ RefuseNamespace \/ CheckSecret \/ PutSecret
           \/ ResolveExternalPrincipal
           \/ GrantBucket \/ AllGranted
  BY <1>5 DEF RefuseNamespace, CheckSecret, PutSecret,
              ResolveExternalPrincipal, GrantBucket,
              AllGranted, Reconciling, Phases
<1>6. CASE \/ RevokeGranted \/ RevokeRefs \/ TerminateCredential
           \/ TerminateAccount
  BY <1>6 DEF RevokeGranted, RevokeRefs, TerminateCredential,
              TerminateAccount, Reconciling
<1> QED BY <1>1, <1>2, <1>3, <1>4, <1>5, <1>6 DEF Pass, StatusWriters

(* What a pass may add outside the object, and in which phase.               *)
LEMMA PassAdds ==
    ASSUME TypeOK, Pass
    PROVE  /\ Standing' \subseteq Standing \/ pc = "grant"
           /\ accounts' \subseteq accounts \/ pc = "createAccount"
           /\ creds' \subseteq creds \/ pc = "mint"
<1>1. Standing' \subseteq Standing \/ pc = "grant"
  <2>1. CASE RevokeGranted \/ RevokeRefs
    <3>1. \/ UNCHANGED <<statements, undone>>
          \/ \E b : Rewrite(b, Removed(b))
      BY <2>1 DEF RevokeGranted, RevokeRefs
    <3> QED BY <3>1, StandingFrame, RemovalStands
  <2> QED BY <2>1, OthersStand, BucketControllerStands
          DEF GrantBucket, PolicyActions, Next
<1>2. /\ accounts' \subseteq accounts \/ pc = "createAccount"
      /\ creds' \subseteq creds \/ pc = "mint"
  <2> USE DEF iamVars
  <2>1. CASE \/ AddFinalizer \/ StartReconcile \/ StartTerminate
             \/ RefuseReconcile \/ WaitForBucket \/ Progress
             \/ SetErrorCondition \/ PersistAccount
    BY <2>1 DEF AddFinalizer, StartReconcile, StartTerminate, RefuseReconcile,
                WaitForBucket, Progress, SetErrorCondition, PersistAccount
  <2>2. CASE \/ FindServiceAccount \/ CreateServiceAccount
             \/ LookUpCredential \/ DropTracked \/ MintCredential
             \/ RetirePrevious \/ PersistCredential \/ UndoCredential
    BY <2>2 DEF FindServiceAccount, CreateServiceAccount, LookUpCredential,
                DropTracked, MintCredential, RetirePrevious, PersistCredential,
                UndoCredential, DeleteOrLog, Deleted
  <2>3. CASE \/ RefuseNamespace \/ CheckSecret \/ PutSecret
             \/ PersistSecretRef
             \/ ResolveExternalPrincipal \/ GrantBucket \/ AllGranted
             \/ ClearRotateAnnotation \/ Finish
    BY <2>3 DEF RefuseNamespace, CheckSecret, PutSecret, PersistSecretRef,
                GrantBucket, Finish,
                ResolveExternalPrincipal, AllGranted, ClearRotateAnnotation
  <2>4. CASE \/ RevokeGranted \/ RevokeRefs \/ TerminateCredential
             \/ TerminateAccount \/ Unfinalize
    BY <2>4 DEF RevokeGranted, RevokeRefs, TerminateCredential, Deleted,
                TerminateAccount, WithoutAccount, Unfinalize
  <2> QED BY <2>1, <2>2, <2>3, <2>4 DEF Pass
<1> QED BY <1>1, <1>2

LEMMA HomeStep == TypeOK /\ HomeInv /\ [Next]_vars => HomeInv'
<1> SUFFICES ASSUME TypeOK, HomeInv, [Next]_vars PROVE HomeInv'
  OBVIOUS
<1> USE DEF HomeInv, OnAccount
<1>1. CASE UNCHANGED vars
  BY <1>1 DEF vars
<1>2. CASE Next /\ ~ForeignActions
  BY <1>2, ForeignFrame
<1>3. CASE FindServiceAccount
  <2>1. /\ UNCHANGED <<accounts, creds>>
        /\ pc' \in {"persistAccount", "createAccount", "degrade"}
    BY <1>3 DEF FindServiceAccount, iamVars, Goto
  <2>2. pc' = "persistAccount" => run'.sa \in accounts
    BY <1>3 DEF FindServiceAccount, Goto, TypeOK, Locals, ListedAccounts, Owned
  <2> QED BY <2>1, <2>2
<1>4. CASE CreateServiceAccount
  <2>1. /\ UNCHANGED creds /\ accounts \subseteq accounts'
        /\ pc' \in {"persistAccount", "degrade"}
    BY <1>4 DEF CreateServiceAccount, Goto
  <2>2. pc' = "persistAccount" => run'.sa = issuedSA' /\ issuedSA' \in accounts'
    BY <1>4 DEF CreateServiceAccount, Goto, TypeOK, Locals
  <2> QED BY <2>1, <2>2
<1>5. CASE PersistAccount \/ LookUpCredential
  <2>1. UNCHANGED <<accounts, creds>> /\ pc \in OnAccount
    BY <1>5 DEF PersistAccount, LookUpCredential, iamVars
  <2>2. pc' \in OnAccount => run'.sa = run.sa
    BY <1>5 DEF PersistAccount, LookUpCredential, KeepCredential, Goto, Stop,
                TypeOK, Locals
  <2> QED BY <2>1, <2>2
<1>6. CASE DropTracked
  <2>1. /\ UNCHANGED <<accounts, run>> /\ creds' \subseteq creds
        /\ pc \in OnAccount
    BY <1>6 DEF DropTracked, Deleted
  <2> QED BY <2>1
<1>7. CASE MintCredential
  <2>1. /\ UNCHANGED accounts /\ pc = "mint"
        /\ creds' \subseteq creds \cup {[id |-> issuedCred', sa |-> run.sa]}
        /\ pc' \in {"retire", "persistCredential", "degrade"}
    BY <1>7 DEF MintCredential, Goto
  <2> QED BY <2>1
<1>8. CASE TerminateCredential
  <2>1. /\ UNCHANGED accounts /\ creds' \subseteq creds
        /\ pc' \notin OnAccount
    BY <1>8 DEF TerminateCredential, Deleted, Goto
  <2> QED BY <2>1
<1>9. CASE TerminateAccount
  <2>1. /\ pc' \in {"unfinalize", "idle"}
        /\ \/ UNCHANGED <<accounts, creds>>
           \/ /\ accounts' = accounts \ {obj.status.sa}
              /\ creds' = {c \in creds : c.sa # obj.status.sa}
    BY <1>9 DEF TerminateAccount, WithoutAccount, Goto, Stop
  <2> QED BY <2>1
<1> QED BY <1>1, <1>2, <1>3, <1>4, <1>5, <1>6, <1>7, <1>8, <1>9
        DEF ForeignActions

TerminateActions == StartTerminate \/ RevokeGranted \/ RevokeRefs
                    \/ TerminateCredential \/ TerminateAccount

(* Other steps neither enter Terminate nor move within it.                   *)
LEMMA TerminateFrame ==
    ASSUME Next, ~TerminateActions
    PROVE  pc' \in Terminating =>
              UNCHANGED <<pc, obj, run, accounts>>
<1> USE DEF iamVars, workVars, Goto, Stop, Terminating, TerminateActions
<1>1. CASE Pass
  <2>1. CASE \/ AddFinalizer \/ StartReconcile \/ RefuseReconcile
             \/ WaitForBucket \/ Progress \/ SetErrorCondition
             \/ PersistAccount
    BY <2>1 DEF AddFinalizer, StartReconcile, RefuseReconcile, WaitForBucket,
                Progress, SetErrorCondition, PersistAccount
  <2>2. CASE \/ FindServiceAccount \/ CreateServiceAccount
             \/ LookUpCredential \/ DropTracked \/ MintCredential
             \/ RetirePrevious \/ PersistCredential \/ UndoCredential
    BY <2>2 DEF FindServiceAccount, CreateServiceAccount, LookUpCredential,
                KeepCredential, DropTracked, MintCredential, RetirePrevious,
                PersistCredential, UndoCredential
  <2>3. CASE \/ RefuseNamespace \/ CheckSecret \/ PutSecret
             \/ PersistSecretRef
             \/ ResolveExternalPrincipal \/ GrantBucket \/ AllGranted
             \/ ClearRotateAnnotation \/ Finish \/ Unfinalize
    BY <2>3 DEF RefuseNamespace, CheckSecret, PutSecret, PersistSecretRef,
                Finish, GrantBucket,
                ResolveExternalPrincipal, AllGranted, ClearRotateAnnotation,
                Unfinalize
  <2> QED BY <1>1, <2>1, <2>2, <2>3 DEF Pass
<1>2. CASE Crash \/ Sync \/ Users
  BY <1>2 DEF Crash, Sync, SyncAccess, SyncSecret, Users, EditAccess,
              EditSecret, BucketController, BucketChanges, ReadPolicy,
              WritePolicy, RestartWithNamespaces
<1> QED BY <1>1, <1>2 DEF Next

LEMMA TerminateStep == TypeOK /\ TerminateInv /\ [Next]_vars => TerminateInv'
<1> SUFFICES ASSUME TypeOK, TerminateInv, [Next]_vars PROVE TerminateInv'
  OBVIOUS
<1> USE DEF TerminateInv, OurAccounts, Managed, Goto, Stop
<1>1. CASE UNCHANGED vars
  BY <1>1, StandingFrame DEF vars
<1>2. CASE Next /\ ~TerminateActions
  <2>1. Standing' \subseteq Standing \/ GrantBucket
    BY <1>2, OthersStand, BucketControllerStands
       DEF TerminateActions, PolicyActions
  <2>2. pc' \in Terminating => UNCHANGED <<pc, obj, run, accounts>>
    BY <1>2, TerminateFrame
  <2>3. pc' \in Terminating => ~GrantBucket
    BY <2>2 DEF GrantBucket, Terminating
  <2> QED BY <2>1, <2>2, <2>3 DEF Terminating
<1>3. CASE StartTerminate
  <2>1. run'.todo = obj'.status.granted
    BY <1>3 DEF StartTerminate, NoLocals
  <2>2. pc' = "revokeGranted"
    BY <1>3 DEF StartTerminate
  <2> QED BY <2>1, <2>2, <1>3 DEF TypeOK, StartTerminate
<1>4. CASE RevokeGranted
  <2>1. PICK b : /\ Rewrite(b, Removed(b)) /\ UNCHANGED <<pc, obj>>
                 /\ run' = [run EXCEPT !.todo = @ \ {b}]
        \/ pc' = "idle"
        \/ /\ run.todo = {} /\ pc' = "revokeRefs"
           /\ UNCHANGED <<statements, undone, obj>>
    BY <1>4 DEF RevokeGranted
  <2>2. pc = "revokeGranted"
    BY <1>4 DEF RevokeGranted
  <2>3. CASE /\ Rewrite(b, Removed(b)) /\ UNCHANGED <<pc, obj>>
             /\ run' = [run EXCEPT !.todo = @ \ {b}]
    <3>1. run'.todo = run.todo \ {b}
      BY <2>3 DEF TypeOK, Locals
    <3>2. Standing' = {s \in Standing : s.bucket # b}
      BY <2>3, RemovalStands
    <3> QED BY <2>2, <2>3, <3>1, <3>2
  <2>4. CASE pc' = "idle"
    BY <2>4
  <2>5. CASE /\ run.todo = {} /\ pc' = "revokeRefs"
             /\ UNCHANGED <<statements, undone, obj>>
    BY <2>2, <2>5, StandingFrame
  <2> QED BY <2>1, <2>3, <2>4, <2>5
<1>5. CASE RevokeRefs
  <2>1. /\ UNCHANGED obj /\ Standing' \subseteq Standing
        /\ pc = "revokeRefs" /\ UNCHANGED accounts
        /\ pc' \in {"revokeRefs", "dropCred", "unfinalize"}
    <3>1. \/ UNCHANGED <<statements, undone>>
          \/ \E b : Rewrite(b, Removed(b))
      BY <1>5 DEF RevokeRefs
    <3>2. Standing' \subseteq Standing
      BY <3>1, StandingFrame, RemovalStands
    <3> QED BY <1>5, <3>2 DEF RevokeRefs, iamVars
  <2>2. pc' = "unfinalize" => ~Managed(obj) \/ obj.status.sa = NoID
    BY <1>5 DEF RevokeRefs
  <2>3. NoID \notin OurAccounts
    BY Sentinels DEF TypeOK
  <2> QED BY <2>1, <2>2, <2>3
<1>6. CASE TerminateCredential
  <2>1. /\ UNCHANGED <<statements, undone, accounts>> /\ pc = "dropCred"
        /\ pc' \in {"dropAccount", "unfinalize", "idle"}
        /\ pc' # "idle" => UNCHANGED obj
        /\ pc' = "unfinalize" => ~Owned(obj.status.sa)
    BY <1>6 DEF TerminateCredential, othersVars
  <2> QED BY <2>1, StandingFrame DEF Owned
<1>7. CASE TerminateAccount
  <2>1. /\ UNCHANGED <<statements, undone>> /\ pc = "dropAccount"
        /\ pc' \in {"unfinalize", "idle"}
        /\ pc' = "unfinalize" => /\ UNCHANGED obj
                                 /\ accounts' = accounts \ {obj.status.sa}
    BY <1>7 DEF TerminateAccount, WithoutAccount, othersVars
  <2> QED BY <2>1, StandingFrame
<1> QED BY <1>1, <1>2, <1>3, <1>4, <1>5, <1>6, <1>7 DEF TerminateActions

LEMMA LifecyclePass ==
    TypeOK /\ LifecycleInv /\ TerminateInv /\ Pass => LifecycleInv'
<1> SUFFICES ASSUME TypeOK, LifecycleInv, TerminateInv, Pass
             PROVE  LifecycleInv'
  OBVIOUS
<1>1. CASE AddFinalizer
  <2> DEFINE o == [ba EXCEPT !.finalizer = TRUE]
  <2>1. o.phase = ba.phase /\ o.finalizer
    BY DEF TypeOK, AccessObject
  <2>2. \/ UNCHANGED <<ba, baCache>>
        \/ ba.phase # "gone" /\ Publish(o)
    BY <1>1 DEF AddFinalizer, CacheIsCurrent, apiVars
  <2>3. UNCHANGED <<pc, Standing, accounts>> /\ pc = "idle"
    BY <1>1, StandingFrame DEF AddFinalizer, workVars, iamVars, othersVars
  <2>4. CASE UNCHANGED <<ba, baCache>>
    BY <2>3, <2>4 DEF LifecycleInv, Managed, OurAccounts
  <2>5. CASE ba.phase # "gone" /\ Publish(o)
    <3>1. ba'.phase # "gone" /\ ba'.finalizer
      BY <2>1, <2>5, PublishEffect
    <3> QED BY <3>1, <2>3 DEF LifecycleInv
  <2> QED BY <2>2, <2>4, <2>5
<1>2. CASE Unfinalize
  <2> DEFINE o == [ba EXCEPT !.finalizer = FALSE, !.phase = "gone"]
  <2>1. /\ o.phase = "gone" /\ o.status = ba.status
        /\ o.principalRef = ba.principalRef
    BY DEF TypeOK, AccessObject
  <2>2. /\ UNCHANGED <<Standing, accounts>>
        /\ pc = "unfinalize" /\ pc' = "idle"
    BY <1>2, StandingFrame DEF Unfinalize, Stop, iamVars, othersVars
  <2>3. \/ UNCHANGED <<ba, baCache>>
        \/ obj = ba /\ Publish(o)
    BY <1>2 DEF Unfinalize, UpdateAccepted, apiVars
  <2>4. CASE UNCHANGED <<ba, baCache>>
    BY <2>2, <2>4 DEF LifecycleInv, Managed, OurAccounts, Reconciling
  <2>5. CASE obj = ba /\ Publish(o)
    <3>1. /\ ba'.phase = "gone" /\ ba'.status = obj.status
          /\ ba'.principalRef = obj.principalRef
      BY <2>1, <2>5, PublishEffect
    <3> QED BY <3>1, <2>2 DEF LifecycleInv, TerminateInv, Managed, OurAccounts,
                              Reconciling
  <2> QED BY <2>3, <2>4, <2>5
<1>3. CASE ~AddFinalizer /\ ~Unfinalize
  <2>1. /\ ba'.phase = ba.phase /\ ba'.finalizer = ba.finalizer
        /\ baCache' \in {baCache, ba'}
        /\ ba' # ba => pc # "idle" /\ ba.phase # "gone"
        /\ (pc = "idle" /\ pc' # "idle") => baCache.finalizer
        /\ pc' \in Reconciling => pc \in Reconciling \/ ba.phase # "gone"
    BY <1>3, PassKeepsLifecycle
  <2>2. ASSUME ba'.phase = "gone"
        PROVE  /\ ba' = ba /\ ba.phase = "gone"
               /\ Standing' \subseteq Standing /\ accounts' \subseteq accounts
    <3>1. ba' = ba /\ ba.phase = "gone" /\ pc \notin Reconciling
      BY <2>1, <2>2 DEF LifecycleInv
    <3>2. pc \notin {"grant", "createAccount"}
      BY <3>1 DEF Reconciling, Phases
    <3> QED BY <3>1, <3>2, PassAdds
  <2>3. ba'.phase = "gone" =>
          /\ \A s \in Standing' : s.bucket \notin ba'.status.granted
          /\ Managed(ba)' => ba'.status.sa \notin OurAccounts'
    BY <2>2 DEF LifecycleInv, Managed, OurAccounts
  <2>4. (pc' # "idle" \/ baCache'.finalizer)
          => ba'.finalizer \/ ba'.phase = "gone"
    BY <2>1 DEF LifecycleInv
  <2>5. pc' \in Reconciling => ba'.phase # "gone"
    BY <2>1 DEF LifecycleInv
  <2>6. (ba'.phase # "gone" /\ ~ba'.finalizer)
          => ba'.status.granted = {} /\ ba'.status.sa = NoID
    BY <2>1 DEF LifecycleInv
  <2>7. Reconciling' = Reconciling
    BY DEF Reconciling, Phases
  <2> QED BY <2>3, <2>4, <2>5, <2>6, <2>7 DEF LifecycleInv
<1> QED BY <1>1, <1>2, <1>3

(* An edit of the object changes its spec, or asks for its deletion.         *)
LEMMA EditEffect ==
    ASSUME TypeOK, EditAccess
    PROVE  /\ ba'.status = ba.status /\ ba'.finalizer = ba.finalizer
           /\ baCache' \in {baCache, ba'} /\ ba.phase # "gone"
           /\ \/ ba'.phase = ba.phase
              \/ /\ ba.phase = "live" /\ ba'.principalRef = ba.principalRef
                 /\ ba'.phase = IF ba.finalizer THEN "deleting" ELSE "gone"
<1> DEFINE del == [ba EXCEPT !.phase = IF ba.finalizer THEN "deleting"
                                                      ELSE "gone"]
           Keeps(o) ==
              /\ o.status = ba.status /\ o.finalizer = ba.finalizer
              /\ \/ o.phase = ba.phase
                 \/ /\ ba.phase = "live" /\ o.principalRef = ba.principalRef
                    /\ o.phase = IF ba.finalizer THEN "deleting" ELSE "gone"
<1>1. ba.phase # "gone"
  BY DEF EditAccess
<1>2. ASSUME NEW S, Publish([ba EXCEPT !.refs = S])
      PROVE  \E o : Publish(o) /\ Keeps(o)
  <2>1. Keeps([ba EXCEPT !.refs = S])
    BY DEF TypeOK, AccessObject
  <2> QED BY <1>2, <2>1, Zenon
<1>3. ASSUME NEW p, Publish([ba EXCEPT !.principalRef = p])
      PROVE  \E o : Publish(o) /\ Keeps(o)
  <2>1. Keeps([ba EXCEPT !.principalRef = p])
    BY DEF TypeOK, AccessObject
  <2> QED BY <1>3, <2>1, Zenon
<1>4. ASSUME NEW r, Publish([ba EXCEPT !.rotate = r])
      PROVE  \E o : Publish(o) /\ Keeps(o)
  <2>1. Keeps([ba EXCEPT !.rotate = r])
    BY DEF TypeOK, AccessObject
  <2> QED BY <1>4, <2>1, Zenon
<1>5. ASSUME Publish([ba EXCEPT !.suspended = ~@])
      PROVE  \E o : Publish(o) /\ Keeps(o)
  <2>1. Keeps([ba EXCEPT !.suspended = ~@])
    BY DEF TypeOK, AccessObject
  <2> QED BY <1>5, <2>1, Zenon
<1>6. ASSUME ba.phase = "live", Publish(del)
      PROVE  \E o : Publish(o) /\ Keeps(o)
  <2>1. Keeps(del)
    BY <1>6 DEF TypeOK, AccessObject
  <2> QED BY <1>6, <2>1, Zenon
<1>7. \/ \E S : Publish([ba EXCEPT !.refs = S])
      \/ \E p : Publish([ba EXCEPT !.principalRef = p])
      \/ \E r : Publish([ba EXCEPT !.rotate = r])
      \/ Publish([ba EXCEPT !.suspended = ~@])
      \/ ba.phase = "live" /\ Publish(del)
  BY Zenon DEF EditAccess
<1>8. PICK o : Publish(o) /\ Keeps(o)
  BY <1>2, <1>3, <1>4, <1>5, <1>6, <1>7, Zenon
<1> QED BY <1>1, <1>8, PublishEffect

LEMMA LifecycleOthers ==
    TypeOK /\ LifecycleInv /\ (Crash \/ Sync \/ Users) => LifecycleInv'
<1> SUFFICES ASSUME TypeOK, LifecycleInv, Crash \/ Sync \/ Users
             PROVE  LifecycleInv'
  OBVIOUS
<1> USE DEF iamVars, workVars, apiVars
<1>1. /\ UNCHANGED accounts /\ Standing' \subseteq Standing
      /\ pc' \in {pc, "idle"}
  <2>1. UNCHANGED accounts /\ pc' \in {pc, "idle"}
    BY DEF Crash, Sync, SyncAccess, SyncSecret, Users, EditAccess, EditSecret,
           BucketController, BucketChanges, ReadPolicy, WritePolicy,
           RestartWithNamespaces, Stop
  <2> QED BY <2>1, OutsideStands
<1>2. CASE ba' = ba /\ baCache' \in {baCache, ba'}
  BY <1>1, <1>2 DEF LifecycleInv, Managed, OurAccounts, Reconciling, Phases
<1>3. CASE EditAccess
  <2>2. /\ ba'.status = ba.status /\ ba'.finalizer = ba.finalizer
        /\ baCache' \in {baCache, ba'} /\ ba.phase # "gone"
        /\ ba'.phase = "gone" => ba.phase = "gone" \/ ~ba.finalizer
    BY <1>3, EditEffect
  <2>3. UNCHANGED pc
    BY <1>3 DEF EditAccess
  <2>4. ba'.phase = "gone" => /\ ba'.status.granted = {}
                              /\ ba'.status.sa = NoID /\ pc = "idle"
    BY <2>2 DEF LifecycleInv
  <2>5. NoID \notin OurAccounts'
    BY <1>1, Sentinels DEF OurAccounts, TypeOK
  <2> QED BY <2>2, <2>3, <2>4, <2>5 DEF LifecycleInv, Reconciling, Phases
<1>4. CASE \/ Crash \/ Sync \/ EditSecret \/ BucketController
           \/ RestartWithNamespaces
  BY <1>2, <1>4 DEF Crash, Sync, SyncAccess, SyncSecret, EditSecret,
                    BucketController, BucketChanges, ReadPolicy, WritePolicy,
                    RestartWithNamespaces
<1> QED BY <1>3, <1>4 DEF Users

(* When the object is gone, no bucket it recorded as granted keeps its       *)
(* statement, and the service account it recorded is gone with every         *)
(* credential on it: for any lag of the informers, any crash and any failed  *)
(* or half-answered call.                                                    *)
THEOREM DeletionIsClean == Spec => []CleanDeletion
<1> DEFINE IInv == /\ TypeOK /\ ForeignInv /\ HomeInv /\ TerminateInv
                   /\ LifecycleInv
<1>1. Init => IInv
  <2> SUFFICES ASSUME Init PROVE IInv
    OBVIOUS
  <2>1. ba.phase = "live" /\ ba.status = FreshStatus /\ ~ba.finalizer
    BY DEF Init, Created
  <2>2. pc = "idle" /\ baCache = ba /\ creds = {}
    BY DEF Init
  <2>3. ForeignInv
    BY DEF Init, ForeignInv, ForeignAccountUntouched, OnAccount
  <2>4. HomeInv /\ TerminateInv
    BY <2>2 DEF HomeInv, TerminateInv, OnAccount
  <2>5. LifecycleInv
    BY <2>1, <2>2 DEF LifecycleInv, FreshStatus, Reconciling, Managed
  <2> QED BY InitType, <2>3, <2>4, <2>5
<1>2. IInv /\ [Next]_vars => IInv'
  <2> SUFFICES ASSUME IInv, [Next]_vars PROVE IInv'
    OBVIOUS
  <2>1. TypeOK'
    BY PassType, OthersType DEF Next, TypeOK, vars
  <2>2. LifecycleInv'
    <3>1. CASE UNCHANGED vars
      BY <3>1, StandingFrame
         DEF LifecycleInv, vars, Managed, OurAccounts, Reconciling, Phases
    <3>2. CASE Next
      BY <3>2, LifecyclePass, LifecycleOthers DEF Next
    <3> QED BY <3>1, <3>2
  <2> QED BY <2>1, <2>2, ForeignStep, HomeStep, TerminateStep
<1>3. IInv => CleanDeletion
  <2> SUFFICES ASSUME IInv, ba.phase = "gone", Managed(ba)
               PROVE  \A c \in creds : c.sa # ba.status.sa
    BY DEF CleanDeletion, LifecycleInv
  <2>1. \A c \in creds : c.sa \in OurAccounts
    BY DEF ForeignInv, ForeignAccountUntouched, HomeInv, OurAccounts
  <2> QED BY <2>1 DEF LifecycleInv
<1> QED BY <1>1, <1>2, <1>3, PTL DEF Spec

-----------------------------------------------------------------------------
(* Two more invariants that the proofs about components build on             *)

(* An object whose deletion was requested does not come back to life.        *)
LEMMA DeletionStays ==
    ASSUME TypeOK, Next, ba.phase # "live"
    PROVE  ba'.phase # "live"
<1>1. CASE Pass /\ ~AddFinalizer /\ ~Unfinalize
  BY <1>1, PassKeepsLifecycle
<1>2. CASE AddFinalizer
  <2>1. [ba EXCEPT !.finalizer = TRUE].phase = ba.phase
    BY DEF TypeOK, AccessObject
  <2> QED BY <1>2, <2>1, PublishEffect DEF AddFinalizer, apiVars
<1>3. CASE Unfinalize
  <2>1. [ba EXCEPT !.finalizer = FALSE, !.phase = "gone"].phase = "gone"
    BY DEF TypeOK, AccessObject
  <2> QED BY <1>3, <2>1, PublishEffect DEF Unfinalize, apiVars
<1>4. CASE EditAccess
  BY <1>4, EditEffect
<1>5. CASE \/ Crash \/ Sync \/ EditSecret \/ BucketController
           \/ RestartWithNamespaces
  BY <1>5 DEF Crash, Sync, SyncAccess, SyncSecret, EditSecret,
              BucketController, BucketChanges, ReadPolicy, WritePolicy,
              RestartWithNamespaces, apiVars
<1> QED BY <1>1, <1>2, <1>3, <1>4, <1>5 DEF Next, Users

LEMMA DeletionStep == TypeOK /\ DeletionInv /\ [Next]_vars => DeletionInv'
<1> SUFFICES ASSUME TypeOK, DeletionInv, [Next]_vars PROVE DeletionInv'
  OBVIOUS
<1> USE DEF DeletionInv
<1>1. CASE UNCHANGED vars
  BY <1>1 DEF vars, Terminating
<1>2. CASE Next
  <2>1. ba.phase # "live" => ba'.phase # "live"
    BY <1>2, DeletionStays
  <2>2. baCache' \in {baCache, ba, ba'}
    <3>1. CASE Pass /\ ~AddFinalizer /\ ~Unfinalize
      BY <3>1, PassKeepsLifecycle
    <3>2. CASE AddFinalizer \/ Unfinalize
      BY <3>2, PublishEffect DEF AddFinalizer, Unfinalize, apiVars
    <3>3. CASE EditAccess
      BY <3>3, EditEffect
    <3>4. CASE \/ Crash \/ Sync \/ EditSecret \/ BucketController
               \/ RestartWithNamespaces
      BY <3>4 DEF Crash, Sync, SyncAccess, SyncSecret, EditSecret,
                  BucketController, BucketChanges, ReadPolicy, WritePolicy,
                  RestartWithNamespaces, apiVars
    <3> QED BY <1>2, <3>1, <3>2, <3>3, <3>4 DEF Next, Users
  <2>3. pc' \in Terminating => pc \in Terminating \/ baCache.phase # "live"
    <3>1. CASE ~TerminateActions
      BY <1>2, <3>1, TerminateFrame
    <3>2. CASE StartTerminate
      BY <3>2 DEF StartTerminate
    <3>3. CASE \/ RevokeGranted \/ RevokeRefs \/ TerminateCredential
               \/ TerminateAccount
      BY <3>3 DEF RevokeGranted, RevokeRefs, TerminateCredential,
                  TerminateAccount, Terminating
    <3> QED BY <3>1, <3>2, <3>3 DEF TerminateActions
  <2> QED BY <2>1, <2>2, <2>3 DEF Terminating
<1> QED BY <1>1, <1>2

(* Only the minting of a credential uses up an identity.                     *)
LEMMA IssueFrame ==
    ASSUME Next, ~MintCredential
    PROVE  issuedCred' = issuedCred /\ creds' \subseteq creds
<1> USE DEF iamVars
<1>1. CASE Pass
  <2>1. CASE \/ AddFinalizer \/ StartReconcile \/ StartTerminate
             \/ RefuseReconcile \/ WaitForBucket \/ Progress
             \/ SetErrorCondition \/ FindServiceAccount
             \/ CreateServiceAccount \/ PersistAccount
    BY <2>1 DEF AddFinalizer, StartReconcile, StartTerminate, RefuseReconcile,
                WaitForBucket, Progress, SetErrorCondition,
                FindServiceAccount, CreateServiceAccount, PersistAccount
  <2>2. CASE \/ LookUpCredential \/ RefuseNamespace \/ DropTracked
             \/ RetirePrevious \/ PersistCredential \/ UndoCredential
    BY <2>2 DEF LookUpCredential, RefuseNamespace, DropTracked, RetirePrevious,
                PersistCredential, UndoCredential, DeleteOrLog, Deleted
  <2>3. CASE \/ CheckSecret \/ PutSecret \/ PersistSecretRef
             \/ ResolveExternalPrincipal \/ GrantBucket \/ AllGranted
             \/ ClearRotateAnnotation \/ Finish
    BY <2>3 DEF CheckSecret, PutSecret, PersistSecretRef, Finish, GrantBucket,
                ResolveExternalPrincipal, AllGranted, ClearRotateAnnotation
  <2>4. CASE \/ RevokeGranted \/ RevokeRefs \/ TerminateCredential
             \/ TerminateAccount \/ Unfinalize
    BY <2>4 DEF RevokeGranted, RevokeRefs, TerminateCredential, Deleted,
                TerminateAccount, WithoutAccount, Unfinalize
  <2> QED BY <1>1, <2>1, <2>2, <2>3, <2>4 DEF Pass
<1>2. CASE Crash \/ Sync \/ Users
  BY <1>2 DEF Crash, Sync, SyncAccess, SyncSecret, Users, EditAccess,
              EditSecret, BucketController, BucketChanges, ReadPolicy,
              WritePolicy, RestartWithNamespaces
<1> QED BY <1>1, <1>2 DEF Next

LEMMA IssueStep == TypeOK /\ IssueInv /\ [Next]_vars => IssueInv'
<1> SUFFICES ASSUME TypeOK, IssueInv, [Next]_vars PROVE IssueInv'
  OBVIOUS
<1> USE DEF IssueInv
<1>1. CASE UNCHANGED vars
  BY <1>1 DEF vars
<1>2. CASE Next /\ ~MintCredential
  BY <1>2, IssueFrame
<1>3. CASE MintCredential
  <2>1. \/ creds' = creds /\ issuedCred' = issuedCred
        \/ /\ issuedCred' = issuedCred + 1
           /\ creds' = creds \cup {[id |-> issuedCred', sa |-> run.sa]}
    BY <1>3 DEF MintCredential
  <2>2. issuedCred \in Nat /\ \A c \in creds : c.id \in Nat
    BY BoundsAssumption DEF TypeOK, CredentialIDs
  <2> QED BY <2>1, <2>2
<1> QED BY <1>1, <1>2, <1>3
=============================================================================
