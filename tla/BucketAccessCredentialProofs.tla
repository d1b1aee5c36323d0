-------------------- MODULE BucketAccessCredentialProofs --------------------
(***************************************************************************)
(* Theorems about the credentials of BucketAccess: how many of them a      *)
(* manager can lose from sight. The proof is by accounting: StrayInv       *)
(* bounds, at each phase, what is or may become untracked by the faults    *)
(* and edits that paid for it.                                             *)
(***************************************************************************)
EXTENDS BucketAccessProofs, FiniteSetTheorems

-----------------------------------------------------------------------------
(* Counting records by what their identity is not                            *)

Besides(S, ids) == {c \in S : c.id \notin ids}
Count(S, ids) == Cardinality(Besides(S, ids))
Distinct(S) == \A c, d \in S : c.id = d.id => c = d

LEMMA CountType ==
    ASSUME NEW S, IsFiniteSet(S), NEW ids
    PROVE  IsFiniteSet(Besides(S, ids)) /\ Count(S, ids) \in Nat
<1>1. Besides(S, ids) \subseteq S
  BY DEF Besides
<1>2. IsFiniteSet(Besides(S, ids))
  BY <1>1, FS_Subset
<1> QED BY <1>2, FS_CardinalityType DEF Count

LEMMA CountFewer ==
    ASSUME NEW S, IsFiniteSet(S), NEW I, NEW T, NEW J,
           Besides(T, J) \subseteq Besides(S, I)
    PROVE  Count(T, J) <= Count(S, I)
<1>1. IsFiniteSet(Besides(S, I))
  BY CountType
<1> QED BY <1>1, FS_Subset DEF Count

LEMMA CountOneMore ==
    ASSUME NEW S, IsFiniteSet(S), NEW I, NEW r, NEW T, NEW J,
           Besides(T, J) \subseteq Besides(S, I) \cup {r}
    PROVE  Count(T, J) <= Count(S, I) + 1
<1> DEFINE A == Besides(S, I)
           B == Besides(T, J)
<1>1. IsFiniteSet(A) /\ Cardinality(A) \in Nat
  BY CountType DEF Count
<1> HIDE DEF A, B
<1>2. IsFiniteSet(A \cup {r}) /\ Cardinality(A \cup {r}) <= Cardinality(A) + 1
  <2>1. /\ IsFiniteSet(A \cup {r})
        /\ \/ Cardinality(A \cup {r}) = Cardinality(A)
           \/ Cardinality(A \cup {r}) = Cardinality(A) + 1
    BY <1>1, FS_AddElement
  <2> QED BY <1>1, <2>1
<1>3. Cardinality(B) <= Cardinality(A \cup {r}) /\ Cardinality(B) \in Nat
  BY <1>2, FS_Subset, FS_CardinalityType DEF A, B
<1> QED BY <1>1, <1>2, <1>3, FS_CardinalityType DEF Count, A, B

(* One identity more or less that is looked at makes a difference of one.    *)
LEMMA CountBut ==
    ASSUME NEW S, IsFiniteSet(S), Distinct(S), NEW I, NEW J, NEW x,
           I \subseteq J \cup {x}
    PROVE  Count(S, J) <= Count(S, I) + 1
<1>1. CASE \E r \in S : r.id = x
  <2>1. PICK r \in S : r.id = x
    BY <1>1
  <2>2. Besides(S, J) \subseteq Besides(S, I) \cup {r}
    BY <2>1 DEF Besides, Distinct
  <2> QED BY <2>2, CountOneMore
<1>2. CASE \A r \in S : r.id # x
  <2>1. Besides(S, J) \subseteq Besides(S, I)
    BY <1>2 DEF Besides
  <2> QED BY <2>1, CountFewer, CountType
<1> QED BY <1>1, <1>2

-----------------------------------------------------------------------------
(* The object and its cached copy                                            *)

LEMMA StatusPublished ==
    ASSUME "accessLag" \notin Env, TypeOK, CurrentInv, pc # "idle",
           NEW s \in Status
    PROVE  /\ Persisted(s) =>
                 /\ faults' = faults /\ baCache' = ba' /\ ba'.status = s
                 /\ ba'.principalRef = ba.principalRef
           /\ NotPersisted(s) =>
                 /\ faults' = faults + 1 /\ baCache' = ba'
                 /\ ba'.status \in {ba.status, s}
                 /\ ba'.principalRef = ba.principalRef
<1> DEFINE o == [ba EXCEPT !.status = s]
<1>1. o.status = s /\ o.principalRef = ba.principalRef
  BY DEF TypeOK, AccessObject
<1>2. Publish(o) => /\ ba' = o /\ baCache' = ba'
  BY DEF Publish
<1>3. CacheIsCurrent /\ baCache = ba
  BY DEF CacheIsCurrent, CurrentInv
<1> HIDE DEF o
<1>4. Persisted(s) => faults' = faults /\ Publish(o)
  BY DEF Persisted, o
<1>5. NotPersisted(s) => /\ faults' = faults + 1
                         /\ UNCHANGED <<ba, baCache>> \/ Publish(o)
  BY <1>3 DEF NotPersisted, Fail, Lost, apiVars, o
<1> QED BY <1>1, <1>2, <1>3, <1>4, <1>5

LEMMA CurrentPass ==
    ASSUME "accessLag" \notin Env, TypeOK, CurrentInv, Pass
    PROVE  baCache' = ba'
<1> USE DEF apiVars, CurrentInv
<1>1. \A o : Publish(o) => baCache' = ba'
  BY DEF Publish
<1>2. CASE StatusWriters
  <2>1. pc # "idle" /\ \E s \in Status : Persisted(s) \/ NotPersisted(s)
    BY <1>2, StatusWritersWrite
  <2> QED BY <2>1, StatusPublished
<1>3. CASE AddFinalizer \/ ClearRotateAnnotation \/ Unfinalize
  BY <1>1, <1>3 DEF AddFinalizer, ClearRotateAnnotation, Unfinalize
<1>4. CASE \/ StartReconcile \/ StartTerminate \/ RefuseReconcile
           \/ FindServiceAccount \/ CreateServiceAccount
           \/ LookUpCredential \/ DropTracked \/ MintCredential
           \/ RetirePrevious \/ UndoCredential
  BY <1>4 DEF StartReconcile, StartTerminate, RefuseReconcile,
              FindServiceAccount, CreateServiceAccount, LookUpCredential,
              DropTracked, MintCredential, RetirePrevious, UndoCredential
<1>5. CASE \/ RefuseNamespace \/ CheckSecret \/ PutSecret
           \/ ResolveExternalPrincipal \/ GrantBucket \/ AllGranted
           \/ RevokeGranted \/ RevokeRefs \/ TerminateCredential
           \/ TerminateAccount
  BY <1>5 DEF RefuseNamespace, CheckSecret, PutSecret,
              ResolveExternalPrincipal, GrantBucket, AllGranted,
              RevokeGranted, RevokeRefs, TerminateCredential, TerminateAccount
<1> QED BY <1>2, <1>3, <1>4, <1>5 DEF Pass, StatusWriters

LEMMA CurrentStep ==
    ASSUME "accessLag" \notin Env, TypeOK, CurrentInv, [Next]_vars
    PROVE  CurrentInv'
<1> USE DEF CurrentInv
<1>1. CASE UNCHANGED vars
  BY <1>1 DEF vars
<1>2. CASE Pass /\ ~AddFinalizer /\ ~Unfinalize
  <2>1. /\ baCache' = ba' /\ ba'.phase = ba.phase
        /\ ba'.finalizer = ba.finalizer
        /\ (pc = "idle" /\ pc' # "idle") => baCache.finalizer
    BY <1>2, CurrentPass, PassKeepsLifecycle
  <2>2. (pc = "idle" /\ pc' # "idle") => baCache.phase # "gone"
    <3>1. CASE StartReconcile \/ StartTerminate
      BY <3>1 DEF StartReconcile, StartTerminate
    <3>2. CASE ~StartReconcile /\ ~StartTerminate
      <4>1. pc # "idle"
        BY <1>2, <3>2
           DEF Pass, RefuseReconcile, WaitForBucket, Progress,
               SetErrorCondition, FindServiceAccount, CreateServiceAccount,
               PersistAccount, LookUpCredential, RefuseNamespace, DropTracked,
               MintCredential, RetirePrevious, PersistCredential,
               UndoCredential, CheckSecret, PutSecret, PersistSecretRef,
               ResolveExternalPrincipal, GrantBucket, AllGranted,
               ClearRotateAnnotation, Finish, RevokeGranted, RevokeRefs,
               TerminateCredential, TerminateAccount
      <4> QED BY <4>1
    <3> QED BY <3>1, <3>2
  <2> QED BY <2>1, <2>2
<1>3. CASE AddFinalizer
  <2>1. pc' = "idle"
    BY <1>3 DEF AddFinalizer, workVars
  <2> QED BY <1>3, <2>1, CurrentPass DEF Pass
<1>4. CASE Unfinalize
  <2>1. pc' = "idle"
    BY <1>4 DEF Unfinalize, Stop
  <2> QED BY <1>4, <2>1, CurrentPass DEF Pass
<1>5. CASE EditAccess
  <2>1. UNCHANGED pc /\ \E o : Publish(o)
    BY <1>5 DEF EditAccess, workVars
  <2>2. baCache' = ba'
    BY <2>1 DEF Publish
  <2> QED BY <1>5, <2>1, <2>2, EditEffect
<1>6. CASE \/ Crash \/ Sync \/ EditSecret \/ BucketController
           \/ RestartWithNamespaces
  BY <1>6 DEF Crash, Sync, SyncAccess, SyncSecret, EditSecret,
              BucketController, BucketChanges, ReadPolicy, WritePolicy,
              RestartWithNamespaces, apiVars, workVars, Stop
<1> QED BY <1>1, <1>2, <1>3, <1>4, <1>5, <1>6 DEF Next, Users

-----------------------------------------------------------------------------
(* The worker's copy and the account it works with                           *)

(* All credentials are on our one account.                                   *)
LEMMA OneHome ==
    ASSUME TypeOK, AccountInv, ForeignInv, HomeInv
    PROVE  /\ \A c, d \in creds : c.sa = d.sa
           /\ Distinct(creds) /\ IsFiniteSet(creds)
           /\ pc \in OnAccount => \A c \in creds : c.sa = run.sa
<1>1. \A c \in creds : c.sa \in OurAccounts
  BY DEF HomeInv, ForeignInv, ForeignAccountUntouched, OurAccounts
<1>2. pc \in OnAccount => run.sa \in OurAccounts
  BY DEF HomeInv, ForeignInv, OurAccounts
<1>3. \A c, d \in creds : c.sa = d.sa
  BY <1>1 DEF AccountInv, OneServiceAccount
<1>4. Distinct(creds)
  BY <1>3 DEF TypeOK, Distinct
<1>5. IsFiniteSet(creds)
  <2> DEFINE f == [c \in creds |-> c.id]
  <2>1. f \in Injection(creds, 1..MaxCredentials)
    BY <1>4 DEF TypeOK, CredentialIDs, Distinct, Injection, IsInjective
  <2>2. IsFiniteSet(1..MaxCredentials)
    BY BoundsAssumption, FS_Interval
  <2> QED BY <2>1, <2>2, FS_Injection
<1> QED BY <1>1, <1>2, <1>3, <1>4, <1>5 DEF AccountInv, OneServiceAccount

(* In which phases the worker's copy gets which tracked credential and mode. *)
Writing == WaitForBucket \/ Progress \/ SetErrorCondition \/ PersistAccount
           \/ PersistSecretRef \/ Finish
Looking == \/ RefuseReconcile \/ FindServiceAccount \/ CreateServiceAccount
           \/ RefuseNamespace \/ CheckSecret \/ PutSecret \/ GrantBucket
           \/ AllGranted \/ ResolveExternalPrincipal
Plain == Phases \ ({"idle", "retire", "persistCredential", "undo"}
                   \cup Terminating)

LEMMA LookingEffect ==
    ASSUME TypeOK, TrackInv, Looking
    PROVE  /\ UNCHANGED <<ba, creds, edits>> /\ faults' \in {faults, faults + 1}
           /\ pc \in Plain /\ pc' \in Plain \ {"resolve"}
           /\ obj'.principalRef = obj.principalRef
           /\ obj'.status.cred \in {obj.status.cred, NoID}
           /\ obj'.status.cred # obj.status.cred => ~Managed(obj)
           /\ pc' \in Choosing => pc \in Choosing
<1> USE DEF apiVars, iamVars, Goto, Fail, Lost, Plain, Phases, Terminating,
            Choosing
<1>1. CASE RefuseReconcile \/ RefuseNamespace \/ CheckSecret
  BY <1>1 DEF RefuseReconcile, RefuseNamespace, CheckSecret
<1>2. CASE FindServiceAccount \/ CreateServiceAccount
  BY <1>2 DEF FindServiceAccount, CreateServiceAccount
<1>3. CASE PutSecret \/ GrantBucket
  BY <1>3 DEF PutSecret, GrantBucket
<1>4. CASE AllGranted
  BY <1>4 DEF AllGranted, TypeOK, AccessObject, Status
<1>5. CASE ResolveExternalPrincipal
  <2>1. ~Managed(obj)
    BY <1>5 DEF ResolveExternalPrincipal, TrackInv
  <2> DEFINE o == [obj EXCEPT !.status.sa = IF obj.principalRef = ExternalSA
                                            THEN ExternalSA ELSE NoID,
                              !.status.principal = obj.principalRef,
                              !.status.cred = NoID]
  <2>2. o.principalRef = obj.principalRef /\ o.status.cred = NoID
    BY DEF TypeOK, AccessObject, Status
  <2>3. /\ UNCHANGED <<ba, creds, edits>> /\ pc = "principal"
        /\ \/ faults' = faults + 1 /\ pc' = "degrade" /\ UNCHANGED obj
           \/ faults' = faults /\ pc' = "grant" /\ obj' = o
    BY <1>5 DEF ResolveExternalPrincipal
  <2> HIDE DEF o
  <2> QED BY <2>1, <2>2, <2>3
<1> QED BY <1>1, <1>2, <1>3, <1>4, <1>5 DEF Looking

(* A status write: accepted, it makes the object's tracked credential the    *)
(* one of the worker's copy; refused, it costs a fault and ends the pass.    *)
LEMMA WritingEffect ==
    ASSUME "accessLag" \notin Env, TypeOK, CurrentInv, Writing
    PROVE  /\ UNCHANGED <<creds, edits>> /\ pc \in Plain
           /\ ba'.principalRef = ba.principalRef
           /\ \/ /\ faults' = faults
                 /\ ba'.status.cred = obj.status.cred
                 /\ \/ pc' = "idle"
                    \/ /\ pc' \in Plain \ {"resolve"}
                       /\ obj'.status.cred = obj.status.cred
                       /\ obj'.principalRef = obj.principalRef
                       /\ pc' \in Choosing =>
                             Managed(obj) \/ pc \in Choosing
                       /\ pc' = "principal" => ~Managed(obj)
              \/ faults' = faults + 1 /\ pc' = "idle"
<1> USE DEF iamVars, Goto, Stop, Plain, Phases, Terminating, Choosing
<1> DEFINE New(s) == /\ s \in Status /\ s.cred = obj.status.cred
<1>1. obj \in AccessObject /\ obj.status \in Status
  BY DEF TypeOK, AccessObject
<1>2. ASSUME NEW c \in Conditions
      PROVE  /\ New([obj EXCEPT !.status.cond = c].status)
             /\ New([obj.status EXCEPT !.cond = c])
             /\ [obj EXCEPT !.status.cond = c].status.cred = obj.status.cred
             /\ [obj EXCEPT !.status.cond = c].principalRef = obj.principalRef
  BY <1>1 DEF AccessObject, Status
<1>3. pc # "idle"
  BY DEF Writing, WaitForBucket, Progress, SetErrorCondition, PersistAccount,
         PersistSecretRef, Finish
<1>4. ASSUME NEW s, New(s)
      PROVE  /\ Persisted(s) => /\ faults' = faults
                                /\ ba'.status.cred = obj.status.cred
                                /\ ba'.principalRef = ba.principalRef
             /\ NotPersisted(s) => /\ faults' = faults + 1
                                   /\ ba'.principalRef = ba.principalRef
  BY <1>3, <1>4, StatusPublished
<1> HIDE DEF New
<1>5. CASE WaitForBucket \/ Progress
  <2>1. New(Progressing(obj).status)
        /\ Progressing(obj).status.cred = obj.status.cred
        /\ Progressing(obj).principalRef = obj.principalRef
    BY <1>2 DEF Progressing, Conditions
  <2>2. CASE WaitForBucket
    BY <1>4, <2>1, <2>2 DEF WaitForBucket
  <2>3. CASE Progress
    BY <1>4, <2>1, <2>3 DEF Progress, Managed
  <2> QED BY <1>5, <2>2, <2>3
<1>6. CASE SetErrorCondition
  <2> DEFINE o == [obj EXCEPT !.status.cond = "Degraded"]
  <2>1. New(o.status) /\ o.status.cred = obj.status.cred
        /\ o.principalRef = obj.principalRef
    BY <1>2 DEF Conditions
  <2>2. /\ pc = "degrade" /\ UNCHANGED <<creds, edits>>
        /\ \/ Persisted(o.status) /\ obj' = o /\ pc' = "grant"
           \/ Persisted(o.status) /\ pc' = "idle"
           \/ NotPersisted(o.status) /\ pc' = "idle"
    BY <1>6 DEF SetErrorCondition
  <2> HIDE DEF o
  <2> QED BY <1>4, <2>1, <2>2
<1>7. CASE PersistAccount
  <2> DEFINE o == [obj EXCEPT !.status.sa = run.sa,
                              !.status.principal = run.sa]
  <2>1. New(o.status) /\ o.status.cred = obj.status.cred
        /\ o.principalRef = obj.principalRef
    BY <1>1 DEF New, AccessObject, Status, TypeOK, Locals
  <2>2. /\ pc = "persistAccount" /\ UNCHANGED <<creds, edits>>
        /\ \/ Persisted(o.status) /\ obj' = o /\ pc' = "credential"
           \/ NotPersisted(o.status) /\ pc' = "idle"
    BY <1>7 DEF PersistAccount
  <2> HIDE DEF o
  <2> QED BY <1>4, <2>1, <2>2
<1>8. CASE PersistSecretRef
  <2>1. New(obj.status)
    BY <1>1 DEF New
  <2> QED BY <1>4, <1>8, <2>1 DEF PersistSecretRef
<1>9. CASE Finish
  <2> DEFINE s == [obj.status EXCEPT !.cond = "Available"]
  <2>1. New(s)
    BY <1>2 DEF Conditions
  <2>2. /\ pc = "finish" /\ pc' = "idle" /\ UNCHANGED <<creds, edits>>
        /\ Persisted(s) \/ NotPersisted(s)
    BY <1>9 DEF Finish
  <2> HIDE DEF s
  <2> QED BY <1>4, <2>1, <2>2
<1> QED BY <1>5, <1>6, <1>7, <1>8, <1>9 DEF Writing

LEMMA ClearEffect ==
    ASSUME "accessLag" \notin Env, TypeOK, CurrentInv, ClearRotateAnnotation
    PROVE  /\ UNCHANGED <<creds, edits>> /\ pc = "clearRotate"
           /\ ba'.principalRef = ba.principalRef /\ ba'.status = ba.status
           /\ \/ /\ faults' = faults /\ pc' = "finish"
                 /\ obj'.status.cred = obj.status.cred
                 /\ obj'.principalRef = obj.principalRef
              \/ /\ faults' = faults + 1
                 /\ \/ pc' = "idle"
                    \/ pc' = "finish" /\ UNCHANGED obj
<1> DEFINE cleared == [ba EXCEPT !.rotate = FALSE]
           o == [obj EXCEPT !.rotate = FALSE]
<1>1. /\ cleared.principalRef = ba.principalRef /\ cleared.status = ba.status
      /\ o.status = obj.status /\ o.principalRef = obj.principalRef
  BY DEF TypeOK, AccessObject
<1>2. /\ pc = "clearRotate" /\ UNCHANGED <<creds, edits>>
      /\ \/ UNCHANGED <<ba, obj, faults>> /\ pc' = "finish"
         \/ ba' = cleared /\ obj' = o /\ UNCHANGED faults /\ pc' = "finish"
         \/ UNCHANGED ba /\ faults' = faults + 1 /\ pc' = "idle"
         \/ /\ ba' = cleared /\ faults' = faults + 1
            /\ pc' = "idle" \/ (pc' = "finish" /\ UNCHANGED obj)
  BY DEF ClearRotateAnnotation, CurrentInv, CacheIsCurrent, Publish, Goto, Stop,
         Fail, Lost, apiVars, iamVars
<1> HIDE DEF cleared, o
<1> QED BY <1>1, <1>2

Ending == RevokeGranted \/ RevokeRefs \/ TerminateCredential
          \/ TerminateAccount \/ Unfinalize

LEMMA EndingEffect ==
    ASSUME TypeOK, Ending
    PROVE  /\ creds' \subseteq creds /\ UNCHANGED edits
           /\ faults' \in {faults, faults + 1}
           /\ ba'.principalRef = ba.principalRef /\ ba'.status = ba.status
           /\ pc \in Terminating /\ pc' \in {"idle"} \cup Terminating
<1> USE DEF apiVars, iamVars, Goto, Stop, Fail, Lost, Terminating
<1>1. CASE RevokeGranted \/ RevokeRefs
  BY <1>1 DEF RevokeGranted, RevokeRefs
<1>2. CASE TerminateCredential \/ TerminateAccount
  BY <1>2 DEF TerminateCredential, TerminateAccount, WithoutAccount, Deleted
<1>3. CASE Unfinalize
  <2> DEFINE done == [ba EXCEPT !.finalizer = FALSE, !.phase = "gone"]
  <2>1. done.principalRef = ba.principalRef /\ done.status = ba.status
    BY DEF TypeOK, AccessObject
  <2>2. /\ ba' \in {ba, done} /\ pc = "unfinalize" /\ pc' = "idle"
        /\ UNCHANGED <<creds, edits>> /\ faults' \in {faults, faults + 1}
    BY <1>3 DEF Unfinalize, Publish
  <2> HIDE DEF done
  <2> QED BY <2>1, <2>2
<1> QED BY <1>1, <1>2, <1>3 DEF Ending

LEMMA SwitchEffect ==
    ASSUME TypeOK, EditAccess
    PROVE  /\ UNCHANGED <<creds, pc, obj, run, faults>> /\ edits' = edits + 1
           /\ ba'.status = ba.status
           /\ ba'.principalRef # ba.principalRef => "switchMode" \in Env
<1> DEFINE Same(o) == o.principalRef = ba.principalRef
           Del == [ba EXCEPT !.phase = IF ba.finalizer THEN "deleting"
                                                       ELSE "gone"]
<1>1. \A S, r : /\ Same([ba EXCEPT !.refs = S]) /\ Same([ba EXCEPT !.rotate = r])
                /\ Same([ba EXCEPT !.suspended = ~@]) /\ Same(Del)
  BY DEF TypeOK, AccessObject
<1>2. /\ UNCHANGED <<creds, pc, obj, run, faults>> /\ edits' = edits + 1
      /\ \/ \E S : ba' = [ba EXCEPT !.refs = S]
         \/ \E r : ba' = [ba EXCEPT !.rotate = r]
         \/ ba' = [ba EXCEPT !.suspended = ~@]
         \/ ba' = Del
         \/ "switchMode" \in Env
  BY DEF EditAccess, Edit, Publish, iamVars, workVars
<1> HIDE DEF Same, Del
<1>3. Same(ba') \/ "switchMode" \in Env
  BY <1>1, <1>2
<1> QED BY <1>2, <1>3, EditEffect DEF Same

(* The steps between the choice of a credential and its record.              *)
LEMMA LookUpEffect ==
    ASSUME TypeOK, LookUpCredential
    PROVE  /\ UNCHANGED <<ba, obj, creds, edits>> /\ pc = "credential"
           /\ faults' \in {faults, faults + 1} /\ run'.sa = run.sa
           /\ \/ pc' \in {"drop", "mint"}
              \/ /\ pc' = "persistCredential"
                 /\ \/ run'.cred = obj.status.cred
                    \/ obj.status.cred = NoID
<1>1. ASSUME NEW c \in CredentialIDs \cup {NoID}, KeepCredential(c)
      PROVE  pc' = "persistCredential" /\ run'.cred = c /\ run'.sa = run.sa
  BY <1>1 DEF KeepCredential, TypeOK, Locals, Goto
<1>2. /\ obj.status.cred \in CredentialIDs \cup {NoID}
      /\ \A c \in Matching : c.id \in CredentialIDs
  BY DEF TypeOK, AccessObject, Status, Matching
<1>3. /\ UNCHANGED <<ba, obj, creds, edits>> /\ pc = "credential"
      /\ faults' \in {faults, faults + 1}
      /\ \/ KeepCredential(obj.status.cred)
         \/ obj.status.cred = NoID /\ \E c \in Matching : KeepCredential(c.id)
         \/ pc' \in {"drop", "mint"} /\ run' = run
  BY DEF LookUpCredential, apiVars, iamVars, Goto, Fail
<1>4. CASE KeepCredential(obj.status.cred)
  BY <1>1, <1>2, <1>3, <1>4
<1>5. CASE obj.status.cred = NoID /\ \E c \in Matching : KeepCredential(c.id)
  <2>1. PICK c \in Matching : KeepCredential(c.id)
    BY <1>5
  <2>2. pc' = "persistCredential" /\ run'.sa = run.sa
    BY <1>1, <1>2, <2>1
  <2> QED BY <1>3, <1>5, <2>2
<1>6. CASE pc' \in {"drop", "mint"} /\ run' = run
  BY <1>3, <1>6
<1> QED BY <1>3, <1>4, <1>5, <1>6

LEMMA MintEffect ==
    ASSUME TypeOK, MintCredential
    PROVE  /\ UNCHANGED <<ba, obj, edits>> /\ pc = "mint"
           /\ \/ /\ creds' = creds \cup {[id |-> issuedCred', sa |-> run.sa]}
                 /\ run'.cred = issuedCred' /\ run'.sa = run.sa
                 /\ faults' = faults
                 /\ \/ pc' = "retire"
                    \/ /\ pc' = "persistCredential"
                       /\ obj.status.cred \in {NoID, issuedCred'}
              \/ /\ creds' = creds \cup {[id |-> issuedCred', sa |-> run.sa]}
                 /\ faults' = faults + 1 /\ pc' = "degrade"
              \/ /\ creds' = creds /\ faults' \in {faults, faults + 1}
                 /\ pc' = "degrade"
<1> DEFINE r == [run EXCEPT !.cred = issuedCred', !.key = issuedCred',
                    !.rotated = obj.rotate \/ obj.status.cred # NoID]
<1>1. r.cred = issuedCred' /\ r.sa = run.sa
  BY DEF TypeOK, Locals
<1>2. /\ UNCHANGED <<ba, obj, edits>> /\ pc = "mint"
      /\ \/ /\ creds' = creds \cup {[id |-> issuedCred', sa |-> run.sa]}
            /\ run' = r /\ faults' = faults
            /\ pc' = IF Supersedes(issuedCred') THEN "retire"
                     ELSE "persistCredential"
         \/ /\ creds' = creds \cup {[id |-> issuedCred', sa |-> run.sa]}
            /\ faults' = faults + 1 /\ pc' = "degrade"
         \/ /\ creds' = creds /\ faults' \in {faults, faults + 1}
            /\ pc' = "degrade"
  BY DEF MintCredential, apiVars, Goto, Fail, Lost
<1> HIDE DEF r
<1> QED BY <1>1, <1>2 DEF Supersedes

LEMMA DropEffect ==
    ASSUME TypeOK, DropTracked
    PROVE  /\ UNCHANGED <<ba, run, edits>> /\ pc = "drop"
           /\ obj'.principalRef = obj.principalRef
           /\ \/ /\ creds' = Deleted(run.sa, obj.status.cred)
                 /\ faults' = faults /\ pc' = "mint" /\ obj'.status.cred = NoID
              \/ /\ creds' \subseteq creds /\ faults' = faults + 1
                 /\ pc' = "degrade" /\ obj'.status.cred = obj.status.cred
<1> DEFINE o == [obj EXCEPT !.status.cred = NoID]
<1>1. o.status.cred = NoID /\ o.principalRef = obj.principalRef
  BY DEF TypeOK, AccessObject, Status
<1>2. /\ UNCHANGED <<ba, run, edits>> /\ pc = "drop"
      /\ \/ /\ creds' = Deleted(run.sa, obj.status.cred)
            /\ faults' = faults /\ pc' = "mint" /\ obj' = o
         \/ /\ creds' \in {creds, Deleted(run.sa, obj.status.cred)}
            /\ faults' = faults + 1 /\ pc' = "degrade" /\ UNCHANGED obj
  BY DEF DropTracked, apiVars, Goto, Fail, Lost
<1>3. Deleted(run.sa, obj.status.cred) \subseteq creds
  BY DEF Deleted
<1> HIDE DEF o
<1> QED BY <1>1, <1>2, <1>3

LEMMA RetireEffect ==
    ASSUME RetirePrevious
    PROVE  /\ UNCHANGED <<ba, obj, run, edits>> /\ pc = "retire"
           /\ pc' = "persistCredential"
           /\ \/ /\ creds' = Deleted(run.sa, obj.status.cred)
                 /\ faults' \in {faults, faults + 1}
              \/ creds' = creds /\ faults' = faults + 1
BY DEF RetirePrevious, DeleteOrLog, apiVars, Goto, Fail, Lost

LEMMA RecordEffect ==
    ASSUME "accessLag" \notin Env, TypeOK, CurrentInv, PersistCredential
    PROVE  /\ UNCHANGED <<creds, edits>> /\ pc = "persistCredential"
           /\ ba'.principalRef = ba.principalRef
           /\ \/ /\ faults' = faults /\ pc' = "checkSecret"
                 /\ ba'.status.cred = run.cred /\ obj'.status.cred = run.cred
                 /\ obj'.principalRef = obj.principalRef
              \/ /\ faults' = faults + 1 /\ pc' \in {"idle", "undo"}
                 /\ pc' = "undo" => UNCHANGED <<obj, run>>
<1> DEFINE o == [obj EXCEPT !.status.cred = run.cred]
<1>1. /\ o.status \in Status /\ o.status.cred = run.cred
      /\ o.principalRef = obj.principalRef
  BY DEF TypeOK, AccessObject, Status, Locals
<1>2. /\ UNCHANGED <<creds, edits>> /\ pc = "persistCredential"
      /\ \/ Persisted(o.status) /\ obj' = o /\ pc' = "checkSecret"
         \/ /\ NotPersisted(o.status) /\ pc' \in {"idle", "undo"}
            /\ pc' = "undo" => UNCHANGED <<obj, run>>
  BY DEF PersistCredential, iamVars, Goto, Stop
<1> HIDE DEF o
<1>3. /\ Persisted(o.status) => /\ faults' = faults
                                /\ ba'.status = o.status
                                /\ ba'.principalRef = ba.principalRef
      /\ NotPersisted(o.status) => /\ faults' = faults + 1
                                   /\ ba'.principalRef = ba.principalRef
  BY <1>1, <1>2, StatusPublished
<1> QED BY <1>1, <1>2, <1>3

LEMMA UndoEffect ==
    ASSUME UndoCredential
    PROVE  /\ creds' \subseteq creds /\ UNCHANGED <<ba, edits>>
           /\ faults' \in {faults, faults + 1} /\ pc = "undo" /\ pc' = "idle"
BY DEF UndoCredential, DeleteOrLog, Deleted, apiVars, Stop, Fail, Lost

LEMMA StartEffect ==
    ASSUME TypeOK, CurrentInv, AddFinalizer \/ StartReconcile \/ StartTerminate
    PROVE  /\ UNCHANGED <<creds, edits>> /\ pc = "idle"
           /\ faults' \in {faults, faults + 1}
           /\ ba'.status = ba.status /\ ba'.principalRef = ba.principalRef
           /\ \/ pc' = "idle" \/ pc' \in Terminating
              \/ pc' = "resolve" /\ obj' = ba /\ ba' = ba
<1> USE DEF apiVars, iamVars, workVars, Goto, Fail, Lost
<1>1. CASE StartReconcile \/ StartTerminate
  BY <1>1 DEF StartReconcile, StartTerminate, CurrentInv, Terminating
<1>2. CASE AddFinalizer
  <2> DEFINE o == [ba EXCEPT !.finalizer = TRUE]
  <2>1. o.status = ba.status /\ o.principalRef = ba.principalRef
    BY DEF TypeOK, AccessObject
  <2>2. /\ UNCHANGED <<creds, edits, pc>> /\ pc = "idle"
        /\ faults' \in {faults, faults + 1} /\ ba' \in {ba, o}
    BY <1>2 DEF AddFinalizer, Publish
  <2> HIDE DEF o
  <2> QED BY <2>1, <2>2
<1> QED BY <1>1, <1>2

Outside == Crash \/ Sync \/ EditSecret \/ BucketController
           \/ RestartWithNamespaces

LEMMA OutsideEffect ==
    ASSUME Outside
    PROVE  /\ UNCHANGED <<ba, creds>> /\ edits' \in {edits, edits + 1}
           /\ \/ UNCHANGED <<pc, obj, run, faults>>
              \/ pc # "idle" /\ pc' = "idle" /\ faults' = faults + 1
BY DEF Outside, Crash, Sync, SyncAccess, SyncSecret, EditSecret,
       BucketController, BucketChanges, ReadPolicy, WritePolicy,
       RestartWithNamespaces, apiVars, iamVars, workVars, Stop, Fail, Edit

(* These are all steps.                                                      *)
LEMMA Steps ==
    ASSUME [Next]_vars
    PROVE  \/ UNCHANGED vars \/ Looking \/ Writing \/ ClearRotateAnnotation
           \/ Ending \/ LookUpCredential \/ MintCredential \/ DropTracked
           \/ RetirePrevious \/ PersistCredential \/ UndoCredential
           \/ AddFinalizer \/ StartReconcile \/ StartTerminate
           \/ EditAccess \/ Outside
BY DEF Next, Pass, Users, Looking, Writing, Ending, Outside

LEMMA TrackStep ==
    ASSUME "accessLag" \notin Env, TypeOK, CurrentInv, TrackInv, [Next]_vars
    PROVE  TrackInv'
<1> USE DEF TrackInv, Issuing, Choosing, Managed, Terminating
<1>1. CASE UNCHANGED vars
  BY <1>1 DEF vars
<1>2. CASE Looking
  <2>1. pc' \notin {"principal", "retire", "persistCredential", "undo"}
    BY <1>2 DEF Looking, RefuseReconcile, RefuseNamespace, CheckSecret,
                FindServiceAccount, CreateServiceAccount, PutSecret,
                GrantBucket, AllGranted, ResolveExternalPrincipal, Goto
  <2> QED BY <1>2, <2>1, LookingEffect
<1>3. CASE Writing
  <2>1. pc' \notin {"retire", "persistCredential", "undo"}
    BY <1>3 DEF Writing, WaitForBucket, Progress, SetErrorCondition,
                PersistAccount, PersistSecretRef, Finish, Goto, Stop
  <2> QED BY <1>3, <2>1, WritingEffect
<1>4. CASE ClearRotateAnnotation
  BY <1>4, ClearEffect
<1>5. CASE Ending
  BY <1>5, EndingEffect
<1>6. CASE LookUpCredential
  BY <1>6, LookUpEffect
<1>7. CASE MintCredential
  BY <1>7, MintEffect
<1>8. CASE DropTracked
  BY <1>8, DropEffect
<1>9. CASE RetirePrevious
  BY <1>9, RetireEffect
<1>10. CASE PersistCredential
  BY <1>10, RecordEffect
<1>11. CASE UndoCredential
  BY <1>11, UndoEffect
<1>12. CASE AddFinalizer \/ StartReconcile \/ StartTerminate
  BY <1>12, StartEffect
<1>13. CASE EditAccess
  BY <1>13, SwitchEffect
<1>14. CASE Outside
  BY <1>14, OutsideEffect
<1> QED BY <1>1, <1>2, <1>3, <1>4, <1>5, <1>6, <1>7, <1>8, <1>9, <1>10,
           <1>11, <1>12, <1>13, <1>14, Steps

-----------------------------------------------------------------------------
(* The accounts                                                              *)

(* StrayInv, with Count.                                                     *)
LEMMA StrayCounted ==
    /\ StrayInv <=>
       /\ pc \in {"idle"} \cup Terminating =>
             Count(creds, {ba.status.cred}) + Forgettable(ba) <= Budget
       /\ pc \notin {"idle", "retire", "persistCredential", "undo"}
                       \cup Terminating
             => Count(creds, {obj.status.cred}) + Switched <= Budget
       /\ pc = "retire" =>
             Count(creds, {obj.status.cred, run.cred}) + Switched <= Budget
       /\ pc = "persistCredential" =>
             Count(creds, {run.cred}) + Switched <= Budget
       /\ pc = "undo" => Count(creds, {run.cred}) + 1 + Switched <= Budget
    /\ StrayInv' <=>
       /\ pc' \in {"idle"} \cup Terminating =>
             Count(creds', {ba'.status.cred}) + Forgettable(ba') <= Budget'
       /\ pc' \notin {"idle", "retire", "persistCredential", "undo"}
                       \cup Terminating
             => Count(creds', {obj'.status.cred}) + Switched' <= Budget'
       /\ pc' = "retire" =>
             Count(creds', {obj'.status.cred, run'.cred}) + Switched' <= Budget'
       /\ pc' = "persistCredential" =>
             Count(creds', {run'.cred}) + Switched' <= Budget'
       /\ pc' = "undo" => Count(creds', {run'.cred}) + 1 + Switched' <= Budget'
BY DEF StrayInv, Left, Count, Besides, Forgettable, Terminating

(* What the proof needs to know of numbers.                                  *)
LEMMA Numbers ==
    ASSUME TypeOK
    PROVE  /\ Budget \in Nat /\ faults \in Nat /\ edits \in Nat
           /\ \A b : Spare(b) \in {0, 1}
           /\ Switched \in {0, 1} /\ \A o : Forgettable(o) \in {0, 1}
BY BoundsAssumption DEF TypeOK, Budget, Spare, Switched, Forgettable

LEMMA BudgetGrows ==
    ASSUME TypeOK, faults' \in {faults, faults + 1},
           edits' \in {edits, edits + 1}
    PROVE  /\ Budget' \in Nat /\ Budget' >= Budget
           /\ faults' = faults + 1 => Budget' >= Budget + 1
           /\ (edits' = edits + 1 /\ "switchMode" \in Env)
                 => Budget' >= Budget + 1
BY Numbers DEF Budget

LEMMA StrayStep ==
    ASSUME "accessLag" \notin Env, TypeOK, TypeOK', AccountInv, ForeignInv,
           HomeInv, CurrentInv, TrackInv, StrayInv, [Next]_vars,
           IsFiniteSet(creds')
    PROVE  StrayInv'
<1> DEFINE C(i) == Count(creds, {i})
           D(i) == Count(creds', {i})
           B == Budget
           E == Budget'
<1>1. /\ Distinct(creds) /\ IsFiniteSet(creds)
      /\ pc \in OnAccount => \A c \in creds : c.sa = run.sa
      /\ \A c, d \in creds : c.sa = d.sa
  BY OneHome
<1>2. /\ \A i : C(i) \in Nat /\ D(i) \in Nat
      /\ \A i, j : C(i) <= C(j) + 1
      /\ creds' \subseteq creds => \A i : D(i) <= C(i)
  <2>1. \A i, j : {j} \subseteq {i} \cup {j}
    OBVIOUS
  <2>2. creds' \subseteq creds =>
           \A i : Besides(creds', {i}) \subseteq Besides(creds, {i})
    BY DEF Besides
  <2> QED BY <1>1, <2>1, <2>2, CountType, CountBut, CountFewer
<1>3. \A i : C(i) <= C(NoID)
  <2>1. \A i : Besides(creds, {i}) \subseteq Besides(creds, {NoID})
    BY Sentinels DEF Besides, TypeOK
  <2> QED BY <1>1, <2>1, CountFewer
<1>4. /\ B \in Nat /\ Switched \in {0, 1} /\ Switched' \in {0, 1}
      /\ \A o : Forgettable(o) \in {0, 1}
      /\ obj.status.cred \in CredentialIDs \cup {NoID}
  BY Numbers DEF Forgettable, Switched, Spare, TypeOK, AccessObject, Status
<1>5. /\ \A o : Managed(o) => Forgettable(o) = 0
      /\ \A o : o.status.cred = NoID => Forgettable(o) = 0
      /\ Switched = IF Managed(obj) THEN IF Managed(ba) THEN 0 ELSE 1
                    ELSE IF obj.status.cred = NoID THEN 0 ELSE 1
      /\ Switched' = IF Managed(obj') THEN IF Managed(ba') THEN 0 ELSE 1
                     ELSE IF obj'.status.cred = NoID THEN 0 ELSE 1
  BY DEF Forgettable, Spare, Switched, Managed
<1> DEFINE R == Count(creds, {obj.status.cred, run.cred})
           Odd == {"idle", "retire", "persistCredential", "undo"}
                     \cup Terminating
<1>6. /\ pc \in {"idle"} \cup Terminating =>
            C(ba.status.cred) + Forgettable(ba) <= B
      /\ pc \notin Odd => C(obj.status.cred) + Switched <= B
      /\ pc = "retire" => R + Switched <= B
      /\ pc = "persistCredential" => C(run.cred) + Switched <= B
      /\ pc = "undo" => C(run.cred) + 1 + Switched <= B
  BY StrayCounted
<1>7. \/ /\ pc' \in {"idle"} \cup Terminating
         /\ D(ba'.status.cred) + Forgettable(ba') <= E
      \/ pc' \notin Odd /\ D(obj'.status.cred) + Switched' <= E
      \/ /\ pc' = "retire"
         /\ Count(creds', {obj'.status.cred, run'.cred}) + Switched' <= E
      \/ pc' = "persistCredential" /\ D(run'.cred) + Switched' <= E
      \/ pc' = "undo" /\ D(run'.cred) + 1 + Switched' <= E
      => StrayInv'
  BY StrayCounted DEF Terminating
<1>8. creds' = creds => \A i : D(i) = C(i)
  OBVIOUS
<1>9. /\ Plain \cap Odd = {} /\ Terminating \cap {"retire",
           "persistCredential", "undo", "resolve"} = {} /\ "idle" \in Odd
  BY DEF Plain, Terminating
<1> HIDE DEF C, D, B, E, R, Odd
<1>10. CASE UNCHANGED vars
  BY <1>10 DEF vars, StrayInv, Left, Budget, Forgettable, Switched, Managed,
               Terminating
<1>11. CASE Looking
  <2>1. /\ UNCHANGED <<ba, creds>> /\ pc \notin Odd /\ pc' \notin Odd
        /\ obj'.principalRef = obj.principalRef
        /\ obj'.status.cred \in {obj.status.cred, NoID}
        /\ obj'.status.cred # obj.status.cred => ~Managed(obj)
    BY <1>9, <1>11, LookingEffect
  <2>2. E \in Nat /\ E >= B
    BY <1>11, LookingEffect, BudgetGrows DEF E, B
  <2>3. D(obj'.status.cred) + Switched' <= E
    <3>1. CASE obj'.status.cred = obj.status.cred
      BY <1>2, <1>4, <1>5, <1>6, <1>8, <2>1, <2>2, <3>1 DEF Managed
    <3>2. CASE obj'.status.cred # obj.status.cred
      <4>1. /\ obj'.status.cred = NoID /\ Switched = 1 /\ Switched' = 0
        BY <1>5, <2>1, <3>2 DEF Managed
      <4>2. C(NoID) <= C(obj.status.cred) + 1
        BY <1>2
      <4> QED BY <1>2, <1>4, <1>6, <1>8, <2>1, <2>2, <4>1, <4>2
    <3> QED BY <3>1, <3>2
  <2> QED BY <1>7, <2>1, <2>3
<1>12. CASE Writing
  <2>1. /\ creds' = creds /\ pc \notin Odd
        /\ Managed(ba') <=> Managed(ba)
    BY <1>9, <1>12, WritingEffect DEF Managed
  <2>2. /\ E \in Nat /\ E >= B /\ (faults' = faults + 1 => E >= B + 1)
    <3>1. UNCHANGED edits /\ faults' \in {faults, faults + 1}
      BY <1>12, WritingEffect
    <3> QED BY <3>1, BudgetGrows DEF E, B
  <2>3. CASE /\ ba'.status.cred = obj.status.cred /\ pc' = "idle"
    <3>1. Forgettable(ba') <= Switched
      BY <1>4, <1>5, <2>1, <2>3
    <3> QED BY <1>2, <1>4, <1>6, <1>7, <1>8, <2>1, <2>2, <2>3, <3>1
  <2>4. CASE /\ pc' \in Plain /\ obj'.status.cred = obj.status.cred
             /\ obj'.principalRef = obj.principalRef
    <3>1. Switched' = Switched /\ pc' \notin Odd
      BY <1>5, <1>9, <2>1, <2>4 DEF Managed
    <3> QED BY <1>2, <1>4, <1>6, <1>7, <1>8, <2>1, <2>2, <2>4, <3>1
  <2>5. CASE faults' = faults + 1 /\ pc' = "idle"
    <3>1. C(ba'.status.cred) + Forgettable(ba')
             <= C(obj.status.cred) + Switched + 1
      <4>1. CASE Managed(obj) \/ obj.status.cred # NoID
        BY <1>2, <1>4, <1>5, <2>1, <4>1
      <4>2. CASE obj.status.cred = NoID
        BY <1>2, <1>3, <1>4, <4>2
      <4> QED BY <4>1, <4>2
    <3> QED BY <1>2, <1>4, <1>6, <1>7, <1>8, <2>1, <2>2, <2>5, <3>1
  <2> QED BY <1>12, <2>3, <2>4, <2>5, WritingEffect
<1>13. CASE ClearRotateAnnotation
  <2>1. /\ creds' = creds /\ pc = "clearRotate" /\ ba'.status = ba.status
        /\ Managed(ba') <=> Managed(ba)
    BY <1>13, ClearEffect DEF Managed
  <2>2. /\ E \in Nat /\ E >= B /\ (faults' = faults + 1 => E >= B + 1)
    <3>1. UNCHANGED edits /\ faults' \in {faults, faults + 1}
      BY <1>13, ClearEffect
    <3> QED BY <3>1, BudgetGrows DEF E, B
  <2>3. pc \notin Odd /\ "finish" \notin Odd
    BY <2>1 DEF Odd, Terminating
  <2>4. CASE /\ pc' = "finish" /\ obj'.status.cred = obj.status.cred
             /\ obj'.principalRef = obj.principalRef
    <3>1. Switched' = Switched
      BY <1>5, <2>1, <2>4 DEF Managed
    <3> QED BY <1>2, <1>4, <1>6, <1>7, <1>8, <2>1, <2>2, <2>3, <2>4, <3>1
  <2>5. CASE faults' = faults + 1 /\ pc' = "idle"
    <3>1. C(ba'.status.cred) + Forgettable(ba')
             <= C(obj.status.cred) + Switched + 1
      <4>1. CASE Managed(obj) \/ obj.status.cred # NoID
        BY <1>2, <1>4, <1>5, <2>1, <4>1
      <4>2. CASE obj.status.cred = NoID
        BY <1>2, <1>3, <1>4, <4>2
      <4> QED BY <4>1, <4>2
    <3> QED BY <1>2, <1>4, <1>6, <1>7, <1>8, <2>1, <2>2, <2>3, <2>5, <3>1
  <2> QED BY <1>13, <2>4, <2>5, ClearEffect
<1>14. CASE Ending
  <2>1. /\ creds' \subseteq creds /\ ba'.status = ba.status
        /\ ba'.principalRef = ba.principalRef
        /\ pc \in Terminating /\ pc' \in {"idle"} \cup Terminating
    BY <1>14, EndingEffect
  <2>2. E \in Nat /\ E >= B
    BY <1>14, EndingEffect, BudgetGrows DEF E, B
  <2>3. Forgettable(ba') = Forgettable(ba)
    BY <2>1 DEF Forgettable, Managed
  <2> QED BY <1>2, <1>4, <1>6, <1>7, <2>1, <2>2, <2>3
<1>15. CASE LookUpCredential
  <2>1. UNCHANGED <<ba, obj, creds>> /\ pc = "credential"
    BY <1>15, LookUpEffect
  <2>2. E \in Nat /\ E >= B
    BY <1>15, LookUpEffect, BudgetGrows DEF E, B
  <2>3. Switched' = Switched
    BY <1>5, <2>1
  <2>4. C(obj.status.cred) + Switched <= B
    BY <1>6, <2>1 DEF Odd, Terminating
  <2>5. CASE pc' \in {"drop", "mint"}
    <3>1. pc' \notin Odd
      BY <2>5 DEF Odd, Terminating
    <3> QED BY <1>2, <1>4, <1>7, <1>8, <2>1, <2>2, <2>3, <2>4, <3>1
  <2>6. CASE /\ pc' = "persistCredential"
             /\ run'.cred = obj.status.cred \/ obj.status.cred = NoID
    <3>1. C(run'.cred) <= C(obj.status.cred)
      BY <1>2, <1>3, <2>6
    <3> QED BY <1>2, <1>4, <1>7, <1>8, <2>1, <2>2, <2>3, <2>4, <2>6, <3>1
  <2> QED BY <1>15, <2>5, <2>6, LookUpEffect
<1>16. CASE MintCredential
  <2> DEFINE r == [id |-> issuedCred', sa |-> run.sa]
             c == obj.status.cred
             new == issuedCred'
  <2>1. UNCHANGED <<ba, obj, edits>> /\ pc = "mint" /\ Managed(obj)
    BY <1>16, MintEffect DEF TrackInv, Issuing, Choosing
  <2>2. /\ Switched' = Switched /\ C(c) + Switched <= B
    BY <1>5, <1>6, <2>1 DEF Odd, Terminating
  <2>3. /\ E \in Nat /\ E >= B /\ (faults' = faults + 1 => E >= B + 1)
    <3>1. UNCHANGED edits /\ faults' \in {faults, faults + 1}
      BY <1>16, MintEffect
    <3> QED BY <3>1, BudgetGrows DEF E, B
  <2>4. "degrade" \notin Odd
    BY DEF Odd, Terminating
  <2>5. CASE creds' = creds /\ pc' = "degrade"
    BY <1>2, <1>4, <1>7, <1>8, <2>1, <2>2, <2>3, <2>4, <2>5
  <2>6. CASE /\ creds' = creds \cup {r} /\ faults' = faults + 1
             /\ pc' = "degrade"
    <3>1. Besides(creds', {c}) \subseteq Besides(creds, {c}) \cup {r}
      BY <2>6 DEF Besides
    <3> HIDE DEF r, c
    <3>2. D(c) <= C(c) + 1
      BY <1>1, <3>1, CountOneMore DEF C, D
    <3> QED BY <1>2, <1>4, <1>7, <2>1, <2>2, <2>3, <2>4, <2>6, <3>2 DEF c
  <2>7. CASE /\ creds' = creds \cup {r} /\ faults' = faults
             /\ run'.cred = new /\ pc' = "retire"
    <3>1. Besides(creds', {c, new}) \subseteq Besides(creds, {c})
      BY <2>7 DEF Besides
    <3> HIDE DEF r, c, new
    <3>2. Count(creds', {c, new}) <= C(c)
      BY <1>1, <3>1, CountFewer DEF C
    <3>3. Count(creds', {c, new}) \in Nat
      BY CountType
    <3> QED BY <1>2, <1>4, <1>7, <2>1, <2>2, <2>3, <2>7, <3>2, <3>3 DEF c
  <2>8. CASE /\ creds' = creds \cup {r} /\ faults' = faults
             /\ run'.cred = new /\ pc' = "persistCredential"
             /\ c \in {NoID, new}
    <3>1. Besides(creds', {new}) \subseteq Besides(creds, {c})
      BY <2>8, Sentinels DEF Besides, TypeOK
    <3> HIDE DEF r, c, new
    <3>2. D(new) <= C(c)
      BY <1>1, <3>1, CountFewer DEF C, D
    <3> QED BY <1>2, <1>4, <1>7, <2>1, <2>2, <2>3, <2>8, <3>2 DEF c
  <2> QED BY <1>16, <2>5, <2>6, <2>7, <2>8, MintEffect
<1>17. CASE DropTracked
  <2> DEFINE r == [id |-> obj.status.cred, sa |-> run.sa]
             c == obj.status.cred
  <2>1. /\ UNCHANGED <<ba, run, edits>> /\ pc = "drop" /\ Managed(obj)
        /\ Managed(obj')
    BY <1>17, DropEffect DEF TrackInv, Issuing, Choosing, Managed
  <2>2. /\ Switched' = Switched /\ C(c) + Switched <= B
    BY <1>5, <1>6, <2>1 DEF Odd, Terminating
  <2>3. /\ E \in Nat /\ E >= B /\ (faults' = faults + 1 => E >= B + 1)
    <3>1. UNCHANGED edits /\ faults' \in {faults, faults + 1}
      BY <1>17, DropEffect
    <3> QED BY <3>1, BudgetGrows DEF E, B
  <2>4. "degrade" \notin Odd /\ "mint" \notin Odd
    BY DEF Odd, Terminating
  <2>5. CASE /\ creds' \subseteq creds /\ pc' = "degrade"
             /\ obj'.status.cred = c
    BY <1>2, <1>4, <1>7, <2>1, <2>2, <2>3, <2>4, <2>5
  <2>6. CASE /\ creds' = Deleted(run.sa, c) /\ pc' = "mint"
             /\ obj'.status.cred = NoID
    <3>1. \A x \in creds : x.sa = run.sa
      BY <1>1, <2>1 DEF OnAccount
    <3>2. Besides(creds', {NoID}) \subseteq Besides(creds, {c})
      BY <2>6, <3>1 DEF Besides, Deleted, TypeOK
    <3> HIDE DEF r, c
    <3>3. D(NoID) <= C(c)
      BY <1>1, <3>2, CountFewer DEF C, D
    <3> QED BY <1>2, <1>4, <1>7, <2>1, <2>2, <2>3, <2>4, <2>6, <3>3 DEF c
  <2> QED BY <1>17, <2>5, <2>6, DropEffect
<1>18. CASE RetirePrevious
  <2> DEFINE c == obj.status.cred
             x == run.cred
  <2>1. /\ UNCHANGED <<ba, obj, run, edits>> /\ pc = "retire"
        /\ pc' = "persistCredential"
    BY <1>18, RetireEffect
  <2>2. Switched' = Switched /\ R + Switched <= B
    BY <1>5, <1>6, <2>1
  <2>3. /\ E \in Nat /\ E >= B /\ (faults' = faults + 1 => E >= B + 1)
    <3>1. UNCHANGED edits /\ faults' \in {faults, faults + 1}
      BY <1>18, RetireEffect
    <3> QED BY <3>1, BudgetGrows DEF E, B
  <2>4. R \in Nat
    BY <1>1, CountType DEF R
  <2>5. CASE creds' = Deleted(run.sa, c)
    <3>1. \A y \in creds : y.sa = run.sa
      <4>1. [id |-> run.cred, sa |-> run.sa] \in creds
        BY <2>1 DEF TrackInv
      <4> QED BY <1>1, <4>1
    <3>2. Besides(creds', {x}) \subseteq Besides(creds, {c, x})
      BY <2>5, <3>1 DEF Besides, Deleted, TypeOK
    <3>3. D(x) <= R
      BY <1>1, <3>2, CountFewer DEF D, R
    <3> QED BY <1>2, <1>4, <1>7, <2>1, <2>2, <2>3, <2>4, <3>3
  <2>6. CASE creds' = creds /\ faults' = faults + 1
    <3>1. {c, x} \subseteq {x} \cup {c}
      OBVIOUS
    <3>2. C(x) <= R + 1
      BY <1>1, <3>1, CountBut DEF C, R
    <3> QED BY <1>2, <1>4, <1>7, <1>8, <2>1, <2>2, <2>3, <2>4, <2>6, <3>2
  <2> QED BY <1>18, <2>5, <2>6, RetireEffect
<1>19. CASE PersistCredential
  <2>1. /\ creds' = creds /\ pc = "persistCredential" /\ Managed(obj)
        /\ Managed(ba') <=> Managed(ba)
    BY <1>19, RecordEffect DEF TrackInv, Issuing, Managed
  <2>2. C(run.cred) + Switched <= B
    BY <1>6, <2>1
  <2>3. /\ E \in Nat /\ E >= B /\ (faults' = faults + 1 => E >= B + 1)
    <3>1. UNCHANGED edits /\ faults' \in {faults, faults + 1}
      BY <1>19, RecordEffect
    <3> QED BY <3>1, BudgetGrows DEF E, B
  <2>4. CASE /\ pc' = "checkSecret" /\ obj'.status.cred = run.cred
             /\ obj'.principalRef = obj.principalRef
    <3>1. Switched' = Switched /\ pc' \notin Odd
      BY <1>5, <2>1, <2>4 DEF Managed, Odd, Terminating
    <3> QED BY <1>2, <1>4, <1>7, <1>8, <2>2, <2>1, <2>3, <2>4, <3>1
  <2>5. CASE faults' = faults + 1 /\ pc' = "undo" /\ UNCHANGED <<obj, run>>
    <3>1. Switched' = Switched
      BY <1>5, <2>1, <2>5
    <3> QED BY <1>2, <1>4, <1>7, <1>8, <2>1, <2>2, <2>3, <2>5, <3>1
  <2>6. CASE faults' = faults + 1 /\ pc' = "idle"
    <3>1. Forgettable(ba') <= Switched
      BY <1>4, <1>5, <2>1
    <3>2. C(ba'.status.cred) <= C(run.cred) + 1
      BY <1>2
    <3> QED BY <1>2, <1>4, <1>7, <1>8, <2>1, <2>2, <2>3, <2>6, <3>1, <3>2
  <2> QED BY <1>19, <2>4, <2>5, <2>6, RecordEffect
<1>20. CASE UndoCredential
  <2>1. /\ creds' \subseteq creds /\ ba' = ba /\ pc = "undo" /\ pc' = "idle"
        /\ Managed(obj)
    BY <1>20, UndoEffect DEF TrackInv, Issuing
  <2>2. E \in Nat /\ E >= B
    BY <1>20, UndoEffect, BudgetGrows DEF E, B
  <2>3. Forgettable(ba) <= Switched
    BY <1>4, <1>5, <2>1
  <2>4. D(ba.status.cred) <= C(run.cred) + 1
    BY <1>2, <2>1
  <2> QED BY <1>2, <1>4, <1>6, <1>7, <2>1, <2>2, <2>3, <2>4
<1>21. CASE AddFinalizer \/ StartReconcile \/ StartTerminate
  <2>1. /\ creds' = creds /\ pc = "idle" /\ ba'.status = ba.status
        /\ ba'.principalRef = ba.principalRef
    BY <1>21, StartEffect
  <2>2. E \in Nat /\ E >= B
    BY <1>21, StartEffect, BudgetGrows DEF E, B
  <2>3. /\ Forgettable(ba') = Forgettable(ba)
        /\ C(ba.status.cred) + Forgettable(ba) <= B
    BY <1>6, <2>1 DEF Forgettable, Managed
  <2>4. CASE pc' \in {"idle"} \cup Terminating
    BY <1>2, <1>4, <1>7, <1>8, <2>1, <2>2, <2>3, <2>4
  <2>5. CASE pc' = "resolve" /\ obj' = ba /\ ba' = ba
    <3>1. Switched' = Forgettable(ba) /\ pc' \notin Odd
      BY <2>5 DEF Switched, Forgettable, Spare, Managed, Odd, Terminating
    <3> QED BY <1>2, <1>4, <1>7, <1>8, <2>1, <2>2, <2>3, <2>5, <3>1
  <2> QED BY <1>21, <2>4, <2>5, StartEffect
<1>22. ASSUME UNCHANGED <<pc, obj, run, creds>>, ba'.status = ba.status,
              E \in Nat, E >= B,
              (Managed(ba') <=> Managed(ba)) \/ E >= B + 1
       PROVE  StrayInv'
  <2>1. Forgettable(ba') <= Forgettable(ba) + (E - B)
    BY <1>4, <1>5, <1>22 DEF Forgettable
  <2>2. Switched' <= Switched + (E - B)
    BY <1>4, <1>5, <1>22
  <2>3. CASE pc \in {"idle"} \cup Terminating
    BY <1>2, <1>4, <1>6, <1>7, <1>8, <1>22, <2>1, <2>3
  <2>4. CASE pc \notin Odd
    BY <1>2, <1>4, <1>6, <1>7, <1>8, <1>22, <2>2, <2>4
  <2>5. CASE pc = "retire"
    <3>1. Count(creds', {obj'.status.cred, run'.cred}) = R /\ R \in Nat
      BY <1>1, <1>22, CountType DEF R
    <3> QED BY <1>4, <1>6, <1>7, <1>22, <2>2, <2>5, <3>1
  <2>6. CASE pc = "persistCredential"
    BY <1>2, <1>4, <1>6, <1>7, <1>8, <1>22, <2>2, <2>6
  <2>7. CASE pc = "undo"
    BY <1>2, <1>4, <1>6, <1>7, <1>8, <1>22, <2>2, <2>7
  <2> QED BY <2>3, <2>4, <2>5, <2>6, <2>7 DEF Odd
<1>23. CASE EditAccess
  <2>1. /\ UNCHANGED <<pc, obj, run, creds, faults>> /\ edits' = edits + 1
        /\ ba'.status = ba.status
        /\ ba'.principalRef # ba.principalRef => "switchMode" \in Env
    BY <1>23, SwitchEffect
  <2>2. /\ E \in Nat /\ E >= B /\ ("switchMode" \in Env => E >= B + 1)
    BY <2>1, BudgetGrows DEF E, B
  <2> QED BY <1>22, <2>1, <2>2 DEF Managed
<1>24. CASE Outside
  <2>1. UNCHANGED <<ba, creds>> /\ edits' \in {edits, edits + 1}
    BY <1>24, OutsideEffect
  <2>2. CASE UNCHANGED <<pc, obj, run, faults>>
    <3>1. E \in Nat /\ E >= B
      BY <2>1, <2>2, BudgetGrows DEF E, B
    <3> QED BY <1>22, <2>1, <2>2, <3>1
  <2>3. CASE pc # "idle" /\ pc' = "idle" /\ faults' = faults + 1
    <3>1. E \in Nat /\ E >= B + 1
      BY <2>1, <2>3, BudgetGrows DEF E, B
    <3>2. Managed(obj) => Forgettable(ba) <= Switched
      BY <1>4, <1>5
    <3>3. C(ba.status.cred) + Forgettable(ba) <= B + 1
      <4>1. CASE pc \in Terminating
        BY <1>2, <1>4, <1>6, <4>1
      <4>2. CASE pc \notin Odd
        <5>1. C(obj.status.cred) + Switched <= B
          BY <1>6, <4>2
        <5>2. CASE Managed(obj) \/ obj.status.cred # NoID
          <6>1. Forgettable(ba) <= Switched
            BY <1>4, <1>5, <5>2
          <6>2. C(ba.status.cred) <= C(obj.status.cred) + 1
            BY <1>2
          <6> QED BY <1>2, <1>4, <5>1, <6>1, <6>2
        <5>3. CASE obj.status.cred = NoID
          <6>1. C(ba.status.cred) <= C(NoID)
            BY <1>3
          <6> QED BY <1>2, <1>4, <5>1, <5>3, <6>1
        <5> QED BY <5>2, <5>3
      <4>3. CASE pc = "retire"
        <5>1. Managed(obj) /\ obj.status.cred \in {NoID, ba.status.cred}
          BY <4>3 DEF TrackInv, Issuing, Choosing
        <5>2. C(ba.status.cred) <= R + 1
          <6>1. CASE obj.status.cred = ba.status.cred
            <7>1. {ba.status.cred, run.cred}
                     \subseteq {ba.status.cred} \cup {run.cred}
              OBVIOUS
            <7> QED BY <1>1, <6>1, <7>1, CountBut DEF C, R
          <6>2. CASE obj.status.cred = NoID
            <7>1. Besides(creds, {run.cred})
                     \subseteq Besides(creds, {NoID, run.cred})
              BY Sentinels DEF Besides, TypeOK
            <7>2. C(run.cred) <= R
              BY <1>1, <6>2, <7>1, CountFewer DEF C, R
            <7>3. C(ba.status.cred) <= C(run.cred) + 1
              BY <1>2
            <7>4. R \in Nat
              BY <1>1, CountType DEF R
            <7> QED BY <1>2, <7>2, <7>3, <7>4
          <6> QED BY <5>1, <6>1, <6>2
        <5>3. R \in Nat
          BY <1>1, CountType DEF R
        <5> QED BY <1>2, <1>4, <1>6, <3>2, <4>3, <5>1, <5>2, <5>3
      <4>4. CASE pc \in {"persistCredential", "undo"}
        <5>1. Managed(obj)
          BY <4>4 DEF TrackInv, Issuing
        <5>2. C(ba.status.cred) <= C(run.cred) + 1
          BY <1>2
        <5> QED BY <1>2, <1>4, <1>6, <3>2, <4>4, <5>1, <5>2
      <4> QED BY <2>3, <4>1, <4>2, <4>3, <4>4 DEF Odd
    <3> QED BY <1>2, <1>4, <1>7, <1>8, <2>1, <2>3, <3>1, <3>3
  <2> QED BY <1>24, <2>2, <2>3, OutsideEffect
<1> QED BY <1>10, <1>11, <1>12, <1>13, <1>14, <1>15, <1>16, <1>17, <1>18,
           <1>19, <1>20, <1>21, <1>23, <1>24, Steps

(* While no stale copy of the object is read, every credential no status     *)
(* records has been paid for by a fault, or by an edit where the object may  *)
(* switch its mode: mintCredential, retirement, undoing the credential and   *)
(* the external mode never lose one for nothing, however they interleave     *)
(* with edits, crashes, refused writes and lost replies.                     *)
THEOREM StraysStayBounded == "accessLag" \notin Env => (Spec => []StraysBounded)
<1> SUFFICES ASSUME "accessLag" \notin Env PROVE Spec => []StraysBounded
  OBVIOUS
<1> DEFINE IInv == /\ TypeOK /\ AccountInv /\ ForeignInv /\ HomeInv
                   /\ CurrentInv /\ TrackInv /\ StrayInv
<1>1. Init => IInv
  <2> SUFFICES ASSUME Init PROVE IInv
    OBVIOUS
  <2>1. ba.status = FreshStatus
    BY DEF Init, Created
  <2>2. pc = "idle" /\ baCache = ba /\ creds = {} /\ accounts = {ExternalSA}
        /\ faults = 0 /\ edits = 0
    BY DEF Init
  <2>3. AccountInv
    BY DEF Init, AccountInv, OneServiceAccount, OurAccounts
  <2>4. ForeignInv
    BY DEF Init, ForeignInv, ForeignAccountUntouched, OnAccount
  <2>5. HomeInv /\ CurrentInv /\ TrackInv
    BY <2>2 DEF HomeInv, OnAccount, CurrentInv, TrackInv, Issuing, Choosing
  <2>6. StrayInv
    <3>1. Count(creds, {ba.status.cred}) = 0
      <4>1. Besides(creds, {ba.status.cred}) = {}
        BY <2>2 DEF Besides
      <4> QED BY <4>1, FS_EmptySet DEF Count
    <3>2. Forgettable(ba) = 0
      BY <2>1 DEF FreshStatus, Forgettable, Spare
    <3> QED BY <2>2, <3>1, <3>2, StrayCounted DEF Budget, Terminating
  <2> QED BY InitType, <2>3, <2>4, <2>5, <2>6
<1>2. IInv /\ [Next]_vars => IInv'
  <2> SUFFICES ASSUME IInv, [Next]_vars PROVE IInv'
    OBVIOUS
  <2>1. TypeOK'
    BY PassType, OthersType DEF Next, TypeOK, vars
  <2>2. AccountInv' /\ ForeignInv' /\ HomeInv'
    BY AccountStep, ForeignStep, HomeStep
  <2>3. IsFiniteSet(creds')
    <3>1. IsFiniteSet(creds)
      BY OneHome
    <3>2. creds' \subseteq creds \cup {[id |-> issuedCred', sa |-> run.sa]}
      BY IssueFrame, MintEffect DEF vars
    <3>3. IsFiniteSet(creds \cup {[id |-> issuedCred', sa |-> run.sa]})
      BY <3>1, FS_AddElement
    <3> QED BY <3>2, <3>3, FS_Subset
  <2>4. CurrentInv' /\ TrackInv'
    BY CurrentStep, TrackStep
  <2> QED BY <2>1, <2>2, <2>3, <2>4, StrayStep
<1>3. IInv => StraysBounded
  <2> SUFFICES ASSUME IInv, pc = "idle"
               PROVE  Cardinality(Untracked) <= Budget
    BY DEF StraysBounded, Budget
  <2>1. Untracked = Besides(creds, {ba.status.cred})
    BY DEF Untracked, Besides
  <2>2. Cardinality(Untracked) \in Nat
    BY <2>1, OneHome, CountType DEF Count
  <2>3. Cardinality(Untracked) + Forgettable(ba) <= Budget
    BY <2>1, StrayCounted DEF Count
  <2> QED BY <2>2, <2>3, Numbers
<1> QED BY <1>1, <1>2, <1>3, PTL DEF Spec
=============================================================================
