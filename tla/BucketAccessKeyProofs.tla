------------------------ MODULE BucketAccessKeyProofs ------------------------
(***************************************************************************)
(* Theorems about the key that a BucketAccess publishes in its Secret:     *)
(* what the removal of the rotation annotation says, that passes leave a   *)
(* working key alone, and that an object which reports Ready has one.      *)
(***************************************************************************)
EXTENDS BucketAccessCredentialProofs, BucketAccessGrantProofs

-----------------------------------------------------------------------------
(* What steps do to the fields the invariants look at                        *)

SameLocals == /\ run'.sa = run.sa /\ run'.cred = run.cred
              /\ run'.prev = run.prev /\ run'.key = run.key
              /\ run'.rotated = run.rotated
SameCopy == /\ obj'.status.sa = obj.status.sa
            /\ obj'.status.cred = obj.status.cred
            /\ obj'.rotate = obj.rotate
            /\ obj'.principalRef = obj.principalRef

(* A status write, as far as it concerns credentials.                        *)
Writes(sa, cred, cond) ==
    /\ ba'.phase = ba.phase /\ ba'.rotate = ba.rotate
    /\ ba'.principalRef = ba.principalRef
    /\ ba'.status.sa = sa /\ ba'.status.cred = cred /\ ba'.status.cond = cond
MayWrite(sa, cred, cond) ==
    \/ Writes(ba.status.sa, ba.status.cred, ba.status.cond)
    \/ Writes(sa, cred, cond)

LEMMA WriteEffect ==
    ASSUME TypeOK, NEW s \in Status
    PROVE  /\ Persisted(s) => Writes(s.sa, s.cred, s.cond)
           /\ NotPersisted(s) => MayWrite(s.sa, s.cred, s.cond)
<1> DEFINE o == [ba EXCEPT !.status = s]
<1>1. /\ o.status = s /\ o.phase = ba.phase /\ o.rotate = ba.rotate
      /\ o.principalRef = ba.principalRef
  BY DEF TypeOK, AccessObject
<1> HIDE DEF o
<1>2. Publish(o) => Writes(s.sa, s.cred, s.cond)
  BY <1>1 DEF Publish, Writes
<1>3. UNCHANGED ba => Writes(ba.status.sa, ba.status.cred, ba.status.cond)
  BY DEF Writes
<1>4. Persisted(s) => Publish(o)
  BY DEF Persisted, o
<1>5. NotPersisted(s) => UNCHANGED ba \/ Publish(o)
  BY DEF NotPersisted, apiVars, o
<1> QED BY <1>2, <1>3, <1>4, <1>5 DEF MayWrite

(* The changes a pass makes to its copy.                                     *)
LEMMA CopyFields ==
    ASSUME TypeOK
    PROVE  /\ obj.status \in Status
           /\ \A c \in Conditions :
                 LET o == [obj EXCEPT !.status.cond = c]
                     s == [obj.status EXCEPT !.cond = c] IN
                 /\ o.status \in Status /\ s \in Status
                 /\ o.status.sa = obj.status.sa /\ s.sa = obj.status.sa
                 /\ o.status.cred = obj.status.cred
                 /\ s.cred = obj.status.cred
                 /\ o.status.cond = c /\ s.cond = c
                 /\ o.rotate = obj.rotate /\ o.principalRef = obj.principalRef
           /\ LET o == [obj EXCEPT !.status.sa = run.sa,
                                   !.status.principal = run.sa] IN
              /\ o.status \in Status /\ o.status.sa = run.sa
              /\ o.status.cred = obj.status.cred
              /\ o.status.cond = obj.status.cond
              /\ o.rotate = obj.rotate /\ o.principalRef = obj.principalRef
           /\ LET o == [obj EXCEPT !.status.cred = run.cred] IN
              /\ o.status \in Status /\ o.status.sa = obj.status.sa
              /\ o.status.cred = run.cred
              /\ o.status.cond = obj.status.cond
              /\ o.rotate = obj.rotate /\ o.principalRef = obj.principalRef
           /\ LET o == [obj EXCEPT !.status.cred = NoID] IN
              /\ o.status.sa = obj.status.sa /\ o.status.cred = NoID
              /\ o.status.cond = obj.status.cond
              /\ o.rotate = obj.rotate /\ o.principalRef = obj.principalRef
           /\ \A S : LET o == [obj EXCEPT !.status.granted = S] IN
              /\ o.status.sa = obj.status.sa
              /\ o.status.cred = obj.status.cred
              /\ o.status.cond = obj.status.cond
              /\ o.rotate = obj.rotate /\ o.principalRef = obj.principalRef
BY DEF TypeOK, AccessObject, Status, Locals

(* Passes that begin or end, and the deletion.                               *)
Closing == \/ AddFinalizer \/ StartReconcile \/ StartTerminate
           \/ WaitForBucket \/ Finish \/ Crash \/ RevokeGranted \/ RevokeRefs
           \/ TerminateCredential \/ TerminateAccount \/ Unfinalize

LEMMA ClosingEffect ==
    ASSUME TypeOK, Closing
    PROVE  /\ pc' \in {"idle", "resolve"} \cup Terminating
           /\ \/ ~run'.rotated /\ run'.key = NoID
              \/ /\ pc \in {"idle"} \cup Terminating
                 /\ run'.rotated = run.rotated /\ run'.key = run.key
<1> USE DEF Goto, Stop, NoLocals, Terminating, workVars
<1>1. CASE AddFinalizer \/ StartReconcile \/ StartTerminate
  BY <1>1 DEF AddFinalizer, StartReconcile, StartTerminate
<1>2. CASE WaitForBucket \/ Finish \/ Crash \/ Unfinalize
  BY <1>2 DEF WaitForBucket, Finish, Crash, Unfinalize
<1>3. CASE RevokeGranted
  <2>1. /\ pc = "revokeGranted"
        /\ \/ pc' = pc /\ \E S : run' = [run EXCEPT !.todo = S]
           \/ pc' = "idle" /\ run' = NoLocals
           \/ pc' = "revokeRefs" /\ \E S : run' = [run EXCEPT !.todo = S]
    BY <1>3 DEF RevokeGranted
  <2> QED BY <2>1 DEF TypeOK, Locals
<1>4. CASE RevokeRefs
  <2>1. /\ pc = "revokeRefs" /\ pc' \in {pc, "dropCred", "unfinalize"}
        /\ run' = run \/ \E S : run' = [run EXCEPT !.todo = S]
    BY <1>4 DEF RevokeRefs
  <2> QED BY <2>1 DEF TypeOK, Locals
<1>5. CASE TerminateCredential \/ TerminateAccount
  BY <1>5 DEF TerminateCredential, TerminateAccount
<1> QED BY <1>1, <1>2, <1>3, <1>4, <1>5 DEF Closing

(* The phases before a credential is looked for, and the external mode.      *)
Early == \/ RefuseReconcile \/ Progress \/ FindServiceAccount
         \/ CreateServiceAccount \/ RefuseNamespace \/ ResolveExternalPrincipal

LEMMA EarlyEffect ==
    ASSUME TypeOK, Early
    PROVE  /\ pc \in {"resolve", "account", "createAccount", "credential",
                      "principal"}
           /\ pc' \in {"degrade", "account", "principal", "persistAccount",
                       "createAccount", "grant", "idle"}
           /\ \/ run'.rotated = run.rotated /\ run'.key = run.key
              \/ ~run'.rotated /\ run'.key = NoID
<1> USE DEF Goto, Stop, NoLocals
<1>1. CASE RefuseReconcile \/ Progress \/ RefuseNamespace
  BY <1>1 DEF RefuseReconcile, Progress, RefuseNamespace
<1>2. CASE FindServiceAccount \/ CreateServiceAccount
  <2>1. \A a : /\ [run EXCEPT !.sa = a].rotated = run.rotated
               /\ [run EXCEPT !.sa = a].key = run.key
    BY DEF TypeOK, Locals
  <2> QED BY <1>2, <2>1 DEF FindServiceAccount, CreateServiceAccount
<1>3. CASE ResolveExternalPrincipal
  <2>1. /\ pc = "principal" /\ pc' \in {"grant", "degrade"}
        /\ \/ run' = [run EXCEPT !.sa = obj.principalRef,
                                 !.todo = BucketsToGrant]
           \/ run' = run
    BY <1>3 DEF ResolveExternalPrincipal
  <2> QED BY <2>1 DEF TypeOK, Locals
<1> QED BY <1>1, <1>2, <1>3 DEF Early

LEMMA PersistAccountEffect ==
    ASSUME TypeOK, PersistAccount
    PROVE  /\ pc = "persistAccount" /\ UNCHANGED <<secretVars, iamVars>>
           /\ \/ /\ pc' = "credential"
                 /\ Writes(run.sa, obj.status.cred, obj.status.cond)
                 /\ obj'.status.sa = run.sa
                 /\ obj'.status.cred = obj.status.cred
                 /\ obj'.status.cond = obj.status.cond
                 /\ obj'.rotate = obj.rotate
                 /\ obj'.principalRef = obj.principalRef
                 /\ run'.sa = run.sa /\ run'.key = run.key
                 /\ run'.rotated = run.rotated
                 /\ run'.prev = obj.status.cred
              \/ /\ pc' = "idle" /\ run' = NoLocals /\ obj' = NoObject
                 /\ MayWrite(run.sa, obj.status.cred, obj.status.cond)
<1> DEFINE o == [obj EXCEPT !.status.sa = run.sa, !.status.principal = run.sa]
           r == [run EXCEPT !.prev = o.status.cred]
<1>1. /\ r.sa = run.sa /\ r.key = run.key /\ r.rotated = run.rotated
      /\ r.prev = o.status.cred
  BY DEF TypeOK, Locals
<1>2. /\ o.status \in Status /\ o.status.sa = run.sa
      /\ o.status.cred = obj.status.cred /\ o.status.cond = obj.status.cond
      /\ o.rotate = obj.rotate /\ o.principalRef = obj.principalRef
  BY CopyFields
<1>3. /\ pc = "persistAccount" /\ UNCHANGED <<secretVars, iamVars>>
      /\ \/ Persisted(o.status) /\ obj' = o /\ run' = r /\ pc' = "credential"
         \/ /\ NotPersisted(o.status) /\ pc' = "idle" /\ run' = NoLocals
            /\ obj' = NoObject
  BY DEF PersistAccount, Goto, Stop
<1> HIDE DEF o, r
<1>4. /\ Persisted(o.status) =>
            Writes(run.sa, obj.status.cred, obj.status.cond)
      /\ NotPersisted(o.status) =>
            MayWrite(run.sa, obj.status.cred, obj.status.cond)
  BY <1>2, WriteEffect
<1> QED BY <1>1, <1>2, <1>3, <1>4

LEMMA ChooseEffect ==
    ASSUME TypeOK, LookUpCredential
    PROVE  /\ pc = "credential" /\ UNCHANGED <<ba, obj, secretVars, iamVars>>
           /\ \/ pc' = "drop" /\ ~SecretOK /\ run' = run
              \/ /\ pc' = "mint" /\ run' = run
                 /\ obj.rotate \/ obj.status.cred = NoID
              \/ /\ pc' = "persistCredential" /\ run'.key = secretCache.key
                 /\ run'.sa = run.sa /\ run'.prev = run.prev
                 /\ run'.rotated = run.rotated
                 /\ KeepsMaterial
                 /\ \/ /\ obj.status.cred # NoID
                       /\ run'.cred = obj.status.cred
                    \/ /\ obj.status.cred = NoID
                       /\ \E c \in Matching : run'.cred = c.id
<1>1. ASSUME NEW c, KeepCredential(c)
      PROVE  /\ pc' = "persistCredential" /\ run'.key = secretCache.key
             /\ run'.sa = run.sa /\ run'.prev = run.prev
             /\ run'.rotated = run.rotated /\ run'.cred = c
  BY <1>1 DEF KeepCredential, Goto, TypeOK, Locals
<1>2. /\ pc = "credential" /\ UNCHANGED <<ba, obj, secretVars, iamVars>>
      /\ \/ pc' = "drop" /\ ~SecretOK /\ run' = run
         \/ /\ pc' = "mint" /\ run' = run
            /\ obj.rotate \/ obj.status.cred = NoID
         \/ /\ KeepsMaterial /\ obj.status.cred # NoID
            /\ KeepCredential(obj.status.cred)
         \/ /\ KeepsMaterial /\ obj.status.cred = NoID
            /\ \E c \in Matching : KeepCredential(c.id)
  BY DEF LookUpCredential, KeepsMaterial, apiVars, Goto
<1> QED BY <1>1, <1>2

LEMMA MintKeyEffect ==
    ASSUME TypeOK, MintCredential
    PROVE  /\ pc = "mint" /\ UNCHANGED <<ba, obj, secretVars>>
           /\ issuedCred' \in {issuedCred, issuedCred + 1}
           /\ creds \subseteq creds'
           /\ run'.sa = run.sa /\ run'.prev = run.prev
           /\ \/ pc' = "degrade" /\ run' = run
              \/ /\ issuedCred' = issuedCred + 1
                 /\ run'.cred = issuedCred' /\ run'.key = issuedCred'
                 /\ [id |-> issuedCred', sa |-> run.sa] \in creds'
                 /\ \/ /\ pc' = "retire" /\ obj.status.cred # NoID
                       /\ obj.status.cred # issuedCred'
                    \/ pc' = "persistCredential"
<1> DEFINE r == [run EXCEPT !.cred = issuedCred', !.key = issuedCred',
                    !.rotated = obj.rotate \/ obj.status.cred # NoID]
<1>1. /\ r.cred = issuedCred' /\ r.key = issuedCred' /\ r.sa = run.sa
      /\ r.prev = run.prev
  BY DEF TypeOK, Locals
<1>2. /\ pc = "mint" /\ UNCHANGED <<ba, obj, secretVars>>
      /\ \/ /\ issuedCred' = issuedCred + 1
            /\ creds' = creds \cup {[id |-> issuedCred', sa |-> run.sa]}
            /\ \/ /\ run' = r
                  /\ pc' = IF Supersedes(issuedCred') THEN "retire"
                           ELSE "persistCredential"
               \/ pc' = "degrade" /\ run' = run
         \/ /\ UNCHANGED <<issuedCred, creds>> /\ pc' = "degrade"
            /\ run' = run
  BY DEF MintCredential, apiVars, Goto
<1> HIDE DEF r
<1> QED BY <1>1, <1>2 DEF Supersedes

LEMMA RecordKeyEffect ==
    ASSUME TypeOK, PersistCredential
    PROVE  /\ pc = "persistCredential" /\ UNCHANGED <<secretVars, iamVars>>
           /\ \/ /\ pc' = "checkSecret" /\ run' = run
                 /\ Writes(obj.status.sa, run.cred, obj.status.cond)
                 /\ obj'.status.sa = obj.status.sa
                 /\ obj'.status.cred = run.cred
                 /\ obj'.status.cond = obj.status.cond
                 /\ obj'.rotate = obj.rotate
                 /\ obj'.principalRef = obj.principalRef
              \/ /\ MayWrite(obj.status.sa, run.cred, obj.status.cond)
                 /\ \/ /\ pc' = "undo" /\ UNCHANGED <<obj, run>>
                       /\ CredentialChanged
                    \/ pc' = "idle" /\ run' = NoLocals /\ obj' = NoObject
<1> DEFINE o == [obj EXCEPT !.status.cred = run.cred]
<1>1. /\ o.status \in Status /\ o.status.sa = obj.status.sa
      /\ o.status.cred = run.cred /\ o.status.cond = obj.status.cond
      /\ o.rotate = obj.rotate /\ o.principalRef = obj.principalRef
  BY CopyFields
<1>2. /\ pc = "persistCredential" /\ UNCHANGED <<secretVars, iamVars>>
      /\ \/ /\ Persisted(o.status) /\ obj' = o /\ run' = run
            /\ pc' = "checkSecret"
         \/ /\ NotPersisted(o.status)
            /\ \/ pc' = "undo" /\ UNCHANGED <<obj, run>> /\ CredentialChanged
               \/ pc' = "idle" /\ run' = NoLocals /\ obj' = NoObject
  BY DEF PersistCredential, Goto, Stop
<1> HIDE DEF o
<1>3. /\ Persisted(o.status) =>
            Writes(obj.status.sa, run.cred, obj.status.cond)
      /\ NotPersisted(o.status) =>
            MayWrite(obj.status.sa, run.cred, obj.status.cond)
  BY <1>1, WriteEffect
<1> QED BY <1>1, <1>2, <1>3

LEMMA DropKeyEffect ==
    ASSUME TypeOK, DropTracked
    PROVE  /\ pc = "drop" /\ UNCHANGED <<ba, run, secretVars, issuedCred>>
           /\ creds' \subseteq creds
           /\ obj'.status.sa = obj.status.sa
           /\ obj'.status.cond = obj.status.cond
           /\ obj'.rotate = obj.rotate /\ obj'.principalRef = obj.principalRef
           /\ \/ pc' = "mint" /\ obj'.status.cred = NoID
              \/ pc' = "degrade" /\ obj' = obj
<1> DEFINE o == [obj EXCEPT !.status.cred = NoID]
<1>1. /\ o.status.sa = obj.status.sa /\ o.status.cond = obj.status.cond
      /\ o.status.cred = NoID
      /\ o.rotate = obj.rotate /\ o.principalRef = obj.principalRef
  BY CopyFields
<1>2. /\ pc = "drop" /\ UNCHANGED <<ba, run, secretVars, issuedCred>>
      /\ creds' \subseteq creds
      /\ \/ pc' = "mint" /\ obj' = o
         \/ pc' = "degrade" /\ obj' = obj
  BY DEF DropTracked, Deleted, apiVars, Goto
<1> HIDE DEF o
<1> QED BY <1>1, <1>2

LEMMA PutEffect ==
    ASSUME TypeOK, PutSecret
    PROVE  /\ pc = "putSecret" /\ UNCHANGED <<ba, obj, iamVars>> /\ SameLocals
           /\ \/ /\ pc' = "persistSecretRef" /\ secretCache = DesiredSecret
                 /\ UNCHANGED secretVars
              \/ /\ pc' \in {"persistSecretRef", "degrade"}
                 /\ secretCache # DesiredSecret /\ secret' = DesiredSecret
                 /\ secretCache' \in {secretCache, DesiredSecret}
                 /\ "secretLag" \notin Env /\ secretCache \notin Hidden
                       => secretCache' = DesiredSecret
              \/ pc' = "degrade" /\ UNCHANGED secretVars /\ UNCHANGED undone
<1>1. \A b : LET r == [run EXCEPT !.swallow = b] IN
             /\ r.sa = run.sa /\ r.cred = run.cred /\ r.prev = run.prev
             /\ r.key = run.key /\ r.rotated = run.rotated
  BY DEF TypeOK, Locals
<1>2. /\ pc = "putSecret" /\ UNCHANGED <<ba, obj, iamVars>>
      /\ run' \in {run, [run EXCEPT !.swallow = SecretWriteNotFound]}
      /\ \/ /\ pc' = "persistSecretRef" /\ secretCache = DesiredSecret
            /\ UNCHANGED secretVars /\ UNCHANGED undone
         \/ /\ pc' \in {"persistSecretRef", "degrade"}
            /\ secretCache # DesiredSecret /\ PublishSecret(DesiredSecret)
         \/ pc' = "degrade" /\ UNCHANGED secretVars /\ UNCHANGED undone
  BY DEF PutSecret, WriteSecret, Goto, apiVars
<1>3. SameLocals
  BY <1>2 DEF SameLocals, TypeOK, Locals
<1> QED BY <1>2, <1>3, PublishSecretEffect

LEMMA GrantEffect ==
    ASSUME TypeOK, GrantBucket \/ AllGranted
    PROVE  /\ pc = "grant" /\ UNCHANGED <<ba, secretVars, iamVars>>
           /\ SameLocals /\ SameCopy /\ obj'.status.cond = obj.status.cond
           /\ pc' \in {"grant", "degrade", "clearRotate", "finish"}
           /\ pc' = "clearRotate" => run.rotated
<1>1. CASE GrantBucket
  <2>1. /\ pc = "grant" /\ UNCHANGED <<ba, obj, secretVars, iamVars>>
        /\ pc' \in {"grant", "degrade"}
        /\ run' = run \/ \E S : run' = [run EXCEPT !.todo = S]
    BY <1>1 DEF GrantBucket, Goto, apiVars
  <2>2. SameLocals
    BY <2>1 DEF SameLocals, TypeOK, Locals
  <2> QED BY <2>1, <2>2 DEF SameCopy
<1>2. CASE AllGranted
  <2> DEFINE o == [obj EXCEPT !.status.granted = obj.refs]
  <2>1. /\ o.status.sa = obj.status.sa /\ o.status.cred = obj.status.cred
        /\ o.status.cond = obj.status.cond
        /\ o.rotate = obj.rotate /\ o.principalRef = obj.principalRef
    BY CopyFields
  <2>2. /\ pc = "grant" /\ UNCHANGED <<ba, run, secretVars, iamVars>>
        /\ obj' = o /\ pc' = IF run.rotated THEN "clearRotate" ELSE "finish"
    BY <1>2 DEF AllGranted, Goto, apiVars
  <2> HIDE DEF o
  <2> QED BY <2>1, <2>2 DEF SameCopy, SameLocals
<1> QED BY <1>1, <1>2

LEMMA SecretRefEffect ==
    ASSUME TypeOK, PersistSecretRef
    PROVE  /\ pc = "persistSecretRef" /\ UNCHANGED <<secretVars, iamVars>>
           /\ \/ /\ pc' = "grant" /\ obj' = obj /\ SameLocals
                 /\ Writes(obj.status.sa, obj.status.cred, obj.status.cond)
              \/ /\ pc' = "idle" /\ run' = NoLocals /\ obj' = NoObject
                 /\ MayWrite(obj.status.sa, obj.status.cred, obj.status.cond)
<1>1. /\ pc = "persistSecretRef" /\ UNCHANGED <<secretVars, iamVars>>
      /\ \/ /\ pc' = "grant" /\ obj' = obj /\ Persisted(obj.status)
            /\ run' = [run EXCEPT !.todo = BucketsToGrant]
         \/ /\ pc' = "idle" /\ run' = NoLocals /\ obj' = NoObject
            /\ NotPersisted(obj.status)
  BY DEF PersistSecretRef, Goto, Stop
<1>2. run' = [run EXCEPT !.todo = BucketsToGrant] => SameLocals
  BY DEF SameLocals, TypeOK, Locals
<1> QED BY <1>1, <1>2, CopyFields, WriteEffect

LEMMA DegradeEffect ==
    ASSUME TypeOK, SetErrorCondition
    PROVE  /\ pc = "degrade" /\ UNCHANGED <<secretVars, iamVars>>
           /\ ~run'.rotated /\ run'.key = NoID
           /\ \/ /\ pc' = "grant" /\ run.swallow /\ SameCopy
                 /\ obj'.status.cond = "Degraded"
                 /\ Writes(obj.status.sa, obj.status.cred, "Degraded")
              \/ /\ pc' = "idle" /\ run' = NoLocals /\ obj' = NoObject
                 /\ MayWrite(obj.status.sa, obj.status.cred, "Degraded")
<1> DEFINE o == [obj EXCEPT !.status.cond = "Degraded"]
           r == [NoLocals EXCEPT !.todo = BucketsToGrant]
<1>1. /\ o.status \in Status /\ o.status.sa = obj.status.sa
      /\ o.status.cred = obj.status.cred /\ o.status.cond = "Degraded"
      /\ o.rotate = obj.rotate /\ o.principalRef = obj.principalRef
  BY CopyFields DEF Conditions
<1>2. /\ ~r.rotated /\ r.key = NoID /\ ~NoLocals.rotated
      /\ NoLocals.key = NoID
  BY DEF NoLocals
<1>3. /\ pc = "degrade" /\ UNCHANGED <<secretVars, iamVars>>
      /\ \/ /\ pc' = "grant" /\ run.swallow /\ obj' = o /\ run' = r
            /\ Persisted(o.status)
         \/ /\ pc' = "idle" /\ run' = NoLocals /\ obj' = NoObject
            /\ Persisted(o.status) \/ NotPersisted(o.status)
  BY DEF SetErrorCondition, Goto, Stop
<1> HIDE DEF o, r
<1>4. /\ Persisted(o.status) =>
            Writes(obj.status.sa, obj.status.cred, "Degraded")
      /\ NotPersisted(o.status) =>
            MayWrite(obj.status.sa, obj.status.cred, "Degraded")
  BY <1>1, WriteEffect
<1> QED BY <1>1, <1>2, <1>3, <1>4 DEF SameCopy, MayWrite

LEMMA ClearKeyEffect ==
    ASSUME TypeOK, ClearRotateAnnotation
    PROVE  /\ pc = "clearRotate" /\ UNCHANGED <<secretVars, iamVars>>
           /\ ba'.status = ba.status /\ ba'.phase = ba.phase
           /\ ba'.principalRef = ba.principalRef
           /\ ba'.rotate \in {ba.rotate, FALSE}
           /\ \/ /\ pc' = "finish" /\ run' = run
                 /\ obj'.status = obj.status
                 /\ obj'.principalRef = obj.principalRef
              \/ pc' = "idle" /\ run' = NoLocals /\ obj' = NoObject
<1> DEFINE cleared == [ba EXCEPT !.rotate = FALSE]
           o == [obj EXCEPT !.rotate = FALSE]
<1>1. /\ cleared.status = ba.status /\ cleared.phase = ba.phase
      /\ cleared.principalRef = ba.principalRef
      /\ cleared.rotate = FALSE
      /\ o.status = obj.status /\ o.principalRef = obj.principalRef
  BY DEF TypeOK, AccessObject
<1>2. /\ pc = "clearRotate" /\ UNCHANGED <<secretVars, iamVars>>
      /\ ba' \in {ba, cleared}
      /\ \/ pc' = "finish" /\ run' = run /\ obj' \in {obj, o}
         \/ pc' = "idle" /\ run' = NoLocals /\ obj' = NoObject
  BY DEF ClearRotateAnnotation, Goto, Stop, Publish, apiVars
<1> HIDE DEF cleared, o
<1> QED BY <1>1, <1>2

(* Everybody else. A Secret of somebody else takes the place of none only.   *)
LEMMA SecretEdits ==
    ASSUME TypeOK, EditSecret
    PROVE  /\ UNCHANGED <<ba, workVars, iamVars>>
           /\ secretCache' \in {secretCache, secret'}
           /\ "secretLag" \notin Env /\ secretCache \notin Hidden
                 => secretCache' = secret'
           /\ \/ secret' = NoSecret /\ "deleteSecret" \in Env
              \/ /\ secret = NoSecret /\ "racingSecret" \in Env
                 /\ secret'.owner = "other"
                 /\ secret'.key \in {ForeignKey, NoID}
<1>1. \A key : [owner |-> "other", key |-> key].owner = "other"
               /\ [owner |-> "other", key |-> key].key = key
  OBVIOUS
<1>2. UNCHANGED <<ba, workVars, iamVars>>
  BY DEF EditSecret, apiVars
<1>3. CASE "deleteSecret" \in Env /\ PublishSecret(NoSecret)
  BY <1>2, <1>3, PublishSecretEffect
<1>4. CASE /\ "racingSecret" \in Env /\ secret = NoSecret
           /\ \E key \in {ForeignKey, NoID} :
                 PublishSecret([owner |-> "other", key |-> key])
  <2>1. PICK key \in {ForeignKey, NoID} :
                PublishSecret([owner |-> "other", key |-> key])
    BY <1>4
  <2> DEFINE s == [owner |-> "other", key |-> key]
  <2>2. s.owner = "other" /\ s.key = key /\ PublishSecret(s)
    BY <2>1
  <2> HIDE DEF s
  <2> QED BY <1>2, <1>4, <2>2, PublishSecretEffect
<1> QED BY <1>3, <1>4 DEF EditSecret, Edit

Elsewhere == SyncAccess \/ BucketController \/ EditAccess

LEMMA ElsewhereEffect ==
    ASSUME TypeOK, Elsewhere
    PROVE  /\ UNCHANGED <<workVars, secretVars, iamVars>>
           /\ ba'.status = ba.status
BY EditEffect DEF Elsewhere, SyncAccess, BucketController, BucketChanges,
                  ReadPolicy, WritePolicy, EditAccess, apiVars

LEMMA CacheEffect ==
    ASSUME SyncSecret \/ RestartWithNamespaces
    PROVE  /\ UNCHANGED <<ba, workVars, secret, iamVars>>
           /\ secretCache' \in {secret} \cup Hidden
           /\ SyncSecret => secretCache' = secret
           /\ RestartWithNamespaces => "unlist" \in Env
BY DEF SyncSecret, RestartWithNamespaces, apiVars, Edit

(* These are all steps.                                                      *)
LEMMA KeySteps ==
    ASSUME [Next]_vars
    PROVE  \/ UNCHANGED vars \/ Closing \/ Early \/ PersistAccount
           \/ LookUpCredential \/ DropTracked \/ MintCredential
           \/ RetirePrevious \/ PersistCredential \/ UndoCredential
           \/ CheckSecret \/ PutSecret \/ PersistSecretRef
           \/ GrantBucket \/ AllGranted \/ ClearRotateAnnotation
           \/ SetErrorCondition \/ EditSecret \/ Elsewhere
           \/ SyncSecret \/ RestartWithNamespaces
BY DEF Next, Pass, Sync, Users, Closing, Early, Elsewhere

(* Our Secret stays, or the history shows that somebody deleted it.          *)
LEMMA SecretRemembered ==
    ASSUME TypeOK, [Next]_vars, secret.owner = "self" \/ SecretDeleted
    PROVE  secret'.owner = "self" \/ SecretDeleted'
<1> USE DEF SecretDeleted
<1>1. \A S : /\ [undone EXCEPT !.grants = S].secret = undone.secret
             /\ \A b : [undone EXCEPT !.secret = b].secret = b
  BY DEF TypeOK
<1>2. CASE PutSecret
  <2>1. secret' = DesiredSecret \/ (UNCHANGED secret /\ UNCHANGED undone)
    BY <1>2 DEF PutSecret, WriteSecret, PublishSecret, secretVars
  <2>2. DesiredSecret.owner = "self"
    BY DEF DesiredSecret
  <2> QED BY <2>1, <2>2
<1>3. CASE EditSecret
  <2>1. CASE UNCHANGED undone /\ secret = NoSecret
    BY <2>1 DEF NoSecret
  <2>2. CASE undone' = [undone EXCEPT !.secret = @ \/ SecretOwned(secret)]
    BY <1>1, <2>2 DEF SecretOwned
  <2> QED BY <1>3, <2>1, <2>2 DEF EditSecret
<1>4. CASE GrantBucket \/ RevokeGranted \/ RevokeRefs
  <2>1. /\ UNCHANGED secret
        /\ undone' = undone \/ \E S : undone' = [undone EXCEPT !.grants = S]
    BY <1>4 DEF GrantBucket, RevokeGranted, RevokeRefs, Rewrite, secretVars
  <2> QED BY <1>1, <2>1
<1>5. CASE WritePolicy
  <2>1. /\ UNCHANGED secret
        /\ undone' = undone \/ \E S : undone' = [undone EXCEPT !.grants = S]
    BY <1>5 DEF WritePolicy, secretVars
  <2> QED BY <1>1, <2>1
<1>6. UNCHANGED secret /\ UNCHANGED undone
         => secret'.owner = "self" \/ SecretDeleted'
  OBVIOUS
<1>7. CASE Closing /\ ~(RevokeGranted \/ RevokeRefs)
  BY <1>6, <1>7
  DEF Closing, AddFinalizer, StartReconcile, StartTerminate, WaitForBucket,
      Finish, Crash, TerminateCredential, TerminateAccount, Unfinalize,
      secretVars, othersVars
<1>8. CASE Early \/ PersistAccount \/ LookUpCredential
  BY <1>6, <1>8
  DEF Early, RefuseReconcile, Progress, FindServiceAccount,
      CreateServiceAccount, RefuseNamespace, ResolveExternalPrincipal,
      PersistAccount, LookUpCredential, secretVars, othersVars
<1>9. CASE \/ DropTracked \/ MintCredential \/ RetirePrevious
           \/ PersistCredential \/ UndoCredential \/ CheckSecret
  BY <1>6, <1>9
  DEF DropTracked, MintCredential, RetirePrevious, PersistCredential,
      UndoCredential, CheckSecret, secretVars, othersVars
<1>10. CASE \/ PersistSecretRef \/ AllGranted \/ ClearRotateAnnotation
            \/ SetErrorCondition
  BY <1>6, <1>10
  DEF PersistSecretRef, AllGranted, ClearRotateAnnotation, SetErrorCondition,
      secretVars, othersVars
<1>11. CASE \/ SyncAccess \/ EditAccess \/ BucketChanges \/ ReadPolicy
            \/ SyncSecret \/ RestartWithNamespaces \/ UNCHANGED vars
  BY <1>6, <1>11
  DEF SyncAccess, EditAccess, BucketChanges, ReadPolicy, SyncSecret,
      RestartWithNamespaces, vars, secretVars, othersVars
<1> QED BY <1>2, <1>3, <1>4, <1>5, <1>7, <1>8, <1>9, <1>10, <1>11, KeySteps
        DEF Elsewhere, BucketController

-----------------------------------------------------------------------------
(* Keys are issued before they are stored                                    *)

LEMMA KeysStep == TypeOK /\ KeysInv /\ [Next]_vars => KeysInv'
<1> SUFFICES ASSUME TypeOK, KeysInv, [Next]_vars PROVE KeysInv'
  OBVIOUS
<1> DEFINE Issued(k) == k # ForeignKey => k <= issuedCred
           Later(k) == k # ForeignKey => k <= issuedCred'
<1>1. issuedCred \in Nat /\ issuedCred' \in Nat /\ issuedCred' >= issuedCred
  <2>1. issuedCred \in Nat
    BY BoundsAssumption DEF TypeOK
  <2> QED BY <2>1, IssueFrame, MintKeyEffect DEF vars
<1>2. \A k \in Keys : Issued(k) => Later(k)
  BY <1>1, IdentityAssumption, BoundsAssumption DEF Keys, CredentialIDs, NoID
<1>3. secret.key \in Keys /\ secretCache.key \in Keys /\ run.key \in Keys
  BY BlankTypes DEF TypeOK, Secrets, Locals
<1>4. Later(NoID) /\ Later(ForeignKey) /\ Later(issuedCred')
  BY <1>1 DEF NoID
<1>5. /\ Later(secret.key) /\ Later(secretCache.key) /\ Later(run.key)
      /\ \A s \in Hidden : s.key = NoID
  BY <1>2, <1>3 DEF KeysInv, Hidden, Unreadable, Forbidden
<1>6. NoSecret.key = NoID /\ DesiredSecret.key = run.key /\ NoLocals.key = NoID
  BY DEF NoSecret, DesiredSecret, NoLocals
<1> HIDE DEF Issued, Later
<1>7. Later(run'.key)
  <2>1. CASE Closing \/ Early
    BY <1>4, <1>5, <2>1, ClosingEffect, EarlyEffect
  <2>2. CASE PersistAccount \/ LookUpCredential \/ DropTracked
             \/ MintCredential \/ PersistCredential
    BY <1>4, <1>5, <1>6, <2>2, PersistAccountEffect, ChooseEffect,
       DropKeyEffect, MintKeyEffect, RecordKeyEffect
  <2>3. CASE RetirePrevious \/ UndoCredential \/ CheckSecret
    BY <1>4, <1>5, <1>6, <2>3 DEF RetirePrevious, UndoCredential, CheckSecret,
                                  Stop
  <2>4. CASE PutSecret \/ PersistSecretRef \/ GrantBucket \/ AllGranted
             \/ ClearRotateAnnotation \/ SetErrorCondition
    BY <1>4, <1>5, <1>6, <2>4, PutEffect, SecretRefEffect, GrantEffect,
       ClearKeyEffect, DegradeEffect DEF SameLocals
  <2>5. CASE \/ UNCHANGED vars \/ EditSecret \/ Elsewhere
             \/ SyncSecret \/ RestartWithNamespaces
    BY <1>5, <2>5, SecretEdits, ElsewhereEffect, CacheEffect DEF vars, workVars
  <2> QED BY <2>1, <2>2, <2>3, <2>4, <2>5, KeySteps
<1>8. Later(secret'.key) /\ Later(secretCache'.key)
  <2>1. CASE UNCHANGED vars \/ (Next /\ ~SecretActions)
    BY <1>5, <2>1, SecretFrame DEF vars, secretVars
  <2>2. CASE PutSecret
    BY <1>5, <1>6, <2>2, PutEffect DEF secretVars
  <2>3. CASE CheckSecret
    BY <1>5, <2>3 DEF CheckSecret, secretVars
  <2>4. CASE EditSecret
    BY <1>4, <1>5, <1>6, <2>4, SecretEdits
  <2>5. CASE SyncSecret \/ RestartWithNamespaces
    BY <1>4, <1>5, <2>5, CacheEffect
  <2>6. CASE Crash
    BY <1>5, <2>6 DEF Crash
  <2> QED BY <2>1, <2>2, <2>3, <2>4, <2>5, <2>6 DEF SecretActions
<1> QED BY <1>7, <1>8 DEF KeysInv, Later

-----------------------------------------------------------------------------
(* Rotations                                                                 *)

LEMMA RotateStep ==
    ASSUME TypeOK, KeysInv, IssueInv, RotateInv, [Next]_vars
    PROVE  RotateInv'
<1> DEFINE At(r) == [id |-> r.cred, sa |-> r.sa]
<1> USE DEF RotateInv, Accounted, Unwritten, Written, Terminating, workVars
<1>seen. secret.owner = "self" \/ SecretDeleted
         => secret'.owner = "self" \/ SecretDeleted'
  BY SecretRemembered
<1>1. CASE UNCHANGED vars
  BY <1>1, <1>seen DEF vars
<1>2. CASE Closing
  BY <1>seen, <1>2, ClosingEffect
<1>3. CASE Early
  BY <1>seen, <1>3, EarlyEffect
<1>4. /\ ~NoLocals.rotated /\ NoSecret.owner = "none" /\ NoSecret.key = NoID
      /\ \A s \in Hidden : s.key = NoID
  BY DEF NoLocals, NoSecret, Hidden, Unreadable, Forbidden
<1>minted. run.rotated /\ pc \in Unwritten \cup Written
          => run.key \notin {NoID, ForeignKey}
  <2>1. At(run) \in creds => run.cred \in CredentialIDs
    BY DEF TypeOK
  <2> QED BY <2>1, IdentityAssumption DEF CredentialIDs, NoID
<1>5. CASE PersistAccount
  BY <1>seen, <1>4, <1>5, PersistAccountEffect DEF Writes
<1>6. CASE LookUpCredential
  BY <1>seen, <1>6, ChooseEffect
<1>7. CASE DropTracked
  BY <1>seen, <1>7, DropKeyEffect
<1>8. CASE MintCredential
  <2>1. issuedCred \in Nat /\ issuedCred' \in CredentialIDs \cup {NoID}
    BY BoundsAssumption, <1>8 DEF TypeOK, MintCredential, CredentialIDs, NoID
  <2>2. issuedCred + 1 \notin {secret.key, secretCache.key}
    BY <2>1, IdentityAssumption DEF KeysInv
  <2> QED BY <1>seen, <1>8, <2>2, MintKeyEffect DEF secretVars
<1>9. CASE RetirePrevious
  <2>1. /\ pc = "retire" /\ pc' = "persistCredential"
        /\ UNCHANGED <<ba, obj, run, secretVars>>
        /\ creds' \in {creds, Deleted(run.sa, obj.status.cred)}
    BY <1>9 DEF RetirePrevious, DeleteOrLog, Goto, apiVars
  <2>2. run.rotated => At(run) \in creds'
    BY <2>1 DEF Deleted
  <2> QED BY <2>1, <2>2 DEF secretVars
<1>10. CASE PersistCredential
  BY <1>seen, <1>4, <1>10, RecordKeyEffect
  DEF Writes, MayWrite, secretVars, iamVars
<1>11. CASE UndoCredential
  BY <1>seen, <1>4, <1>11 DEF UndoCredential, Stop
<1>12. CASE CheckSecret
  BY <1>seen, <1>12 DEF CheckSecret, Goto, apiVars, secretVars, iamVars
<1>13. CASE PutSecret
  <2>1. DesiredSecret.owner = "self" /\ DesiredSecret.key = run.key
    BY DEF DesiredSecret
  <2> QED BY <1>seen, <1>13, <2>1, PutEffect DEF SameLocals, iamVars
<1>14. CASE PersistSecretRef
  BY <1>seen, <1>4, <1>14, SecretRefEffect
  DEF SameLocals, Writes, iamVars, secretVars
<1>15. CASE GrantBucket \/ AllGranted
  BY <1>seen, <1>15, GrantEffect
  DEF SameLocals, SameCopy, iamVars, secretVars
<1>16. CASE ClearRotateAnnotation
  BY <1>seen, <1>4, <1>16, ClearKeyEffect
<1>17. CASE SetErrorCondition
  BY <1>seen, <1>17, DegradeEffect
<1>18. CASE EditSecret
  BY <1>seen, <1>4, <1>18, <1>minted, SecretEdits DEF iamVars
<1>19. CASE Elsewhere
  BY <1>seen, <1>19, ElsewhereEffect DEF secretVars, iamVars
<1>20. CASE SyncSecret \/ RestartWithNamespaces
  BY <1>seen, <1>4, <1>20, <1>minted, CacheEffect DEF iamVars
<1> QED BY <1>1, <1>2, <1>3, <1>5, <1>6, <1>7, <1>8, <1>9, <1>10, <1>11,
           <1>12, <1>13, <1>14, <1>15, <1>16, <1>17, <1>18, <1>19, <1>20,
           KeySteps

(* Whatever happens meanwhile: while a pass is about to remove the rotation  *)
(* annotation, the Secret (unless somebody deleted it) holds the credential  *)
(* that this very pass minted, and it lives on the account status names.     *)
THEOREM RotationIsComplete == Spec => RotationComplete
<1> DEFINE IInv == TypeOK /\ KeysInv /\ IssueInv /\ RotateInv
           Complete == pc = "clearRotate" /\ ~SecretDeleted =>
                          Usable /\ secret.key = run.cred /\ run.rotated
<1>1. Init => IInv
  <2> SUFFICES ASSUME Init PROVE IInv
    OBVIOUS
  <2>1. /\ pc = "idle" /\ run = NoLocals /\ creds = {} /\ issuedCred = 0
        /\ secretCache = secret
    BY DEF Init
  <2>2. secret.key \in {ForeignKey, NoID}
    BY DEF Init, NoSecret
  <2>3. NoLocals.key = NoID /\ ~NoLocals.rotated
    BY DEF NoLocals
  <2>4. KeysInv
    BY <2>1, <2>2, <2>3 DEF KeysInv, NoID
  <2>5. IssueInv /\ RotateInv
    BY <2>1, <2>3 DEF IssueInv, RotateInv, Accounted, Unwritten, Written
  <2> QED BY InitType, <2>4, <2>5
<1>2. IInv /\ [Next]_vars => IInv'
  <2> SUFFICES ASSUME IInv, [Next]_vars PROVE IInv'
    OBVIOUS
  <2>1. TypeOK'
    BY PassType, OthersType DEF Next, TypeOK, vars
  <2> QED BY <2>1, KeysStep, IssueStep, RotateStep
<1>3. IInv => Complete
  <2> SUFFICES ASSUME IInv, pc = "clearRotate", ~SecretDeleted
               PROVE  Usable /\ secret.key = run.cred /\ run.rotated
    OBVIOUS
  <2> QED BY DEF RotateInv, Written, Unwritten, SecretDeleted, Usable
<1>4. IInv => [(/\ pc = "clearRotate" /\ ba.rotate /\ ~ba'.rotate
                /\ ~SecretDeleted)
                  => Usable /\ secret.key = run.cred /\ run.rotated]_vars
  BY <1>3
<1> QED BY <1>1, <1>2, <1>4, PTL DEF Spec, RotationComplete

-----------------------------------------------------------------------------
(* A key that works is left alone                                            *)

(* Caches that follow at once, managed mode, and namespaces that stay listed. *)
Steady == Env \cap {"accessLag", "secretLag", "switchMode", "unlist"} = {}

LEMMA ClosingWrites ==
    ASSUME TypeOK, CurrentInv, Closing
    PROVE  /\ secret' = secret /\ secretCache' \in {secretCache, secret}
           /\ ba'.principalRef = ba.principalRef /\ ba'.rotate = ba.rotate
           /\ ba'.phase = "live" => ba.phase = "live"
           /\ pc \notin Terminating => creds' = creds
           /\ \/ ba'.status = ba.status
              \/ /\ pc = "resolve" /\ pc' = "idle"
                 /\ MayWrite(obj.status.sa, obj.status.cred, "Progressing")
              \/ /\ pc = "finish" /\ pc' = "idle"
                 /\ MayWrite(obj.status.sa, obj.status.cred, "Available")
           /\ \/ pc' = "idle" /\ obj' = NoObject
              \/ pc' = "idle" /\ pc = "idle" /\ obj' = obj
              \/ /\ pc = "idle" /\ obj' = ba
                 /\ pc' \in {"resolve"} \cup Terminating
              \/ pc \in Terminating /\ pc' \in Terminating /\ obj' = obj
<1> USE DEF Goto, Stop, Terminating, workVars, secretVars, iamVars, apiVars
<1>1. CASE StartReconcile \/ StartTerminate
  BY <1>1 DEF StartReconcile, StartTerminate, CurrentInv
<1>2. CASE AddFinalizer \/ Unfinalize
  <2> DEFINE with == [ba EXCEPT !.finalizer = TRUE]
             done == [ba EXCEPT !.finalizer = FALSE, !.phase = "gone"]
  <2>1. /\ with.principalRef = ba.principalRef /\ with.rotate = ba.rotate
        /\ with.phase = ba.phase /\ with.status = ba.status
        /\ done.principalRef = ba.principalRef /\ done.rotate = ba.rotate
        /\ done.phase = "gone" /\ done.status = ba.status
    BY DEF TypeOK, AccessObject
  <2>2. /\ UNCHANGED <<secretVars, creds>> /\ ba' \in {ba, with, done}
        /\ pc' = "idle" /\ ((pc = "idle" /\ obj' = obj) \/ obj' = NoObject)
    BY <1>2 DEF AddFinalizer, Unfinalize, Publish
  <2> HIDE DEF with, done
  <2> QED BY <2>1, <2>2
<1>3. CASE WaitForBucket
  <2> DEFINE s == Progressing(obj).status
  <2>1. /\ s \in Status /\ s.sa = obj.status.sa /\ s.cred = obj.status.cred
        /\ s.cond = "Progressing"
    BY CopyFields DEF Progressing, Conditions
  <2>2. /\ Persisted(s) \/ NotPersisted(s)
        /\ pc = "resolve" /\ pc' = "idle" /\ obj' = NoObject
        /\ UNCHANGED <<secretVars, creds>>
    BY <1>3 DEF WaitForBucket
  <2> HIDE DEF s
  <2>3. MayWrite(obj.status.sa, obj.status.cred, "Progressing")
    BY <2>1, <2>2, WriteEffect DEF MayWrite
  <2> QED BY <2>2, <2>3 DEF MayWrite, Writes
<1>4. CASE Finish
  <2> DEFINE s == [obj.status EXCEPT !.cond = "Available"]
  <2>1. /\ s \in Status /\ s.sa = obj.status.sa /\ s.cred = obj.status.cred
        /\ s.cond = "Available"
    BY CopyFields DEF Conditions
  <2>2. /\ Persisted(s) \/ NotPersisted(s)
        /\ pc = "finish" /\ pc' = "idle" /\ obj' = NoObject
        /\ UNCHANGED <<secretVars, creds>>
    BY <1>4 DEF Finish
  <2> HIDE DEF s
  <2>3. MayWrite(obj.status.sa, obj.status.cred, "Available")
    BY <2>1, <2>2, WriteEffect DEF MayWrite
  <2> QED BY <2>2, <2>3 DEF MayWrite, Writes
<1>5. CASE Crash
  BY <1>5 DEF Crash
<1>6. CASE RevokeGranted \/ RevokeRefs
  BY <1>6 DEF RevokeGranted, RevokeRefs
<1>7. CASE TerminateCredential \/ TerminateAccount
  BY <1>7 DEF TerminateCredential, TerminateAccount
<1> QED BY <1>1, <1>2, <1>3, <1>4, <1>5, <1>6, <1>7 DEF Closing

LEMMA EarlyWrites ==
    ASSUME TypeOK, Early, Managed(obj), pc # "principal"
    PROVE  /\ UNCHANGED <<secretVars, creds>>
           /\ \/ /\ ba' = ba /\ obj' = obj
                 /\ pc' \in {"degrade", "persistAccount", "createAccount"}
              \/ /\ pc = "resolve" /\ pc' = "account"
                 /\ SameCopy /\ obj'.status.cond = "Progressing"
                 /\ Writes(obj.status.sa, obj.status.cred, "Progressing")
              \/ /\ pc = "resolve" /\ pc' = "idle" /\ obj' = NoObject
                 /\ MayWrite(obj.status.sa, obj.status.cred, "Progressing")
<1> USE DEF Goto, Stop, apiVars, iamVars
<1>1. CASE RefuseReconcile \/ RefuseNamespace
  BY <1>1 DEF RefuseReconcile, RefuseNamespace
<1>2. CASE FindServiceAccount \/ CreateServiceAccount
  BY <1>2 DEF FindServiceAccount, CreateServiceAccount
<1>3. CASE Progress
  <2> DEFINE o == Progressing(obj)
  <2>1. /\ o.status \in Status /\ o.status.sa = obj.status.sa
        /\ o.status.cred = obj.status.cred /\ o.status.cond = "Progressing"
        /\ o.rotate = obj.rotate /\ o.principalRef = obj.principalRef
    BY CopyFields DEF Progressing, Conditions
  <2>2. /\ pc = "resolve" /\ UNCHANGED <<secretVars, creds>>
        /\ \/ Persisted(o.status) /\ obj' = o /\ pc' = "account"
           \/ NotPersisted(o.status) /\ obj' = NoObject /\ pc' = "idle"
    BY <1>3 DEF Progress
  <2> HIDE DEF o
  <2>3. /\ Persisted(o.status) =>
              Writes(obj.status.sa, obj.status.cred, "Progressing")
        /\ NotPersisted(o.status) =>
              MayWrite(obj.status.sa, obj.status.cred, "Progressing")
    BY <2>1, WriteEffect
  <2> QED BY <2>1, <2>2, <2>3 DEF SameCopy
<1>4. CASE ResolveExternalPrincipal
  BY <1>4 DEF ResolveExternalPrincipal
<1> QED BY <1>1, <1>2, <1>3, <1>4 DEF Early

LEMMA KeepStep ==
    ASSUME Steady, TypeOK, CurrentInv, KeepInv, [Next]_vars
    PROVE  KeepInv'
<1> USE DEF KeepInv, Managed, Unwritten, Terminating, workVars
<1>1. /\ NoSecret.owner = "none" /\ NoSecret.key = NoID
      /\ NoObject.principalRef = NoID
  BY DEF NoSecret, NoObject, Created
<1>2. /\ secretCache \notin Hidden
      /\ \A s : secretCache' \in {secretCache, s} /\ secretCache' # s
                => secretCache' = secretCache
  BY DEF TypeOK, Secrets, Hidden, Unreadable, Forbidden
<1>3. "secretLag" \notin Env /\ "unlist" \notin Env /\ "switchMode" \notin Env
  BY DEF Steady
<1>4. CASE UNCHANGED vars
  BY <1>4 DEF vars, CredentialChanged
<1>5. CASE Closing
  BY <1>1, <1>5, ClosingWrites DEF MayWrite, Writes
<1>6. CASE Early
  <2>1. /\ Managed(obj) /\ pc \notin {"idle", "principal"}
        /\ pc' \notin Unwritten \cup {"credential", "drop", "mint", "undo"}
    BY <1>6, EarlyEffect, EarlyWrites
  <2> QED BY <1>1, <1>6, <2>1, EarlyWrites
          DEF MayWrite, Writes, SameCopy, secretVars
<1>7. CASE PersistAccount
  BY <1>1, <1>7, PersistAccountEffect DEF MayWrite, Writes, secretVars
<1>8. CASE LookUpCredential
  <2>1. ~SecretOK => secret.owner # "self"
    BY <1>1 DEF SecretOK
  <2>2. \A c \in Matching : c.id # NoID
    BY DEF Matching, TypeOK, CredentialIDs, NoID
  <2> QED BY <1>8, <2>1, <2>2, ChooseEffect
          DEF KeepsMaterial, SecretOK, CredentialChanged, secretVars
<1>9. CASE DropTracked
  BY <1>9, DropKeyEffect DEF secretVars
<1>10. CASE MintCredential
  <2>1. issuedCred \in Nat /\ issuedCred + 1 # NoID
    BY BoundsAssumption DEF TypeOK, NoID
  <2> QED BY <1>10, <2>1, MintKeyEffect DEF secretVars
<1>11. CASE RetirePrevious
  BY <1>11 DEF RetirePrevious, Goto, apiVars, secretVars, CredentialChanged
<1>12. CASE PersistCredential
  BY <1>1, <1>12, RecordKeyEffect DEF MayWrite, Writes, secretVars
<1>13. CASE UndoCredential
  BY <1>1, <1>13 DEF UndoCredential, Stop, apiVars, secretVars
<1>14. CASE CheckSecret
  BY <1>14 DEF CheckSecret, Goto, apiVars, secretVars
<1>15. CASE PutSecret
  <2>1. DesiredSecret.owner = "self" /\ DesiredSecret.key = run.key
    BY DEF DesiredSecret
  <2> QED BY <1>2, <1>3, <1>15, <2>1, PutEffect DEF secretVars
<1>16. CASE PersistSecretRef
  BY <1>1, <1>16, SecretRefEffect DEF MayWrite, Writes, secretVars
<1>17. CASE GrantBucket \/ AllGranted
  BY <1>17, GrantEffect DEF SameCopy, secretVars
<1>18. CASE ClearRotateAnnotation
  BY <1>1, <1>18, ClearKeyEffect DEF secretVars
<1>19. CASE SetErrorCondition
  BY <1>1, <1>19, DegradeEffect DEF MayWrite, Writes, SameCopy, secretVars
<1>20. CASE EditSecret
  BY <1>1, <1>2, <1>3, <1>20, SecretEdits DEF CredentialChanged
<1>21. CASE Elsewhere
  <2>1. ba'.principalRef = ba.principalRef
    BY <1>3, <1>21, SwitchEffect
    DEF Elsewhere, SyncAccess, BucketController, BucketChanges, ReadPolicy,
        WritePolicy, apiVars
  <2> QED BY <1>21, <2>1, ElsewhereEffect DEF secretVars, CredentialChanged
<1>22. CASE SyncSecret \/ RestartWithNamespaces
  BY <1>3, <1>22, CacheEffect DEF CredentialChanged
<1> QED BY <1>4, <1>5, <1>6, <1>7, <1>8, <1>9, <1>10, <1>11, <1>12, <1>13,
           <1>14, <1>15, <1>16, <1>17, <1>18, <1>19, <1>20, <1>21, <1>22,
           KeySteps

(* With caches that follow at once, in managed mode and with the namespace   *)
(* listed all along, a pass that no annotation asked to rotate leaves the    *)
(* credential of the Secret alive, through every failed or half-answered     *)
(* call, crash, deletion or replacement of the Secret and cancelled rotation. *)
(* Each kind of trouble that Steady rules out makes this false.              *)
THEOREM WorkingKeyIsKept == Steady => (Spec => WorkingKeyKept)
<1> SUFFICES ASSUME Steady PROVE Spec => WorkingKeyKept
  OBVIOUS
<1> DEFINE IInv == TypeOK /\ CurrentInv /\ KeepInv
<1>1. Init => IInv
  <2> SUFFICES ASSUME Init PROVE IInv
    OBVIOUS
  <2>1. /\ pc = "idle" /\ secretCache = secret /\ baCache = ba
        /\ secret.owner # "self" /\ secret.key \in {ForeignKey, NoID}
    BY DEF Init, NoSecret
  <2>2. ba.principalRef = NoID
    BY DEF Init, Steady, Created
  <2> QED BY InitType, <2>1, <2>2 DEF CurrentInv, KeepInv, Managed, Unwritten
<1>2. IInv /\ [Next]_vars => IInv'
  <2> SUFFICES ASSUME IInv, [Next]_vars PROVE IInv'
    OBVIOUS
  <2>1. TypeOK'
    BY PassType, OthersType DEF Next, TypeOK, vars
  <2>2. CurrentInv'
    BY CurrentStep DEF Steady
  <2> QED BY <2>1, <2>2, KeepStep
<1>3. IInv => ~(pc \in {"drop", "retire", "undo"} /\ ~obj.rotate /\ Usable)
  <2> SUFFICES ASSUME IInv, pc \in {"drop", "retire", "undo"}, ~obj.rotate
               PROVE  ~Usable
    OBVIOUS
  <2>1. secret.key \in {ForeignKey, NoID}
    BY DEF KeepInv
  <2>2. \A c \in creds : c.id \notin {ForeignKey, NoID}
    BY IdentityAssumption DEF TypeOK, CredentialIDs, NoID
  <2> QED BY <2>1, <2>2 DEF Usable
<1>4. IInv => [(pc \in {"drop", "retire", "undo"} /\ ~obj.rotate /\ Usable)
                  => Usable']_vars
  BY <1>3
<1> QED BY <1>1, <1>2, <1>4, PTL DEF Spec, WorkingKeyKept

-----------------------------------------------------------------------------
(* An object that reports Ready has a key that works                         *)

(* Besides: no cancelled rotation, a namespace that exists, and no Secret of *)
(* somebody else under the name that is deleted again.                       *)
Undisturbed ==
    /\ Steady
    /\ Env \cap {"cancelRotation", "noNamespace"} = {}
    /\ \/ Env \cap {"foreignSecret", "racingSecret"} = {}
       \/ "deleteSecret" \notin Env

LEMMA RotateStays ==
    ASSUME TypeOK, EditAccess, "cancelRotation" \notin Env
    PROVE  ba.rotate => ba'.rotate
<1> DEFINE Del == [ba EXCEPT !.phase = IF ba.finalizer THEN "deleting"
                                                       ELSE "gone"]
<1>1. /\ \A S : [ba EXCEPT !.refs = S].rotate = ba.rotate
      /\ \A r : [ba EXCEPT !.principalRef = r].rotate = ba.rotate
      /\ [ba EXCEPT !.rotate = TRUE].rotate
      /\ [ba EXCEPT !.suspended = ~@].rotate = ba.rotate
      /\ Del.rotate = ba.rotate
  BY DEF TypeOK, AccessObject
<1>2. \/ \E S : ba' = [ba EXCEPT !.refs = S]
      \/ \E r : ba' = [ba EXCEPT !.principalRef = r]
      \/ ba' = [ba EXCEPT !.rotate = TRUE]
      \/ ba' = [ba EXCEPT !.suspended = ~@]
      \/ ba' = Del
  BY DEF EditAccess, Edit, Publish
<1> HIDE DEF Del
<1> QED BY <1>1, <1>2

(* The account that status is about to name is the one a working key is on.  *)
LEMMA SameAccount ==
    ASSUME TypeOK, AccountInv, ForeignInv, HomeInv, pc = "persistAccount",
           NEW key, Works(key)
    PROVE  ba.status.sa = run.sa
<1>1. PICK c \in creds : c.sa = ba.status.sa
  BY DEF Works
<1>2. ba.status.sa \in OurAccounts
  BY <1>1 DEF HomeInv, ForeignInv, ForeignAccountUntouched, OurAccounts
<1>3. run.sa \in OurAccounts
  BY DEF HomeInv, ForeignInv, OnAccount, OurAccounts
<1> QED BY <1>2, <1>3 DEF AccountInv, OneServiceAccount

LEMMA UsableStep ==
    ASSUME Undisturbed, TypeOK, AccountInv, ForeignInv, HomeInv, CurrentInv,
           DeletionInv, NotFoundInv, RotateInv, KeepInv, UsableInv, [Next]_vars
    PROVE  UsableInv'
<1> USE DEF UsableInv, Works, Terminating, workVars
<1>seen. secret.owner = "self" \/ SecretDeleted
         => secret'.owner = "self" \/ SecretDeleted'
  BY SecretRemembered
<1>1. /\ NoSecret.owner = "none" /\ NoSecret.key = NoID
      /\ NoObject.status.cond = "none"
  BY DEF NoSecret, NoObject, Created, FreshStatus
<1>2. /\ Steady /\ "secretLag" \notin Env
      /\ "cancelRotation" \notin Env
      /\ "racingSecret" \in Env => "deleteSecret" \notin Env
  BY DEF Undisturbed, Steady
<1>3. /\ secretCache = secret /\ secretCache \notin Hidden
  BY DEF KeepInv, TypeOK, Secrets, Hidden, Unreadable, Forbidden
<1>4. CASE UNCHANGED vars
  BY <1>seen, <1>4 DEF vars
<1>5. CASE Closing
  <2>1. pc \in Terminating => ba.phase # "live"
    BY DEF DeletionInv
  <2> QED BY <1>seen, <1>1, <1>5, <2>1, ClosingWrites DEF MayWrite, Writes
<1>6. CASE Early
  <2>1. /\ Managed(obj) /\ pc \notin {"idle", "finish", "principal"}
        /\ pc \notin Terminating
        /\ pc' \in {"degrade", "account", "persistAccount", "createAccount",
                    "idle"}
    BY <1>6, EarlyEffect, EarlyWrites DEF KeepInv
  <2> QED BY <1>seen, <1>1, <1>6, <2>1, EarlyWrites
          DEF MayWrite, Writes, SameCopy, secretVars
<1>7. CASE PersistAccount
  <2>1. \A key : Works(key) => ba.status.sa = run.sa
    BY <1>7, SameAccount, PersistAccountEffect
  <2> QED BY <1>seen, <1>1, <1>7, <2>1, PersistAccountEffect
          DEF MayWrite, Writes, secretVars, iamVars
<1>8. CASE LookUpCredential
  <2>1. SecretOK => secret.owner \in {"self", "other"}
    BY <1>1, <1>3 DEF SecretOK, TypeOK, Secrets
  <2> QED BY <1>seen, <1>3, <1>8, <2>1, ChooseEffect
          DEF KeepsMaterial, secretVars, iamVars
<1>9. CASE DropTracked
  BY <1>seen, <1>9, DropKeyEffect DEF secretVars, KeepInv
<1>10. CASE MintCredential
  <2>1. ba.status.sa = run.sa
    BY <1>10, MintKeyEffect DEF RotateInv, Accounted
  <2> QED BY <1>seen, <1>10, <2>1, MintKeyEffect DEF secretVars
<1>11. CASE RetirePrevious
  <2>1. ba.rotate
    BY <1>11 DEF RetirePrevious, KeepInv
  <2> QED BY <1>seen, <1>11, <2>1 DEF RetirePrevious, Goto, apiVars, secretVars
<1>12. CASE PersistCredential
  BY <1>seen, <1>1, <1>12, RecordKeyEffect
  DEF MayWrite, Writes, secretVars, iamVars
<1>13. CASE UndoCredential
  <2>1. ba.rotate \/ secret.owner # "self"
    BY <1>13 DEF UndoCredential, KeepInv
  <2> QED BY <1>seen, <1>1, <1>13, <2>1
          DEF UndoCredential, Stop, apiVars, secretVars
<1>14. CASE CheckSecret
  <2>1. secretCache = NoSecret \/ SecretOwned(secretCache)
        => secret.owner # "other"
    BY <1>1, <1>3 DEF SecretOwned
  <2> QED BY <1>seen, <1>14, <2>1
          DEF CheckSecret, Goto, apiVars, secretVars, iamVars
<1>15. CASE PutSecret
  <2>1. DesiredSecret.owner = "self" /\ DesiredSecret.key = run.key
    BY DEF DesiredSecret
  <2> QED BY <1>seen, <1>2, <1>3, <1>15, <2>1, PutEffect DEF secretVars, iamVars
<1>16. CASE PersistSecretRef
  BY <1>seen, <1>1, <1>16, SecretRefEffect
  DEF MayWrite, Writes, secretVars, iamVars
<1>17. CASE GrantBucket \/ AllGranted
  BY <1>seen, <1>17, GrantEffect DEF SameCopy, secretVars, iamVars
<1>18. CASE ClearRotateAnnotation
  <2>1. pc = "clearRotate"
    BY <1>18, ClearKeyEffect
  <2>2. secret.owner = "self" => Works(secret.key)
    BY <2>1 DEF RotateInv, Written
  <2> QED BY <1>seen, <1>1, <1>18, <2>2, ClearKeyEffect DEF secretVars, iamVars
<1>19. CASE SetErrorCondition
  <2>1. ~run.swallow
    BY DEF NotFoundInv
  <2> QED BY <1>seen, <1>1, <1>19, <2>1, DegradeEffect
          DEF MayWrite, Writes, secretVars, iamVars
<1>20. CASE EditSecret
  BY <1>seen, <1>1, <1>2, <1>20, SecretEdits DEF iamVars
<1>21. CASE Elsewhere
  <2>1. ba.rotate => ba'.rotate
    BY <1>2, <1>21, RotateStays
    DEF Elsewhere, SyncAccess, BucketController, BucketChanges, ReadPolicy,
        WritePolicy, apiVars
  <2>2. ba.phase # "live" => ba'.phase # "live"
    BY <1>21, DeletionStays
    DEF Elsewhere, SyncAccess, BucketController, BucketChanges, ReadPolicy,
        WritePolicy, apiVars, Next, Users, Sync
  <2> QED BY <1>seen, <1>21, <2>1, <2>2, ElsewhereEffect DEF secretVars, iamVars
<1>22. CASE SyncSecret \/ RestartWithNamespaces
  BY <1>seen, <1>22, CacheEffect DEF iamVars
<1> QED BY <1>4, <1>5, <1>6, <1>7, <1>8, <1>9, <1>10, <1>11, <1>12, <1>13,
           <1>14, <1>15, <1>16, <1>17, <1>18, <1>19, <1>20, <1>21, <1>22,
           KeySteps

(* When nothing of that kind happens, readyMsg is true: between passes an    *)
(* object that reports Ready and awaits no rotation has a Secret with a key  *)
(* that works on the account that status names, through crashes, failed and  *)
(* half-answered calls, rotations, suspension, deletion, changing buckets    *)
(* and references, and deletions of the Secret (which the next pass repairs) *)
(* or Secrets of others. Each trouble Undisturbed rules out makes it false.  *)
THEOREM ReadyMeansUsable == Undisturbed => (Spec => []SecretUsable)
<1> SUFFICES ASSUME Undisturbed PROVE Spec => []SecretUsable
  OBVIOUS
<1>1. /\ Steady /\ SecretsSettle
      /\ "foreignSecret" \in Env => "deleteSecret" \notin Env
  BY DEF Undisturbed, Steady, SecretsSettle
<1> DEFINE Accounts == AccountInv /\ ForeignInv /\ HomeInv
           Object == CurrentInv /\ DeletionInv /\ NotFoundInv
           Key == KeysInv /\ IssueInv /\ RotateInv /\ KeepInv /\ UsableInv
           IInv == TypeOK /\ Accounts /\ Object /\ Key
<1>2. Init => IInv
  <2> SUFFICES ASSUME Init PROVE IInv
    OBVIOUS
  <2>1. /\ pc = "idle" /\ run = NoLocals /\ creds = {} /\ issuedCred = 0
        /\ secretCache = secret /\ baCache = ba /\ accounts = {ExternalSA}
        /\ \/ secret = NoSecret
           \/ /\ "deleteSecret" \notin Env /\ secret.owner = "other"
              /\ secret.key \in {ForeignKey, NoID}
    BY <1>1 DEF Init
  <2>2. /\ ba.principalRef = NoID /\ ba.phase = "live"
        /\ ba.status.cond = "none"
    BY <1>1 DEF Init, Steady, Created, FreshStatus
  <2>3. /\ ~NoLocals.rotated /\ NoLocals.key = NoID /\ ~NoLocals.swallow
        /\ NoSecret.owner = "none" /\ NoSecret.key = NoID
        /\ obj.status.cond = "none"
    BY DEF Init, NoLocals, NoSecret, NoObject, Created, FreshStatus
  <2>4. Accounts
    BY <2>1 DEF AccountInv, OneServiceAccount, OurAccounts, ForeignInv,
                ForeignAccountUntouched, HomeInv, OnAccount
  <2>5. Object
    BY <2>1, <2>2, <2>3 DEF CurrentInv, DeletionInv, NotFoundInv, Terminating
  <2>6. KeysInv /\ IssueInv /\ RotateInv
    BY <2>1, <2>3 DEF KeysInv, NoID, IssueInv, RotateInv, Accounted,
                      Unwritten, Written
  <2>7. KeepInv /\ UsableInv
    BY <2>1, <2>2, <2>3 DEF KeepInv, UsableInv, Managed, Unwritten, Terminating
  <2> QED BY InitType, <2>4, <2>5, <2>6, <2>7
<1>3. IInv /\ [Next]_vars => IInv'
  <2> SUFFICES ASSUME IInv, [Next]_vars PROVE IInv'
    OBVIOUS
  <2>1. TypeOK'
    BY PassType, OthersType DEF Next, TypeOK, vars
  <2>2. Accounts'
    BY AccountStep, ForeignStep, HomeStep
  <2>3. Object'
    BY <1>1, CurrentStep, DeletionStep, NotFoundStep DEF Steady
  <2>4. Key'
    BY <1>1, KeysStep, IssueStep, RotateStep, KeepStep, UsableStep
  <2> QED BY <2>1, <2>2, <2>3, <2>4
<1>4. IInv => SecretUsable
  BY DEF UsableInv, SecretUsable, ReportsReady, SecretDeleted, Usable, Works
<1> QED BY <1>2, <1>3, <1>4, PTL DEF Spec
=============================================================================
