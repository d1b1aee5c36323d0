----------------------- MODULE BucketAccessRefinement -----------------------
(***************************************************************************)
(* BucketAccess implements Ownership, for every value of the constants:    *)
(* the initial states map to initial states, and under the inductive       *)
(* invariants of BucketAccessProofs every step maps to a step or to a      *)
(* stutter.                                                                *)
(***************************************************************************)
EXTENDS BucketAccessProofs

(* The principal a pass works with is one of ours that exists, an external   *)
(* one, or nobody.                                                           *)
PrincipalInv ==
    /\ run.sa \in OurAccounts \cup Externals \cup {NoID}
    /\ pc \in Terminating => run.sa = NoID

-----------------------------------------------------------------------------
(* The invariant of the principal is inductive                               *)

PrincipalActions ==
    \/ FindServiceAccount \/ CreateServiceAccount \/ ResolveExternalPrincipal
    \/ TerminateAccount

(* Other steps keep the principal or drop it, and keep the accounts.         *)
LEMMA PrincipalFrame ==
    ASSUME TypeOK, Next, ~PrincipalActions
    PROVE  run'.sa \in {run.sa, NoID} /\ accounts' = accounts
<1> USE DEF iamVars, workVars, Stop, NoLocals, TypeOK, Locals, PrincipalActions
<1>1. CASE Pass
  <2>1. CASE \/ AddFinalizer \/ StartReconcile \/ StartTerminate
             \/ RefuseReconcile \/ WaitForBucket \/ Progress
    BY <2>1 DEF AddFinalizer, StartReconcile, StartTerminate, RefuseReconcile,
                WaitForBucket, Progress
  <2>2. CASE SetErrorCondition \/ PersistAccount
    BY <2>2 DEF SetErrorCondition, PersistAccount
  <2>3. CASE \/ LookUpCredential \/ RefuseNamespace \/ DropTracked
             \/ MintCredential \/ RetirePrevious
    BY <2>3 DEF LookUpCredential, KeepCredential, RefuseNamespace, DropTracked,
                MintCredential, RetirePrevious
  <2>4. CASE \/ PersistCredential \/ UndoCredential \/ CheckSecret \/ PutSecret
             \/ PersistSecretRef
    BY <2>4 DEF PersistCredential, UndoCredential, CheckSecret, PutSecret,
                PersistSecretRef
  <2>5. CASE \/ GrantBucket \/ AllGranted \/ ClearRotateAnnotation \/ Finish
    BY <2>5 DEF GrantBucket, AllGranted, ClearRotateAnnotation, Finish
  <2>6. CASE \/ RevokeGranted \/ RevokeRefs \/ TerminateCredential
             \/ Unfinalize
    BY <2>6 DEF RevokeGranted, RevokeRefs, TerminateCredential, Unfinalize
  <2> QED BY <1>1, <2>1, <2>2, <2>3, <2>4, <2>5, <2>6 DEF Pass
<1>2. CASE Crash \/ Sync \/ Users
  BY <1>2 DEF Crash, Sync, SyncAccess, SyncSecret, Users, EditAccess,
              EditSecret, BucketController, BucketChanges, ReadPolicy,
              WritePolicy, RestartWithNamespaces
<1> QED BY <1>1, <1>2 DEF Next

LEMMA PrincipalStep == TypeOK /\ PrincipalInv /\ [Next]_vars => PrincipalInv'
<1> SUFFICES ASSUME TypeOK, PrincipalInv, [Next]_vars PROVE PrincipalInv'
  OBVIOUS
<1> USE DEF PrincipalInv, OurAccounts
<1>1. CASE UNCHANGED vars
  BY <1>1 DEF vars, Terminating
<1>2. CASE Next /\ ~PrincipalActions
  <2>1. run'.sa \in {run.sa, NoID} /\ accounts' = accounts
    BY <1>2, PrincipalFrame
  <2>2. pc' \in Terminating => run'.sa = NoID
    <3>1. CASE ~TerminateActions
      BY <1>2, <2>1, <3>1, TerminateFrame
    <3>2. CASE StartTerminate
      BY <3>2 DEF StartTerminate, NoLocals
    <3>3. CASE RevokeGranted \/ RevokeRefs \/ TerminateCredential
      BY <2>1, <3>3 DEF RevokeGranted, RevokeRefs, TerminateCredential,
                        Terminating
    <3> QED BY <1>2, <3>1, <3>2, <3>3 DEF TerminateActions, PrincipalActions
  <2> QED BY <2>1, <2>2 DEF Terminating
<1>3. CASE FindServiceAccount
  <2>1. /\ accounts' = accounts /\ pc' \notin Terminating
    BY <1>3 DEF FindServiceAccount, iamVars, Goto, Terminating
  <2>2. run'.sa = run.sa \/ Owned(run'.sa)
    BY <1>3 DEF FindServiceAccount, ListedAccounts, TypeOK, Locals
  <2> QED BY <2>1, <2>2 DEF Owned, Terminating
<1>4. CASE CreateServiceAccount
  <2>1. /\ accounts \subseteq accounts' /\ pc' \notin Terminating
        /\ \/ run' = run
           \/ /\ run' = [run EXCEPT !.sa = issuedSA']
              /\ issuedSA' = issuedSA + 1 /\ issuedSA' \in accounts'
    BY <1>4 DEF CreateServiceAccount, Goto, Terminating
  <2>2. issuedSA + 1 # ExternalSA
    BY IdentityAssumption, BoundsAssumption DEF TypeOK
  <2>3. run'.sa = run.sa \/ run'.sa \in accounts' \ {ExternalSA}
    BY <2>1, <2>2 DEF TypeOK, Locals
  <2> QED BY <2>1, <2>3 DEF Terminating
<1>5. CASE ResolveExternalPrincipal
  <2>1. /\ accounts' = accounts /\ pc' \notin Terminating
        /\ run'.sa \in {run.sa, obj.principalRef}
    BY <1>5 DEF ResolveExternalPrincipal, iamVars, Goto, Terminating, TypeOK,
                Locals
  <2> QED BY <2>1 DEF TypeOK, AccessObject, Terminating
<1>6. CASE TerminateAccount
  <2>1. pc = "dropAccount" /\ run'.sa \in {run.sa, NoID}
    BY <1>6 DEF TerminateAccount, Stop, NoLocals
  <2>2. run'.sa = NoID
    BY <2>1 DEF Terminating
  <2> QED BY <2>2 DEF Terminating
<1> QED BY <1>1, <1>2, <1>3, <1>4, <1>5, <1>6 DEF PrincipalActions

-----------------------------------------------------------------------------
(* The steps                                                                 *)

AllInv ==
    /\ TypeOK /\ AccountInv /\ ForeignInv /\ HomeInv /\ TerminateInv
    /\ LifecycleInv /\ DeletionInv /\ IssueInv /\ PrincipalInv

Step == [Abstract!Next]_Abstract!vars

(* A step that touches nothing the abstract specification sees.              *)
LEMMA Stutter ==
    ASSUME ClaimsOf(ba') = ClaimsOf(ba), ba'.phase = ba.phase,
           UNCHANGED <<accounts, creds, Standing>>
    PROVE  Step
BY DEF Step, Abstract!vars, OurAccounts

(* A new status is a new claim.                                              *)
LEMMA ClaimStep ==
    ASSUME AllInv, ba'.phase = ba.phase, ba' \in AccessObject,
           UNCHANGED <<accounts, creds, Standing>>,
           ba' # ba => ba.phase # "gone"
    PROVE  Step
<1>1. CASE ba' = ba
  BY <1>1, Stutter
<1>2. CASE ba' # ba
  <2> DEFINE a == IF Managed(ba') THEN ba'.status.sa ELSE NoID
             B == ba'.status.granted
  <2>1. a \in AccountIDs \cup Externals \cup {NoID} /\ B \in SUBSET Buckets
    BY DEF AccessObject, Status, Principals
  <2>2. ClaimsOf(ba)' = [account |-> a, buckets |-> B]
    BY DEF ClaimsOf, Managed
  <2>3. ba.phase # "gone"
    BY <1>2
  <2>4. Abstract!Claim
    BY <2>1, <2>2, <2>3 DEF Abstract!Claim, OurAccounts
  <2> QED BY <2>4 DEF Step, Abstract!Next
<1> QED BY <1>1, <1>2

LEMMA StatusStep ==
    ASSUME AllInv, NEW s \in Status, Persisted(s) \/ NotPersisted(s),
           UNCHANGED <<accounts, creds, Standing>>
    PROVE  Step
<1>1. /\ ba' \in AccessObject /\ ba'.phase = ba.phase
      /\ ba' # ba => ba.phase # "gone"
  BY StatusWriteType, StatusWriteEffect DEF AllInv
<1> QED BY <1>1, ClaimStep

(* Deleting a credential, or finding it gone.                                *)
LEMMA RetireStep ==
    ASSUME UNCHANGED <<ba, accounts, Standing>>,
           NEW a, NEW c, creds' \in {creds, Deleted(a, c)}
    PROVE  Step
<1>1. CASE creds' = creds
  BY <1>1, Stutter
<1>2. CASE creds' # creds
  <2>1. Abstract!Retire
    BY <1>2 DEF Deleted, Abstract!Retire, OurAccounts, ClaimsOf, Managed
  <2> QED BY <2>1 DEF Step, Abstract!Next
<1> QED BY <1>1, <1>2

LEMMA RevokeStep ==
    ASSUME UNCHANGED <<ba, accounts, creds>>, NEW b \in Buckets,
           Standing' \in {Standing, {s \in Standing : s.bucket # b}}
    PROVE  Step
<1>1. CASE Standing' = Standing
  BY <1>1, Stutter
<1>2. CASE Standing' = {s \in Standing : s.bucket # b}
  <2>1. Abstract!Revoke
    BY <1>2 DEF Abstract!Revoke, Abstract!Without, OurAccounts,
                ClaimsOf, Managed
  <2> QED BY <2>1 DEF Step, Abstract!Next
<1> QED BY <1>1, <1>2

LEMMA CreateStep == AllInv /\ CreateServiceAccount => Step
<1> SUFFICES ASSUME AllInv, CreateServiceAccount PROVE Step
  OBVIOUS
<1>1. UNCHANGED <<ba, creds, Standing>> /\ pc = "createAccount"
  BY StandingFrame DEF CreateServiceAccount, apiVars, othersVars
<1>2. ba.phase # "gone"
  BY <1>1 DEF AllInv, LifecycleInv, Reconciling, Phases
<1>3. CASE accounts' = accounts
  BY <1>1, <1>3, Stutter
<1>4. CASE accounts' # accounts
  <2>1. /\ issuedSA < MaxAccounts /\ issuedSA' = issuedSA + 1
        /\ accounts' = accounts \cup {issuedSA'}
    BY <1>4 DEF CreateServiceAccount
  <2>2. issuedSA' \in AccountIDs /\ issuedSA' # ExternalSA
    BY <2>1, BoundsAssumption, Sentinels DEF AllInv, TypeOK, AccountIDs
  <2>3. OurAccounts = {} /\ OurAccounts' = {issuedSA'}
    BY <1>1, <2>1, <2>2 DEF AllInv, AccountInv, OurAccounts
  <2>4. Abstract!Acquire
    BY <1>1, <1>2, <2>2, <2>3 DEF Abstract!Acquire, ClaimsOf, Managed
  <2> QED BY <2>4 DEF Step, Abstract!Next
<1> QED BY <1>3, <1>4

LEMMA MintStep == AllInv /\ MintCredential => Step
<1> SUFFICES ASSUME AllInv, MintCredential PROVE Step
  OBVIOUS
<1>1. UNCHANGED <<ba, accounts, Standing>> /\ pc = "mint"
  BY StandingFrame DEF MintCredential, apiVars, othersVars
<1>2. ba.phase # "gone"
  BY <1>1 DEF AllInv, LifecycleInv, Reconciling, Phases
<1>3. CASE creds' = creds
  BY <1>1, <1>3, Stutter
<1>4. CASE creds' # creds
  <2>1. /\ issuedCred < MaxCredentials /\ issuedCred' = issuedCred + 1
        /\ creds' = creds \cup {[id |-> issuedCred', sa |-> run.sa]}
    BY <1>4 DEF MintCredential
  <2>2. /\ issuedCred \in Nat /\ issuedCred' \in CredentialIDs
        /\ \A c \in creds : c.id \in Nat
    BY <2>1, BoundsAssumption DEF AllInv, TypeOK, CredentialIDs
  <2>3. issuedCred' \in CredentialIDs \ {c.id : c \in creds}
    BY <2>1, <2>2 DEF AllInv, IssueInv
  <2>4. run.sa \in OurAccounts
    BY <1>1 DEF AllInv, HomeInv, ForeignInv, OnAccount, OurAccounts
  <2>5. Abstract!Mint
    BY <1>1, <1>2, <2>1, <2>3, <2>4
       DEF Abstract!Mint, OurAccounts, ClaimsOf, Managed
  <2> QED BY <2>5 DEF Step, Abstract!Next
<1> QED BY <1>3, <1>4

LEMMA GrantStep == AllInv /\ GrantBucket => Step
<1> SUFFICES ASSUME AllInv, GrantBucket PROVE Step
  OBVIOUS
<1>1. UNCHANGED <<ba, accounts, creds>> /\ pc = "grant"
  BY DEF GrantBucket, apiVars, iamVars
<1>2. ba.phase # "gone"
  BY <1>1 DEF AllInv, LifecycleInv, Reconciling, Phases
<1>3. PICK b \in run.todo : \/ UNCHANGED <<statements, undone>>
                            \/ Rewrite(b, Upserted(b, run.sa))
  BY DEF GrantBucket
<1>4. b \in Buckets
  BY DEF AllInv, TypeOK, Locals
<1>5. run.sa \in OurAccounts \cup Externals \cup {NoID}
  BY DEF AllInv, PrincipalInv
<1>6. CASE UNCHANGED <<statements, undone>>
  BY <1>1, <1>6, Stutter, StandingFrame
<1>7. CASE Rewrite(b, Upserted(b, run.sa))
  <2>1. Standing' = {s \in Standing : s.bucket # b}
                    \cup {[bucket |-> b, principal |-> run.sa]}
    BY <1>7, GrantStands DEF AllInv
  <2>2. Abstract!Grant
    BY <1>1, <1>2, <1>4, <1>5, <2>1
       DEF Abstract!Grant, Abstract!Without, OurAccounts, ClaimsOf,
           Managed
  <2> QED BY <2>2 DEF Step, Abstract!Next
<1> QED BY <1>3, <1>6, <1>7

(* The account goes with all its credentials: the one account there is, or   *)
(* one that is no longer there.                                              *)
LEMMA ReleaseStep == AllInv /\ TerminateAccount => Step
<1> SUFFICES ASSUME AllInv, TerminateAccount PROVE Step
  OBVIOUS
<1>1. UNCHANGED <<ba, Standing>> /\ pc = "dropAccount"
  BY StandingFrame DEF TerminateAccount, apiVars, othersVars
<1>2. ba.phase # "live"
  BY <1>1 DEF AllInv, DeletionInv, Terminating
<1>3. CASE UNCHANGED <<accounts, creds>>
  BY <1>1, <1>3, Stutter
<1>4. CASE WithoutAccount(obj.status.sa)
  <2>1. obj.status.sa # ExternalSA
    BY <1>1 DEF AllInv, ForeignInv
  <2>2. \A c \in creds : c.sa \in OurAccounts
    BY DEF AllInv, HomeInv, ForeignInv, ForeignAccountUntouched, OurAccounts
  <2>3. CASE obj.status.sa \in OurAccounts
    <3>1. OurAccounts = {obj.status.sa}
      BY <2>3 DEF AllInv, AccountInv, OneServiceAccount
    <3>2. OurAccounts' = {} /\ creds' = {}
      BY <1>4, <2>1, <2>2, <3>1 DEF WithoutAccount, OurAccounts
    <3>3. Abstract!Release
      BY <1>1, <1>2, <3>2 DEF Abstract!Release, ClaimsOf, Managed
    <3> QED BY <3>3 DEF Step, Abstract!Next
  <2>4. CASE obj.status.sa \notin OurAccounts
    <3>1. accounts' = accounts /\ creds' = creds
      BY <1>4, <2>1, <2>2, <2>4 DEF WithoutAccount, OurAccounts
    <3> QED BY <1>1, <3>1, Stutter
  <2> QED BY <2>3, <2>4
<1> QED BY <1>3, <1>4 DEF TerminateAccount

LEMMA DepartStep == AllInv /\ Unfinalize => Step
<1> SUFFICES ASSUME AllInv, Unfinalize PROVE Step
  OBVIOUS
<1> DEFINE done == [ba EXCEPT !.finalizer = FALSE, !.phase = "gone"]
<1>1. UNCHANGED <<accounts, creds, Standing>> /\ pc = "unfinalize"
  BY StandingFrame DEF Unfinalize, iamVars, othersVars
<1>2. \/ UNCHANGED ba
      \/ obj = ba /\ ba.phase # "gone" /\ ba' = done
  BY DEF Unfinalize, UpdateAccepted, Publish, apiVars
<1>3. CASE UNCHANGED ba
  BY <1>1, <1>3, Stutter
<1>4. CASE obj = ba /\ ba.phase # "gone" /\ ba' = done
  <2>1. /\ done.phase = "gone" /\ done.status = ba.status
        /\ done.principalRef = ba.principalRef
    BY DEF AllInv, TypeOK, AccessObject
  <2>2. ClaimsOf(ba') = ClaimsOf(ba) /\ ba'.phase = "gone"
    BY <1>4, <2>1 DEF ClaimsOf, Managed
  <2>3. NoID \notin OurAccounts
    BY Sentinels DEF OurAccounts, AllInv, TypeOK
  <2>4. /\ ClaimsOf(ba).account \notin OurAccounts
        /\ \A s \in Standing : s.bucket \notin ClaimsOf(ba).buckets
    BY <1>1, <1>4, <2>3 DEF AllInv, TerminateInv, ClaimsOf
  <2>5. Abstract!Depart
    BY <1>1, <1>4, <2>2, <2>4 DEF Abstract!Depart, OurAccounts
  <2> QED BY <2>5 DEF Step, Abstract!Next
<1> QED BY <1>2, <1>3, <1>4

LEMMA EditStep == AllInv /\ EditAccess => Step
<1> SUFFICES ASSUME AllInv, EditAccess PROVE Step
  OBVIOUS
<1>1. UNCHANGED <<accounts, creds, Standing>>
  BY StandingFrame DEF EditAccess, iamVars, othersVars
<1>2. /\ ba'.status = ba.status /\ ba.phase # "gone"
      /\ \/ ba'.phase = ba.phase
         \/ /\ ba.phase = "live" /\ ba'.principalRef = ba.principalRef
            /\ ba'.phase = IF ba.finalizer THEN "deleting" ELSE "gone"
  BY EditEffect DEF AllInv
<1>3. ba' \in AccessObject
  BY OthersType DEF AllInv, Users, TypeOK
<1>4. CASE ba'.phase = ba.phase
  BY <1>1, <1>2, <1>3, <1>4, ClaimStep
<1>5. CASE ba'.phase # ba.phase
  <2>1. ClaimsOf(ba') = ClaimsOf(ba)
    BY <1>2, <1>5 DEF ClaimsOf, Managed
  <2>2. CASE ba.finalizer
    <3>1. Abstract!RequestDeletion
      BY <1>1, <1>2, <1>5, <2>1, <2>2
         DEF Abstract!RequestDeletion, OurAccounts
    <3> QED BY <3>1 DEF Step, Abstract!Next
  <2>3. CASE ~ba.finalizer
    <3>1. ba.status.granted = {} /\ ba.status.sa = NoID
      BY <1>2, <2>3 DEF AllInv, LifecycleInv
    <3>2. NoID \notin OurAccounts
      BY Sentinels DEF OurAccounts, AllInv, TypeOK
    <3>3. Abstract!Depart
      BY <1>1, <1>2, <1>5, <2>1, <2>3, <3>1, <3>2
         DEF Abstract!Depart, ClaimsOf, OurAccounts
    <3> QED BY <3>3 DEF Step, Abstract!Next
  <2> QED BY <2>2, <2>3
<1> QED BY <1>4, <1>5

(* A bucket that is deleted takes its policy with it; a policy that the      *)
(* Bucket controller wrote back is its own affair.                           *)
LEMMA BucketStep == AllInv /\ BucketController => Step
<1> SUFFICES ASSUME AllInv, BucketController PROVE Step
  OBVIOUS
<1>1. UNCHANGED <<ba, accounts, creds>>
  BY DEF BucketController, BucketChanges, ReadPolicy, WritePolicy, apiVars,
         iamVars
<1>2. \/ Standing' = Standing
      \/ \E b \in Buckets : Standing' = {s \in Standing : s.bucket # b}
  BY BucketControllerStands DEF AllInv
<1> QED BY <1>1, <1>2, RevokeStep, Stutter

LEMMA PassSteps == AllInv /\ Pass => Step
<1> SUFFICES ASSUME AllInv, Pass PROVE Step
  OBVIOUS
<1> USE StandingFrame DEF apiVars, iamVars, othersVars
<1>1. CASE AddFinalizer
  <2>1. ba' = ba \/ ba' = [ba EXCEPT !.finalizer = TRUE]
    BY <1>1 DEF AddFinalizer, Publish
  <2>2. ba'.phase = ba.phase /\ ClaimsOf(ba') = ClaimsOf(ba)
    BY <2>1 DEF AllInv, TypeOK, AccessObject, ClaimsOf, Managed
  <2> QED BY <1>1, <2>2, Stutter DEF AddFinalizer
<1>2. CASE ClearRotateAnnotation
  <2>1. ba' = ba \/ ba' = [ba EXCEPT !.rotate = FALSE]
    BY <1>2 DEF ClearRotateAnnotation, Publish
  <2>2. ba'.phase = ba.phase /\ ClaimsOf(ba') = ClaimsOf(ba)
    BY <2>1 DEF AllInv, TypeOK, AccessObject, ClaimsOf, Managed
  <2> QED BY <1>2, <2>2, Stutter DEF ClearRotateAnnotation
<1>3. CASE StatusWriters
  <2>1. \E s \in Status : Persisted(s) \/ NotPersisted(s)
    BY <1>3, StatusWritersWrite DEF AllInv
  <2>2. UNCHANGED <<accounts, creds, statements, undone>>
    BY <1>3 DEF StatusWriters, WaitForBucket, Progress, SetErrorCondition,
                PersistAccount, PersistCredential, PersistSecretRef, Finish
  <2> QED BY <2>1, <2>2, StatusStep
<1>4. CASE \/ StartReconcile \/ StartTerminate \/ RefuseReconcile
           \/ FindServiceAccount \/ LookUpCredential \/ RefuseNamespace
  BY <1>4, Stutter DEF StartReconcile, StartTerminate, RefuseReconcile,
              FindServiceAccount, LookUpCredential, RefuseNamespace
<1>5. CASE \/ CheckSecret \/ PutSecret \/ ResolveExternalPrincipal
           \/ AllGranted
  <2>1. /\ UNCHANGED <<ba, accounts, creds, statements>>
        /\ undone'.grants = undone.grants
    BY <1>5 DEF CheckSecret, PutSecret, WriteSecret, ResolveExternalPrincipal,
                AllGranted, AllInv, TypeOK
  <2> QED BY <2>1, Stutter
<1>6. CASE DropTracked
  <2>1. /\ UNCHANGED <<ba, accounts, Standing>>
        /\ creds' \in {creds, Deleted(run.sa, obj.status.cred)}
    BY <1>6 DEF DropTracked
  <2> QED BY <2>1, RetireStep
<1>7. CASE RetirePrevious \/ UndoCredential
  <2>1. /\ UNCHANGED <<ba, accounts, Standing>>
        /\ \E c : creds' \in {creds, Deleted(run.sa, c)}
    BY <1>7 DEF RetirePrevious, UndoCredential, DeleteOrLog
  <2> QED BY <2>1, RetireStep
<1>8. CASE TerminateCredential
  <2>1. /\ UNCHANGED <<ba, accounts, Standing>>
        /\ creds' \in {creds, Deleted(obj.status.sa, obj.status.cred)}
    BY <1>8 DEF TerminateCredential
  <2> QED BY <2>1, RetireStep
<1>9. CASE RevokeGranted
  <2>1. UNCHANGED <<ba, accounts, creds>>
    BY <1>9 DEF RevokeGranted
  <2>2. \/ UNCHANGED <<statements, undone>>
        \/ \E b \in run.todo : Rewrite(b, Removed(b))
    BY <1>9 DEF RevokeGranted
  <2> QED BY <2>1, <2>2, RevokeStep, RemovalStands, Stutter
          DEF AllInv, TypeOK, Locals
<1>10. CASE RevokeRefs
  <2>1. UNCHANGED <<ba, accounts, creds>>
    BY <1>10 DEF RevokeRefs
  <2>2. \/ UNCHANGED <<statements, undone>>
        \/ \E b \in run.todo : Rewrite(b, Removed(b))
    BY <1>10 DEF RevokeRefs
  <2> QED BY <2>1, <2>2, RevokeStep, RemovalStands, Stutter
          DEF AllInv, TypeOK, Locals
<1> QED BY <1>1, <1>2, <1>3, <1>4, <1>5, <1>6, <1>7, <1>8, <1>9, <1>10,
           CreateStep, MintStep, GrantStep, ReleaseStep, DepartStep
        DEF Pass, StatusWriters

LEMMA NextSteps == AllInv /\ [Next]_vars => Step
<1> SUFFICES ASSUME AllInv, [Next]_vars PROVE Step
  OBVIOUS
<1>1. CASE UNCHANGED vars
  BY <1>1, Stutter, StandingFrame DEF vars
<1>2. CASE Crash \/ Sync \/ EditSecret \/ RestartWithNamespaces
  <2>1. /\ UNCHANGED <<ba, accounts, creds, statements>>
        /\ undone'.grants = undone.grants
    BY <1>2 DEF Crash, Sync, SyncAccess, SyncSecret, EditSecret, AllInv, TypeOK,
                RestartWithNamespaces, iamVars, apiVars, othersVars
  <2> QED BY <2>1, Stutter, StandingFrame
<1> QED BY <1>1, <1>2, PassSteps, EditStep, BucketStep DEF Next, Users

(* Whatever fails, crashes, lags or is edited, the controller takes no step  *)
(* that module Ownership does not take.                                      *)
THEOREM ImplementsOwnership == Spec => Implements
<1>1. Init => AllInv
  <2> SUFFICES ASSUME Init PROVE AllInv
    OBVIOUS
  <2>1. ba.phase = "live" /\ ba.status = FreshStatus /\ ~ba.finalizer
    BY DEF Init, Created
  <2>2. /\ pc = "idle" /\ baCache = ba /\ creds = {} /\ run = NoLocals
        /\ accounts = {ExternalSA}
    BY DEF Init
  <2>3. AccountInv /\ ForeignInv /\ HomeInv /\ TerminateInv
    BY <2>2 DEF AccountInv, OneServiceAccount, OurAccounts, ForeignInv,
                ForeignAccountUntouched, HomeInv, TerminateInv, OnAccount
  <2>4. LifecycleInv
    BY <2>1, <2>2 DEF LifecycleInv, FreshStatus, Reconciling, Managed
  <2>5. DeletionInv /\ IssueInv /\ PrincipalInv
    BY <2>1, <2>2 DEF DeletionInv, IssueInv, PrincipalInv, NoLocals,
                      Terminating
  <2> QED BY InitType, <2>3, <2>4, <2>5 DEF AllInv
<1>2. AllInv /\ [Next]_vars => AllInv'
  <2> SUFFICES ASSUME AllInv, [Next]_vars PROVE AllInv'
    OBVIOUS
  <2>1. TypeOK'
    BY PassType, OthersType DEF AllInv, Next, TypeOK, vars
  <2>2. LifecycleInv'
    BY LifecyclePass, LifecycleOthers, StandingFrame
       DEF AllInv, Next, LifecycleInv, vars, Managed, OurAccounts, Reconciling,
           Phases
  <2> QED BY <2>1, <2>2, AccountStep, ForeignStep, HomeStep, TerminateStep,
             DeletionStep, IssueStep, PrincipalStep DEF AllInv
<1>3. Init => Abstract!Init
  <2> SUFFICES ASSUME Init PROVE Abstract!Init
    OBVIOUS
  <2>1. ba.phase = "live" /\ ba.status = FreshStatus
    BY DEF Init, Created
  <2> QED BY <2>1 DEF Init, Abstract!Init, ClaimsOf, FreshStatus, OurAccounts,
                      Standing
<1>4. AllInv /\ [Next]_vars => Step
  BY NextSteps
<1> QED BY <1>1, <1>2, <1>3, <1>4, PTL
        DEF Spec, Implements, Abstract!Spec, Step
=============================================================================
