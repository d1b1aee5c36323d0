---------------------------- MODULE BucketProofs ----------------------------
(***************************************************************************)
(* Theorems about Bucket, for every set of names and settings, every kind  *)
(* of trouble in Env and every value of the bounds.                        *)
(***************************************************************************)
EXTENDS BucketProperties, FiniteSetTheorems, TLAPS

-----------------------------------------------------------------------------
(* What the calls and the actions do                                         *)

LEMMA BlankTypes ==
    ASSUME Settings # {}
    PROVE  NoObject \in BucketObject /\ NoLocals \in Locals
BY BucketBounds DEF NoObject, Fresh, BucketObject, Status, NoLocals, Locals

LEMMA StopType ==
    ASSUME TypeOK, Stop
    PROVE  pc' \in Phases /\ obj' \in BucketObject /\ run' \in Locals
<1>1. Settings # {}
  BY DEF TypeOK, BucketObject
<1> QED BY <1>1, BlankTypes DEF Stop, Phases

LEMMA FailType ==
    ASSUME faults \in 0..MaxFaults, Fail
    PROVE  faults' \in 0..MaxFaults /\ faults' = faults + 1
BY BucketBounds DEF Fail

LEMMA PublishEffect ==
    ASSUME NEW o, Publish(o)
    PROVE  /\ bucket' = o
           /\ \/ bucketCache' = o /\ late' = late
              \/ bucketCache' = bucketCache /\ late < MaxLate
                 /\ late' = late + 1
BY DEF Publish

LEMMA PublishType ==
    ASSUME TypeOK, NEW o \in BucketObject, Publish(o)
    PROVE  /\ bucket' \in BucketObject /\ bucketCache' \in BucketObject
           /\ late' \in 0..MaxLate
BY PublishEffect, BucketBounds DEF TypeOK

(* A status write, whatever its answer: it took effect or it did not.        *)
Written(status) ==
    /\ CacheIsCurrent /\ Publish([bucket EXCEPT !.status = status])
    /\ faults' \in {faults, faults + 1}
Refused ==
    /\ UNCHANGED objectVars
    /\ faults' = faults => ~CacheIsCurrent
    /\ faults' \in {faults, faults + 1}

LEMMA StatusWriteEffect ==
    ASSUME faults \in Nat, NEW s
    PROVE  /\ Persisted(s) => Written(s) /\ faults' = faults
           /\ NotPersisted(s) =>
                 \/ Written(s) /\ faults' = faults + 1
                 \/ Refused
<1>1. Persisted(s) => Written(s) /\ faults' = faults
  BY DEF Persisted, Written
<1>2. ASSUME NotPersisted(s)
      PROVE  (Written(s) /\ faults' = faults + 1) \/ Refused
  BY <1>2 DEF NotPersisted, Written, Refused, Fail, Lost
<1> QED BY <1>1, <1>2

LEMMA StatusWriteType ==
    ASSUME TypeOK, NEW s \in Status, Persisted(s) \/ NotPersisted(s)
    PROVE  /\ bucket' \in BucketObject /\ bucketCache' \in BucketObject
           /\ late' \in 0..MaxLate /\ faults' \in 0..MaxFaults
<1>1. [bucket EXCEPT !.status = s] \in BucketObject
  BY DEF TypeOK, BucketObject
<1>2. faults' \in 0..MaxFaults
  BY FailType DEF Persisted, NotPersisted, Lost, TypeOK
<1>3. CASE UNCHANGED objectVars
  BY <1>2, <1>3 DEF TypeOK, objectVars
<1>4. CASE Publish([bucket EXCEPT !.status = s])
  BY <1>1, <1>2, <1>4, PublishType
<1> QED BY <1>3, <1>4 DEF Persisted, NotPersisted

(* What a step does to the service: nothing or a removal, a change of a      *)
(* bucket's settings, a creation, or our adoption of what is there.          *)
Removes == remote' \subseteq remote /\ UNCHANGED <<issued, taken>>
Replaces ==
    \E r \in remote, q \in RemoteBucket :
        /\ q.id = r.id /\ q.name = r.name
        /\ remote' = (remote \ {r}) \cup {q}
        /\ UNCHANGED <<issued, taken>>
Creates(q) ==
    /\ q.id = issued + 1 /\ issued' = issued + 1
    /\ \A r \in remote : r.name # q.name
    /\ remote' = remote \cup {q}
Takes(q) == taken' = taken \cup {[id |-> q.id, name |-> q.name]}
CreatesOurs == pc = "create" /\ \E q \in RemoteBucket : Creates(q) /\ Takes(q)
CreatesTheirs ==
    \E q \in RemoteBucket : Creates(q) /\ UNCHANGED taken
        /\ (q.name \in TakenNames => "reuse" \in Env)
Adopts ==
    /\ pc = "pick" /\ UNCHANGED <<remote, issued>>
    /\ \E r \in remote : Eligible(r) /\ Takes(r)
ServiceStep ==
    Removes \/ Replaces \/ CreatesOurs \/ CreatesTheirs \/ Adopts

LEMMA UpdateReplaces ==
    ASSUME TypeOK, ServiceInv, UpdateBucket
    PROVE  Removes \/ Replaces
<1> DEFINE updated == {[r EXCEPT !.settings = obj.settings] :
                          r \in Found(run.name)}
<1>1. UNCHANGED <<issued, taken>>
  BY DEF UpdateBucket
<1>2. CASE remote' = remote
  BY <1>1, <1>2 DEF Removes
<1>3. CASE /\ Found(run.name) # {}
           /\ remote' = (remote \ Found(run.name)) \cup updated
  <2>1. PICK r \in Found(run.name) : TRUE
    BY <1>3
  <2>2. Found(run.name) = {r} /\ r \in remote
    BY <2>1 DEF Found, ServiceInv
  <2> DEFINE q == [r EXCEPT !.settings = obj.settings]
  <2>3. q \in RemoteBucket /\ q.id = r.id /\ q.name = r.name
    BY <2>2 DEF TypeOK, RemoteBucket, BucketObject
  <2>4. remote' = (remote \ {r}) \cup {q}
    BY <1>3, <2>2
  <2> QED BY <1>1, <2>2, <2>3, <2>4 DEF Replaces
<1> QED BY <1>2, <1>3 DEF UpdateBucket

LEMMA CreateCreates ==
    ASSUME TypeOK, ServiceInv, CreateBucket
    PROVE  Removes \/ CreatesOurs
<1> DEFINE q == [id |-> issued + 1, name |-> run.name,
                 settings |-> obj.settings, ready |-> FALSE]
<1>1. CASE UNCHANGED remoteVars
  BY <1>1 DEF Removes, remoteVars
<1>2. CASE /\ Found(run.name) = {} /\ issued < MaxBuckets
           /\ remote' = remote \cup {q} /\ issued' = q.id
           /\ taken' = taken \cup {[id |-> q.id, name |-> q.name]}
  <2>1. run.name \in Names /\ pc = "create"
    BY DEF TypeOK, Locals, ServiceInv, CreateBucket
  <2>2. q \in RemoteBucket
    BY <1>2, <2>1, BucketBounds DEF TypeOK, RemoteBucket, BucketObject, IDs
  <2>3. Creates(q) /\ Takes(q)
    BY <1>2 DEF Creates, Takes, Found
  <2> QED BY <2>1, <2>2, <2>3 DEF CreatesOurs
<1> QED BY <1>1, <1>2 DEF CreateBucket

LEMMA PickAdopts ==
    ASSUME PickName
    PROVE  Removes \/ Adopts
<1>1. UNCHANGED <<remote, issued>> /\ pc = "pick"
  BY DEF PickName
<1>2. \/ taken' = taken
      \/ \E n \in IF obj.suffix THEN Suffixed ELSE {Base} :
            \E r \in Found(n) :
               Eligible(r) /\ taken' = taken \cup {[id |-> r.id, name |-> n]}
  BY DEF PickName
<1> QED BY <1>1, <1>2 DEF Removes, Adopts, Takes, Found

LEMMA OthersStep ==
    ASSUME TypeOK, OthersAct
    PROVE  Removes \/ Replaces \/ CreatesTheirs
<1>1. UNCHANGED taken
  BY DEF OthersAct
<1>2. ASSUME NEW n \in Names, NEW s \in Settings, Found(n) = {},
             n \in {t.name : t \in taken} => "reuse" \in Env,
             issued < MaxBuckets, issued' = issued + 1,
             remote' = remote \cup {[id |-> issued', name |-> n,
                                     settings |-> s, ready |-> TRUE]}
      PROVE  CreatesTheirs
  <2> DEFINE q == [id |-> issued', name |-> n, settings |-> s, ready |-> TRUE]
  <2>1. q \in RemoteBucket
    BY <1>2, BucketBounds DEF TypeOK, RemoteBucket, IDs
  <2>2. Creates(q) /\ (q.name \in TakenNames => "reuse" \in Env)
    BY <1>2 DEF Creates, Found, TakenNames
  <2> QED BY <1>1, <2>1, <2>2 DEF CreatesTheirs
<1>3. ASSUME NEW r \in remote, NEW s \in Settings, issued' = issued,
             remote' = (remote \ {r}) \cup {[r EXCEPT !.settings = s]}
      PROVE  Replaces
  <2> DEFINE q == [r EXCEPT !.settings = s]
  <2>1. q \in RemoteBucket /\ q.id = r.id /\ q.name = r.name
    BY DEF TypeOK, RemoteBucket
  <2> QED BY <1>1, <1>3, <2>1 DEF Replaces
<1>4. ASSUME NEW r \in remote, issued' = issued, remote' = remote \ {r}
      PROVE  Removes
  BY <1>1, <1>4 DEF Removes
<1> QED BY <1>2, <1>3, <1>4 DEF OthersAct

LEMMA ReadyReplaces ==
    ASSUME TypeOK, BecomesReady
    PROVE  Replaces
<1>1. PICK r \in remote :
             remote' = (remote \ {r}) \cup {[r EXCEPT !.ready = TRUE]}
  BY DEF BecomesReady
<1> DEFINE q == [r EXCEPT !.ready = TRUE]
<1>2. q \in RemoteBucket /\ q.id = r.id /\ q.name = r.name
  BY DEF TypeOK, RemoteBucket
<1> QED BY <1>1, <1>2 DEF BecomesReady, Replaces

LEMMA ServiceSteps ==
    ASSUME TypeOK, ServiceInv, [Next]_vars
    PROVE  ServiceStep
<1> USE DEF ServiceStep
<1>1. CASE UNCHANGED remoteVars
  BY <1>1 DEF Removes, remoteVars
<1>2. CASE DeleteBucket
  BY <1>2 DEF DeleteBucket, Removes
<1>3. CASE \/ AddFinalizer \/ StartReconcile \/ StartTerminate \/ Creating
           \/ GetBucket \/ PersistStatus \/ SetErrorCondition \/ Unfinalize
           \/ Crash \/ SyncBucket \/ EditBucket \/ UNCHANGED vars
  BY <1>1, <1>3
     DEF AddFinalizer, StartReconcile, StartTerminate, Creating, GetBucket,
         PersistStatus, SetErrorCondition, Unfinalize, Crash, SyncBucket,
         EditBucket, vars, remoteVars
<1> QED BY <1>2, <1>3, UpdateReplaces, CreateCreates, PickAdopts, OthersStep,
           ReadyReplaces DEF Next, Pass

-----------------------------------------------------------------------------
(* Type correctness                                                          *)

LEMMA ServiceType ==
    ASSUME TypeOK, ServiceStep
    PROVE  /\ remote' \subseteq RemoteBucket /\ issued' \in Nat
           /\ taken' \subseteq [id : IDs, name : Names]
<1>1. \A q \in RemoteBucket : [id |-> q.id, name |-> q.name]
                                 \in [id : IDs, name : Names]
  BY DEF RemoteBucket
<1>2. CASE Removes
  BY <1>2 DEF TypeOK, Removes
<1>3. CASE Replaces
  BY <1>3 DEF TypeOK, Replaces
<1>4. CASE CreatesOurs
  BY <1>1, <1>4 DEF TypeOK, CreatesOurs, Creates, Takes
<1>5. CASE CreatesTheirs
  BY <1>5 DEF TypeOK, CreatesTheirs, Creates
<1>6. CASE Adopts
  <2>1. PICK q \in remote : Takes(q)
    BY <1>6 DEF Adopts
  <2>2. q \in RemoteBucket
    BY DEF TypeOK
  <2> QED BY <1>1, <1>6, <2>1, <2>2 DEF TypeOK, Adopts, Takes
<1> QED BY <1>2, <1>3, <1>4, <1>5, <1>6 DEF ServiceStep

LEMMA ServiceInvStep ==
    ASSUME TypeOK, ServiceInv, [Next]_vars
    PROVE  ServiceInv'
<1>1. ServiceStep
  BY ServiceSteps
<1>2. (pc = "create" => run.name # NoName)'
  <2>1. CASE PickName
    <3>1. PICK n \in Names : pc' = "create" => run' = [run EXCEPT !.name = n]
      BY <2>1 DEF PickName, RetryOrDegrade, Goto, Names
    <3>2. [run EXCEPT !.name = n].name = n
      BY DEF TypeOK, Locals
    <3> QED BY <3>1, <3>2, NamesAssumption
  <2>2. CASE ~PickName
    BY <2>2 DEF ServiceInv, Next, Pass, AddFinalizer, StartReconcile,
         StartTerminate, Creating, GetBucket, PersistStatus,
         SetErrorCondition, Unfinalize, Crash, SyncBucket, EditBucket, vars,
         workVars, CreateBucket, UpdateBucket, DeleteBucket, OthersAct,
         BecomesReady, RetryOrDegrade, Goto, Stop
  <2> QED BY <2>1, <2>2
<1> DEFINE I(R, n, T) ==
             /\ \A r, q \in R : (r.id = q.id \/ r.name = q.name) => r = q
             /\ \A r \in R : r.id <= n
             /\ \A t \in T : t.id <= n
<1>3. I(remote', issued', taken')
  <2>1. /\ remote \subseteq RemoteBucket /\ issued \in Nat /\ IDs \subseteq Nat
        /\ \A q \in RemoteBucket : q.id \in Nat
        /\ \A t \in taken : t.id \in Nat
    BY BucketBounds DEF TypeOK, IDs, RemoteBucket
  <2>2. CASE Removes
    BY <2>2 DEF ServiceInv, Removes
  <2>3. CASE Replaces
    BY <2>1, <2>3 DEF ServiceInv, Replaces
  <2>4. CASE CreatesOurs \/ CreatesTheirs
    BY <2>1, <2>4 DEF ServiceInv, CreatesOurs, CreatesTheirs, Creates, Takes
  <2>5. CASE Adopts
    BY <2>1, <2>5 DEF ServiceInv, Adopts, Takes
  <2> QED BY <1>1, <2>2, <2>3, <2>4, <2>5 DEF ServiceStep
<1> QED BY <1>2, <1>3 DEF ServiceInv

LEMMA PassType == TypeOK /\ ServiceInv /\ Pass => TypeOK'
<1> SUFFICES ASSUME TypeOK, ServiceInv, Pass PROVE TypeOK'
  OBVIOUS
<1> USE DEF Goto
<1>1. /\ remote' \subseteq RemoteBucket /\ issued' \in Nat
      /\ taken' \subseteq [id : IDs, name : Names]
  BY ServiceSteps, ServiceType DEF Next
<1>2. edits' \in 0..MaxEdits
  BY DEF TypeOK, Pass, AddFinalizer, StartReconcile, StartTerminate, Creating,
         PickName, CreateBucket, GetBucket, UpdateBucket, PersistStatus,
         SetErrorCondition, DeleteBucket, Unfinalize
<1> DEFINE ObjectType == /\ bucket' \in BucketObject
                         /\ bucketCache' \in BucketObject
                         /\ late' \in 0..MaxLate
           WorkType == pc' \in Phases /\ obj' \in BucketObject /\ run' \in Locals
           Budget == faults' \in 0..MaxFaults
<1>3. \A o \in BucketObject, s \in Status :
         [o EXCEPT !.status = s] \in BucketObject
  BY DEF BucketObject
<1>4. \A o \in BucketObject, c \in {"Progressing", "Available", "Degraded"} :
         /\ [o EXCEPT !.status.cond = c] \in BucketObject
         /\ [o.status EXCEPT !.cond = c] \in Status /\ o.status \in Status
  BY DEF BucketObject, Status
<1>5. \A o \in BucketObject, n \in Names \cup {NoName} :
         [o EXCEPT !.status.name = n] \in BucketObject
  BY DEF BucketObject, Status
<1>6. \A l \in Locals, n \in Names \cup {NoName} :
         [l EXCEPT !.name = n] \in Locals
  BY DEF Locals
<1>7. Settings # {}
  BY DEF TypeOK, BucketObject
<1>8. \A n : Found(n) \subseteq RemoteBucket
  BY DEF TypeOK, Found
<1>9. \A o \in BucketObject : ProvisionedName(o) \in Names \cup {NoName}
  BY DEF ProvisionedName, BucketObject, Status, Names
<1>10. \A o \in BucketObject, r \in RemoteBucket :
          /\ Observed(o, r) \in BucketObject
          /\ ProviderCondition(o, r) \in BucketObject
  <2>1. \A r \in RemoteBucket : r.name \in Names \cup {NoName}
    BY DEF RemoteBucket
  <2> QED BY <1>4, <1>5, <2>1 DEF Observed, ProviderCondition
<1>11. RetryOrDegrade => pc' \in Phases /\ run' \in Locals
  BY BucketBounds DEF RetryOrDegrade, TypeOK, Locals, Phases
<1>12. CASE AddFinalizer
  <2>1. [bucket EXCEPT !.finalizer = TRUE] \in BucketObject
    BY DEF TypeOK, BucketObject
  <2>2. ObjectType
    BY <1>12, <2>1, PublishType DEF AddFinalizer, objectVars, TypeOK
  <2>3. Budget
    BY <1>12, FailType DEF AddFinalizer, Lost, TypeOK
  <2> QED BY <1>1, <1>2, <1>12, <2>2, <2>3 DEF TypeOK, AddFinalizer, workVars
<1>13. CASE StartReconcile \/ StartTerminate
  <2>1. WorkType
    BY <1>6, <1>7, <1>9, <1>13, BlankTypes
       DEF StartReconcile, StartTerminate, TypeOK, Phases
  <2> QED BY <1>1, <1>2, <1>13, <2>1
          DEF TypeOK, StartReconcile, StartTerminate, objectVars
<1>14. CASE Creating
  <2> DEFINE o == [obj EXCEPT !.status.cond = "Progressing"]
  <2>1. o \in BucketObject /\ o.status \in Status
    BY <1>4 DEF TypeOK
  <2>2. ObjectType /\ Budget
    BY <1>14, <2>1, StatusWriteType DEF Creating
  <2>3. [run EXCEPT !.attempt = 1] \in Locals
    BY BucketBounds DEF TypeOK, Locals
  <2>4. WorkType
    BY <1>14, <2>1, <2>3, StopType DEF Creating, Phases
  <2> QED BY <1>1, <1>2, <2>2, <2>4 DEF TypeOK
<1>15. CASE PickName
  <2>1. obj' \in BucketObject
    BY <1>8, <1>10, <1>15 DEF PickName, TypeOK
  <2>2. pc' \in Phases /\ run' \in Locals
    BY <1>6, <1>11, <1>15 DEF PickName, TypeOK, Phases, Names
  <2>3. Budget
    BY <1>15, FailType DEF PickName, TypeOK
  <2> QED BY <1>1, <1>2, <1>15, <2>1, <2>2, <2>3 DEF TypeOK, PickName, objectVars
<1>16. CASE CreateBucket
  <2> DEFINE made == [id |-> issued + 1, name |-> run.name,
                      settings |-> obj.settings, ready |-> FALSE]
  <2>1. Observed(obj, made) \in BucketObject
    BY <1>5 DEF Observed, TypeOK, Locals
  <2>2. ProviderCondition(Observed(obj, made), made) \in BucketObject
    BY <1>4, <2>1 DEF ProviderCondition
  <2>3. WorkType
    BY <1>11, <1>16, <2>2 DEF CreateBucket, TypeOK, Phases
  <2>4. Budget
    BY <1>16, FailType DEF CreateBucket, Lost, TypeOK
  <2> QED BY <1>1, <1>2, <1>16, <2>3, <2>4 DEF TypeOK, CreateBucket, objectVars
<1>17. CASE GetBucket
  <2>1. WorkType
    BY <1>5, <1>8, <1>10, <1>17 DEF GetBucket, TypeOK, Phases, Forgotten
  <2>2. Budget
    BY <1>17, FailType DEF GetBucket, TypeOK
  <2> QED BY <1>1, <1>2, <1>17, <2>1, <2>2 DEF TypeOK, GetBucket, objectVars
<1>18. CASE UpdateBucket
  <2>1. WorkType
    BY <1>4, <1>18 DEF UpdateBucket, TypeOK, Phases
  <2>2. Budget
    BY <1>18, FailType DEF UpdateBucket, Lost, TypeOK
  <2> QED BY <1>1, <1>2, <1>18, <2>1, <2>2 DEF TypeOK, UpdateBucket, objectVars
<1>19. CASE PersistStatus \/ SetErrorCondition
  <2>1. \E s \in Status : Persisted(s) \/ NotPersisted(s)
    BY <1>4, <1>19 DEF PersistStatus, SetErrorCondition, TypeOK
  <2>2. ObjectType /\ Budget
    BY <2>1, StatusWriteType
  <2>3. WorkType
    BY <1>19, StopType DEF PersistStatus, SetErrorCondition
  <2> QED BY <1>1, <1>2, <2>2, <2>3 DEF TypeOK
<1>20. CASE DeleteBucket
  <2>1. WorkType
    BY <1>20, StopType DEF DeleteBucket, TypeOK, Phases
  <2>2. Budget
    BY <1>20, FailType DEF DeleteBucket, Lost, TypeOK
  <2> QED BY <1>1, <1>2, <1>20, <2>1, <2>2 DEF TypeOK, DeleteBucket, objectVars
<1>21. CASE Unfinalize
  <2>1. [bucket EXCEPT !.finalizer = FALSE, !.phase = "gone"] \in BucketObject
    BY DEF TypeOK, BucketObject
  <2>2. ObjectType
    BY <1>21, <2>1, PublishType DEF Unfinalize, objectVars, TypeOK
  <2>3. Budget
    BY <1>21, FailType DEF Unfinalize, Lost, TypeOK
  <2>4. WorkType
    BY <1>21, StopType DEF Unfinalize
  <2> QED BY <1>1, <1>2, <2>2, <2>3, <2>4 DEF TypeOK
<1> QED BY <1>12, <1>13, <1>14, <1>15, <1>16, <1>17, <1>18, <1>19, <1>20,
           <1>21 DEF Pass

LEMMA OthersType ==
    TypeOK /\ ServiceInv
      /\ (Crash \/ SyncBucket \/ EditBucket \/ OthersAct \/ BecomesReady)
    => TypeOK'
<1> SUFFICES ASSUME TypeOK, ServiceInv,
                    \/ Crash \/ SyncBucket \/ EditBucket \/ OthersAct
                    \/ BecomesReady
             PROVE  TypeOK'
  OBVIOUS
<1>1. /\ remote' \subseteq RemoteBucket /\ issued' \in Nat
      /\ taken' \subseteq [id : IDs, name : Names]
  BY ServiceSteps, ServiceType DEF Next
<1>2. CASE Crash
  <2>1. faults' \in 0..MaxFaults
    BY <1>2, FailType DEF Crash, TypeOK
  <2> QED BY <1>1, <1>2, <2>1, StopType DEF Crash, TypeOK
<1>3. CASE SyncBucket
  BY <1>1, <1>3 DEF SyncBucket, TypeOK, workVars
<1>4. CASE EditBucket
  <2>1. PICK o \in BucketObject : Publish(o)
    <3>1. /\ \A t \in Settings : [bucket EXCEPT !.settings = t] \in BucketObject
          /\ [bucket EXCEPT !.suffix = ~@] \in BucketObject
          /\ [bucket EXCEPT !.suspended = ~@] \in BucketObject
          /\ \A ph \in {"deleting", "gone"} :
                [bucket EXCEPT !.phase = ph] \in BucketObject
      BY DEF TypeOK, BucketObject
    <3>2. \/ \E t \in Settings : Publish([bucket EXCEPT !.settings = t])
          \/ Publish([bucket EXCEPT !.suffix = ~@])
          \/ Publish([bucket EXCEPT !.suspended = ~@])
          \/ \E ph \in {"deleting", "gone"} :
                Publish([bucket EXCEPT !.phase = ph])
      BY <1>4 DEF EditBucket
    <3> QED BY <3>1, <3>2
  <2>2. edits' \in 0..MaxEdits
    BY <1>4, BucketBounds DEF EditBucket, Edit, TypeOK
  <2> QED BY <1>1, <1>4, <2>1, <2>2, PublishType
          DEF EditBucket, TypeOK, workVars
<1>5. CASE OthersAct
  <2>1. edits' \in 0..MaxEdits
    BY <1>5, BucketBounds DEF OthersAct, Edit, TypeOK
  <2> QED BY <1>1, <1>5, <2>1 DEF OthersAct, TypeOK, workVars, objectVars
<1>6. CASE BecomesReady
  BY <1>1, <1>6 DEF BecomesReady, TypeOK, workVars, objectVars
<1> QED BY <1>2, <1>3, <1>4, <1>5, <1>6

LEMMA InitFacts == Init => TypeOK /\ ServiceInv
<1> SUFFICES ASSUME Init PROVE TypeOK /\ ServiceInv
  OBVIOUS
<1>1. PICK suffix \in Modes, s \in Settings : bucket = Fresh(suffix, s)
  BY DEF Init
<1>2. bucket \in BucketObject
  BY <1>1, BucketBounds DEF Fresh, BucketObject, Status
<1>3. obj \in BucketObject /\ run \in Locals
  BY <1>1, BlankTypes DEF Init
<1>4. remote = {} \/ \E r \in RemoteBucket : remote = {r} /\ r.id = 1
  <2>1. [id : {1}, name : {Base}, settings : Settings, ready : {TRUE}]
           \subseteq RemoteBucket
    <3>1. 1 \in IDs /\ Base \in Names
      BY BucketBounds DEF IDs, Names
    <3> QED BY <3>1 DEF RemoteBucket
  <2> QED BY <2>1 DEF Init
<1>5. ServiceInv
  BY <1>4 DEF Init, ServiceInv
<1> QED BY <1>2, <1>3, <1>4, <1>5, BucketBounds DEF Init, TypeOK, Phases

LEMMA TypeStep == TypeOK /\ ServiceInv /\ [Next]_vars => TypeOK' /\ ServiceInv'
<1> SUFFICES ASSUME TypeOK, ServiceInv, [Next]_vars
             PROVE  TypeOK' /\ ServiceInv'
  OBVIOUS
<1>1. CASE UNCHANGED vars
  BY <1>1, ServiceInvStep DEF TypeOK, vars
<1> QED BY <1>1, PassType, OthersType, ServiceInvStep DEF Next

(* Every variable keeps its type: for one thing, createBucket never passes   *)
(* maxCreateNameAttempts and never asks for a bucket without a name.         *)
THEOREM TypeCorrect == Spec => []TypeOK
<1>1. Init => TypeOK /\ ServiceInv
  BY InitFacts
<1>2. TypeOK /\ ServiceInv /\ [Next]_vars => (TypeOK /\ ServiceInv)'
  BY TypeStep
<1> QED BY <1>1, <1>2, PTL DEF Spec

-----------------------------------------------------------------------------
(* The life of the object                                                    *)

(* The object changes by the users' edits, by status writes, by the          *)
(* finalizer that is added and by the one that is removed.                   *)
Finalized == [bucket EXCEPT !.finalizer = TRUE]
Departed == [bucket EXCEPT !.finalizer = FALSE, !.phase = "gone"]

LEMMA ObjectSteps ==
    ASSUME TypeOK, [Next]_vars
    PROVE  \/ UNCHANGED <<bucket, late>> /\ bucketCache' \in {bucketCache, bucket}
           \/ /\ AddFinalizer /\ CacheIsCurrent /\ bucketCache.phase = "live"
              /\ Publish(Finalized)
           \/ \E s \in Status : /\ Creating \/ PersistStatus \/ SetErrorCondition
                                /\ Written(s)
                                /\ s.name = obj.status.name
           \/ Unfinalize /\ UpdateAccepted /\ Publish(Departed)
           \/ /\ EditBucket /\ bucket.phase # "gone"
              /\ \E o \in BucketObject :
                    /\ Publish(o) /\ o.status = bucket.status
                    /\ o.finalizer = bucket.finalizer
                    /\ o.phase = "gone" => ~bucket.finalizer
<1>1. faults \in Nat
  BY BucketBounds DEF TypeOK
<1>2. CASE AddFinalizer
  BY <1>2 DEF AddFinalizer, Finalized, objectVars, CacheIsCurrent
<1>3. CASE Creating \/ PersistStatus \/ SetErrorCondition
  <2>1. \E s \in Status : /\ s.name = obj.status.name
                          /\ Persisted(s) \/ NotPersisted(s)
    <3>1. \A c \in {"Progressing", "Degraded"} :
             LET s == [obj.status EXCEPT !.cond = c] IN
             /\ s \in Status /\ s.name = obj.status.name
             /\ [obj EXCEPT !.status.cond = c].status = s
      BY DEF TypeOK, BucketObject, Status
    <3>2. obj.status \in Status
      BY DEF TypeOK, BucketObject
    <3> QED BY <1>3, <3>1, <3>2 DEF Creating, PersistStatus, SetErrorCondition
  <2> QED BY <1>1, <1>3, <2>1, StatusWriteEffect DEF Refused, objectVars
<1>4. CASE Unfinalize
  BY <1>4 DEF Unfinalize, Departed, objectVars
<1>5. CASE EditBucket
  <2> DEFINE Good(o) == /\ o \in BucketObject /\ o.status = bucket.status
                        /\ o.finalizer = bucket.finalizer
                        /\ o.phase = "gone" => ~bucket.finalizer
  <2>1. bucket.phase # "gone"
    BY <1>5 DEF EditBucket
  <2>2. /\ \A t \in Settings : Good([bucket EXCEPT !.settings = t])
        /\ Good([bucket EXCEPT !.suffix = ~@])
        /\ Good([bucket EXCEPT !.suspended = ~@])
        /\ \A ph \in {"deleting", "gone"} :
              ph = (IF bucket.finalizer THEN "deleting" ELSE "gone")
              => Good([bucket EXCEPT !.phase = ph])
    BY <2>1 DEF TypeOK, BucketObject
  <2>3. \/ \E t \in Settings : Publish([bucket EXCEPT !.settings = t])
        \/ Publish([bucket EXCEPT !.suffix = ~@])
        \/ Publish([bucket EXCEPT !.suspended = ~@])
        \/ \E ph \in {"deleting", "gone"} :
              /\ ph = (IF bucket.finalizer THEN "deleting" ELSE "gone")
              /\ Publish([bucket EXCEPT !.phase = ph])
    BY <1>5 DEF EditBucket
  <2>4. \E o : Good(o) /\ Publish(o)
    BY <2>2, <2>3
  <2> QED BY <1>5, <2>1, <2>4
<1>6. CASE SyncBucket \/ Crash
  BY <1>6 DEF SyncBucket, Crash
<1>7. CASE \/ StartReconcile \/ StartTerminate \/ PickName \/ CreateBucket
           \/ GetBucket \/ UpdateBucket \/ DeleteBucket \/ OthersAct
           \/ BecomesReady \/ UNCHANGED vars
  BY <1>7 DEF StartReconcile, StartTerminate, PickName, CreateBucket,
              GetBucket, UpdateBucket, DeleteBucket, OthersAct, BecomesReady,
              vars, objectVars
<1> QED BY <1>2, <1>3, <1>4, <1>5, <1>6, <1>7 DEF Next, Pass

(* The worker starts a pass from the informer's copy, goes on with it, or    *)
(* ends it.                                                                  *)
LEMMA WorkSteps ==
    ASSUME [Next]_vars
    PROVE  /\ \/ pc' = "idle" \/ pc # "idle"
              \/ pc = "idle" /\ bucketCache.finalizer /\ UNCHANGED objectVars
           /\ pc' \in {"pick", "create"} =>
                 \/ pc \in {"pick", "create"}
                 \/ /\ Creating /\ pc' = "pick"
                    /\ Persisted([obj EXCEPT !.status.cond = "Progressing"].status)
<1> USE DEF Goto
<1>1. CASE StartReconcile \/ StartTerminate
  BY <1>1 DEF StartReconcile, StartTerminate
<1>2. CASE AddFinalizer \/ SyncBucket \/ EditBucket \/ OthersAct
           \/ BecomesReady \/ UNCHANGED vars
  BY <1>2 DEF AddFinalizer, SyncBucket, EditBucket, OthersAct, BecomesReady,
              workVars, vars
<1>3. CASE Creating
  BY <1>3 DEF Creating, Stop
<1>4. CASE PickName \/ CreateBucket
  BY <1>4 DEF PickName, CreateBucket
<1>5. CASE \/ GetBucket \/ UpdateBucket \/ PersistStatus \/ SetErrorCondition
           \/ DeleteBucket \/ Unfinalize \/ Crash
  BY <1>5 DEF GetBucket, UpdateBucket, PersistStatus, SetErrorCondition,
              DeleteBucket, Unfinalize, Crash, Stop
<1> QED BY <1>1, <1>2, <1>3, <1>4, <1>5 DEF Next, Pass

LEMMA LifecycleStep ==
    TypeOK /\ LifecycleInv /\ [Next]_vars => LifecycleInv'
<1> SUFFICES ASSUME TypeOK, LifecycleInv, [Next]_vars PROVE LifecycleInv'
  OBVIOUS
<1> DEFINE Kept(o) == o.finalizer \/ o.phase = "gone"
<1>1. /\ bucketCache' \in {bucketCache, bucket, bucket'}
      /\ Kept(bucket) => Kept(bucket')
      /\ bucketCache'.finalizer => Kept(bucket')
      /\ (bucket'.phase # "gone" /\ ~bucket'.finalizer)
            => bucket'.status.name = NoName
      /\ bucket'.phase = "gone" =>
            bucket.phase = "gone" \/ Unfinalize \/ ~Kept(bucket)
  <2>1. CASE UNCHANGED <<bucket, late>> /\ bucketCache' \in {bucketCache, bucket}
    BY <2>1 DEF LifecycleInv
  <2>2. CASE CacheIsCurrent /\ bucketCache.phase = "live" /\ Publish(Finalized)
    <3>1. Finalized.finalizer /\ Finalized.phase = bucket.phase
      BY DEF TypeOK, BucketObject, Finalized
    <3> QED BY <2>2, <3>1, PublishEffect DEF LifecycleInv, CacheIsCurrent
  <2>3. ASSUME NEW s \in Status, Written(s),
               Creating \/ PersistStatus \/ SetErrorCondition
        PROVE  <1>1!1 /\ <1>1!2 /\ <1>1!3 /\ <1>1!4 /\ <1>1!5
    <3> DEFINE o == [bucket EXCEPT !.status = s]
    <3>1. o.finalizer = bucket.finalizer /\ o.phase = bucket.phase
      BY DEF TypeOK, BucketObject
    <3>2. pc # "idle"
      BY <2>3 DEF Creating, PersistStatus, SetErrorCondition
    <3>3. Publish(o)
      BY <2>3 DEF Written
    <3> QED BY <3>1, <3>2, <3>3, PublishEffect DEF LifecycleInv
  <2>4. CASE Unfinalize /\ Publish(Departed)
    <3>1. Departed.phase = "gone"
      BY DEF TypeOK, BucketObject, Departed
    <3> QED BY <2>4, <3>1, PublishEffect DEF LifecycleInv
  <2>5. ASSUME NEW o \in BucketObject, Publish(o), bucket.phase # "gone",
               o.status = bucket.status, o.finalizer = bucket.finalizer,
               o.phase = "gone" => ~bucket.finalizer
        PROVE  <1>1!1 /\ <1>1!2 /\ <1>1!3 /\ <1>1!4 /\ <1>1!5
    BY <2>5, PublishEffect DEF LifecycleInv
  <2> QED BY <2>1, <2>2, <2>3, <2>4, <2>5, ObjectSteps
<1>2. (pc' # "idle" \/ bucketCache'.finalizer) => Kept(bucket')
  BY <1>1, WorkSteps DEF LifecycleInv, objectVars
<1>3. pc' \in {"pick", "create"} => bucket'.phase # "gone"
  <2>1. CASE Creating /\ Persisted([obj EXCEPT !.status.cond = "Progressing"].status)
    BY <2>1, PublishEffect DEF Persisted, CacheIsCurrent, TypeOK, BucketObject
  <2>2. CASE pc \in {"pick", "create"}
    <3>1. ~Unfinalize /\ Kept(bucket)
      BY <2>2 DEF Unfinalize, LifecycleInv
    <3> QED BY <1>1, <2>2, <3>1 DEF LifecycleInv
  <2> QED BY <2>1, <2>2, WorkSteps
<1> QED BY <1>1, <1>2, <1>3 DEF LifecycleInv

(* Only a pass that starts, or its own deletion, gets a worker to where      *)
(* Terminate is.                                                             *)
LEMMA TerminateSteps ==
    ASSUME [Next]_vars
    PROVE  /\ pc' = "delete" =>
                 \/ pc = "delete" /\ UNCHANGED <<obj, run>>
                 \/ StartTerminate
           /\ pc' = "unfinalize" =>
                 \/ pc = "unfinalize" /\ UNCHANGED obj
                 \/ StartTerminate
                 \/ /\ DeleteBucket /\ UNCHANGED obj
                    /\ remote' = remote \ Found(run.name)
<1> USE DEF Goto
<1>1. CASE DeleteBucket
  BY <1>1 DEF DeleteBucket, Stop
<1>2. CASE \/ StartReconcile \/ AddFinalizer \/ SyncBucket \/ EditBucket
           \/ OthersAct \/ BecomesReady \/ UNCHANGED vars
  BY <1>2 DEF StartReconcile, AddFinalizer, SyncBucket, EditBucket, OthersAct,
              BecomesReady, workVars, vars
<1>3. CASE Creating \/ PickName \/ CreateBucket
  BY <1>3 DEF Creating, PickName, CreateBucket, RetryOrDegrade, Stop
<1>4. CASE \/ GetBucket \/ UpdateBucket \/ PersistStatus \/ SetErrorCondition
           \/ Unfinalize \/ Crash
  BY <1>4 DEF GetBucket, UpdateBucket, PersistStatus, SetErrorCondition,
              Unfinalize, Crash, Stop
<1> QED BY <1>1, <1>2, <1>3, <1>4 DEF Next, Pass

(* What is under a name and is not ours does not become ours, unless a pass  *)
(* creates or adopts it; what others create is not ours.                     *)
LEMMA NotOurs ==
    ASSUME TypeOK, ServiceInv, ServiceStep, pc \notin {"pick", "create"},
           NEW n, \A r \in remote : r.name = n => r.id \notin Ours
    PROVE  \A r \in remote' : r.name = n => r.id \notin Ours'
<1>1. issued \in Nat /\ \A t \in taken : t.id \in Nat /\ t.id <= issued
  BY BucketBounds DEF TypeOK, ServiceInv, IDs
<1>2. Ours' = Ours /\ issued + 1 \notin Ours
  BY <1>1 DEF Ours, ServiceStep, Removes, Replaces, CreatesOurs,
              CreatesTheirs, Adopts
<1>3. CASE Removes
  BY <1>2, <1>3 DEF Removes
<1>4. CASE Replaces
  BY <1>2, <1>4 DEF Replaces
<1>5. CASE CreatesTheirs
  BY <1>2, <1>5 DEF CreatesTheirs, Creates
<1> QED BY <1>3, <1>4, <1>5 DEF ServiceStep, CreatesOurs, Adopts

LEMMA RealNames ==
    ASSUME TypeOK
    PROVE  NoName \notin Names /\ \A r \in remote : r.name # NoName
BY NamesAssumption DEF TypeOK, RemoteBucket

LEMMA GoneStep ==
    TypeOK /\ ServiceInv /\ LifecycleInv /\ GoneInv /\ [Next]_vars => GoneInv'
<1> SUFFICES ASSUME TypeOK, ServiceInv, LifecycleInv, GoneInv, [Next]_vars
             PROVE  GoneInv'
  OBVIOUS
<1>1. ServiceStep
  BY ServiceSteps
<1>2. BucketGone'
  <2> SUFFICES ASSUME bucket'.phase = "gone"
               PROVE  \A r \in remote' : r.name = bucket'.status.name
                                            => r.id \notin Ours'
    BY DEF BucketGone
  <2>1. CASE bucket.phase = "gone"
    <3>1. bucket' = bucket
      BY <2>1, ObjectSteps DEF CacheIsCurrent, Written, UpdateAccepted
    <3>2. pc \notin {"pick", "create"}
      BY <2>1 DEF LifecycleInv
    <3> QED BY <1>1, <2>1, <3>1, <3>2, NotOurs DEF GoneInv, BucketGone
  <2>2. CASE bucket.phase # "gone"
    <3>1. CASE Unfinalize /\ UpdateAccepted /\ Publish(Departed)
      <4>1. bucket'.status = obj.status
        <5>1. Departed.status = bucket.status
          BY DEF Departed, TypeOK, BucketObject
        <5>2. bucket' = Departed /\ obj = bucket
          BY <3>1, PublishEffect DEF UpdateAccepted
        <5> QED BY <5>1, <5>2
      <4>2. UNCHANGED <<remote, taken>> /\ pc = "unfinalize"
        BY <3>1 DEF Unfinalize, remoteVars
      <4> QED BY <4>1, <4>2 DEF GoneInv, Ours
    <3>2. ASSUME NEW o \in BucketObject, EditBucket, Publish(o),
                 o.status = bucket.status, o.phase = "gone" => ~bucket.finalizer
          PROVE  \A r \in remote' : r.name # bucket'.status.name
      <4>1. bucket' = o /\ remote' = remote
        BY <3>2, PublishEffect DEF EditBucket, remoteVars
      <4>2. bucket'.status.name = NoName
        BY <2>2, <3>2, <4>1 DEF LifecycleInv
      <4> QED BY <4>1, <4>2, RealNames
    <3>3. \/ bucket' = bucket
          \/ bucket' = Finalized /\ CacheIsCurrent
          \/ \E s \in Status : bucket' = [bucket EXCEPT !.status = s]
          \/ Unfinalize /\ UpdateAccepted /\ Publish(Departed)
          \/ \E o \in BucketObject : /\ EditBucket /\ Publish(o)
                                     /\ o.status = bucket.status
                                     /\ o.phase = "gone" => ~bucket.finalizer
      <4>1. \A o : Publish(o) => bucket' = o
        BY PublishEffect
      <4>2. \A s \in Status : Written(s) => Publish([bucket EXCEPT !.status = s])
        BY DEF Written
      <4> QED BY ObjectSteps, <4>1, <4>2
    <3>4. /\ Finalized.phase = bucket.phase
          /\ \A s : [bucket EXCEPT !.status = s].phase = bucket.phase
      BY DEF Finalized, TypeOK, BucketObject
    <3> QED BY <2>2, <3>1, <3>2, <3>3, <3>4
  <2> QED BY <2>1, <2>2
<1>3. (pc = "delete" /\ obj.status.name # NoName => run.name = obj.status.name)'
  <2>1. CASE StartTerminate
    <3>1. \A n : [NoLocals EXCEPT !.name = n].name = n
      BY DEF NoLocals
    <3> QED BY <2>1, <3>1 DEF StartTerminate, ProvisionedName
  <2>2. CASE pc = "delete" /\ UNCHANGED <<obj, run>>
    BY <2>2 DEF GoneInv
  <2> QED BY <2>1, <2>2, TerminateSteps
<1>4. (pc = "unfinalize" => \A r \in remote : r.name = obj.status.name
                                                 => r.id \notin Ours)'
  <2>1. CASE StartTerminate /\ pc' = "unfinalize"
    <3>1. \A n : [NoLocals EXCEPT !.name = n].name = n
      BY DEF NoLocals
    <3>2. obj'.status.name = NoName /\ remote' = remote
      BY <2>1, <3>1
         DEF StartTerminate, ProvisionedName, Goto, remoteVars
    <3> QED BY <3>2, RealNames
  <2>2. CASE pc = "unfinalize" /\ UNCHANGED obj
    BY <1>1, <2>2, NotOurs DEF GoneInv
  <2>3. CASE DeleteBucket /\ UNCHANGED obj /\ remote' = remote \ Found(run.name)
    <3>1. \A r \in remote' : r.name # obj.status.name
      BY <2>3, RealNames DEF DeleteBucket, GoneInv, Found
    <3> QED BY <2>3, <3>1
  <2> QED BY <2>1, <2>2, <2>3, TerminateSteps
<1> QED BY <1>2, <1>3, <1>4 DEF GoneInv

(* An object that is gone took the bucket that its status recorded with it,  *)
(* though Terminate works from a copy that may be stale: the Update that     *)
(* removes the finalizer is refused unless that copy is the object.          *)
THEOREM BucketGoesWithObject == Spec => []BucketGone
<1> DEFINE Inv == TypeOK /\ ServiceInv /\ LifecycleInv /\ GoneInv
<1>1. Init => Inv
  <2> SUFFICES ASSUME Init PROVE Inv
    OBVIOUS
  <2>1. bucket.phase = "live" /\ ~bucket.finalizer /\ bucket.status.name = NoName
    BY DEF Init, Fresh
  <2>2. pc = "idle" /\ bucketCache = bucket
    BY DEF Init
  <2> QED BY <2>1, <2>2, InitFacts DEF LifecycleInv, GoneInv, BucketGone
<1>2. Inv /\ [Next]_vars => Inv'
  BY TypeStep, LifecycleStep, GoneStep
<1>3. Inv => BucketGone
  BY DEF GoneInv
<1> QED BY <1>1, <1>2, <1>3, PTL DEF Spec

-----------------------------------------------------------------------------
(* Whose buckets                                                             *)

LEMMA TakesEffect ==
    ASSUME NEW q, Takes(q)
    PROVE  TakenNames' = TakenNames \cup {q.name} /\ Ours' = Ours \cup {q.id}
<1>1. /\ [id |-> q.id, name |-> q.name].name = q.name
      /\ [id |-> q.id, name |-> q.name].id = q.id
  OBVIOUS
<1>2. taken' = taken \cup {[id |-> q.id, name |-> q.name]}
  BY DEF Takes
<1>3. TakenNames' = TakenNames \cup {q.name}
  BY <1>1, <1>2, Zenon DEF TakenNames
<1>4. Ours' = Ours \cup {q.id}
  BY <1>1, <1>2, Zenon DEF Ours
<1> QED BY <1>3, <1>4

LEMMA TakenGrows ==
    ASSUME ServiceStep
    PROVE  taken \subseteq taken' /\ TakenNames \subseteq TakenNames'
                                  /\ Ours \subseteq Ours'
<1>1. taken \subseteq taken'
  BY DEF ServiceStep, Removes, Replaces, CreatesOurs, CreatesTheirs, Adopts, Takes
<1> QED BY <1>1 DEF TakenNames, Ours

(* The copy of the worker: a name comes into it from the informer, or from   *)
(* the service under the name that the pass works with.                      *)
LEMMA CopySteps ==
    ASSUME TypeOK, ServiceInv, [Next]_vars
    PROVE  /\ \/ obj'.status.name \in {obj.status.name, NoName,
                                       bucketCache.status.name}
              \/ /\ pc = "get" /\ pc' \in {"update", "persist"}
                 /\ obj'.status.name = run.name
              \/ /\ pc \in {"pick", "create"} /\ pc' = "persist"
                 /\ obj'.status.name \in TakenNames'
           /\ pc' \in {"get", "update"} =>
                 \/ pc \in {"get", "update"} /\ run' = run
                 \/ run'.name = bucketCache.status.name /\ run'.name # NoName
           /\ pc' = "delete" =>
                 \/ pc = "delete" /\ UNCHANGED <<obj, run>>
                 \/ /\ obj' = bucketCache
                    /\ run'.name = ProvisionedName(bucketCache)
                    /\ run'.name # NoName
<1> USE DEF Goto
<1>1. NoObject.status.name = NoName
  BY DEF NoObject, Fresh
<1>2. /\ \A c : [obj EXCEPT !.status.cond = c].status.name = obj.status.name
      /\ \A r : /\ Observed(obj, r).status.name = r.name
                /\ ProviderCondition(Observed(obj, r), r).status.name = r.name
      /\ Forgotten(obj).status.name = NoName
  BY DEF TypeOK, BucketObject, Status, Observed, ProviderCondition, Forgotten
<1>3. CASE StartReconcile \/ StartTerminate
  <2>1. \A n : [NoLocals EXCEPT !.name = n].name = n
    BY DEF NoLocals
  <2> QED BY <1>3, <2>1 DEF StartReconcile, StartTerminate, ProvisionedName
<1>4. CASE \/ AddFinalizer \/ SyncBucket \/ EditBucket \/ OthersAct
           \/ BecomesReady \/ UNCHANGED vars
  BY <1>4 DEF AddFinalizer, SyncBucket, EditBucket, OthersAct, BecomesReady,
              workVars, vars
<1>5. CASE PersistStatus \/ SetErrorCondition \/ Unfinalize \/ Crash
  BY <1>1, <1>5 DEF PersistStatus, SetErrorCondition, Unfinalize, Crash, Stop
<1>6. CASE Creating \/ UpdateBucket \/ DeleteBucket
  <2>1. /\ \/ obj' = obj \/ obj' = NoObject
           \/ \E c : obj' = [obj EXCEPT !.status.cond = c]
        /\ pc' \notin {"get", "update", "delete"}
    BY <1>6 DEF Creating, UpdateBucket, DeleteBucket, Stop
  <2>2. obj'.status.name \in {obj.status.name, NoName}
    BY <1>1, <1>2, <2>1
  <2> QED BY <2>1, <2>2
<1>7. CASE GetBucket
  BY <1>2, <1>7 DEF GetBucket, Found
<1>8. CASE PickName
  <2>1. pc = "pick" /\ pc' \notin {"get", "update", "delete"}
    BY <1>8 DEF PickName, RetryOrDegrade
  <2>2. CASE obj' = obj
    BY <2>1, <2>2
  <2>3. CASE \E r : /\ obj' = ProviderCondition(Observed(obj, r), r)
                    /\ Takes(r) /\ pc' = "persist"
    BY <1>2, <2>1, <2>3, TakesEffect
  <2> QED BY <1>8, <2>2, <2>3 DEF PickName, Found, Takes
<1>9. CASE CreateBucket
  <2>1. pc = "create" /\ pc' \notin {"get", "update", "delete"}
    BY <1>9 DEF CreateBucket, RetryOrDegrade
  <2>2. CASE obj' = obj
    BY <2>1, <2>2
  <2>3. CASE \E made : /\ obj' = ProviderCondition(Observed(obj, made), made)
                       /\ Takes(made) /\ pc' = "persist"
    BY <1>2, <2>1, <2>3, TakesEffect
  <2> QED BY <1>9, <2>2, <2>3 DEF CreateBucket, Takes
<1> QED BY <1>3, <1>4, <1>5, <1>6, <1>7, <1>8, <1>9 DEF Next, Pass

LEMMA NameStep ==
    "reuse" \notin Env /\ TypeOK /\ ServiceInv /\ NameInv /\ [Next]_vars => NameInv'
<1> SUFFICES ASSUME "reuse" \notin Env, TypeOK, ServiceInv, NameInv, [Next]_vars
             PROVE  NameInv'
  OBVIOUS
<1>1. ServiceStep
  BY ServiceSteps
<1>2. TakenNames \subseteq TakenNames' /\ Ours \subseteq Ours'
  BY <1>1, TakenGrows
<1>3. \A r \in remote' : r.name \in TakenNames' => r.id \in Ours'
  <2>1. CASE Removes
    BY <1>2, <2>1 DEF NameInv, Removes, TakenNames
  <2>2. CASE Replaces
    BY <1>2, <2>2 DEF NameInv, Replaces, TakenNames
  <2>3. CASE CreatesOurs
    <3>1. PICK q \in RemoteBucket : Creates(q) /\ Takes(q)
      BY <2>3 DEF CreatesOurs
    <3>2. TakenNames' = TakenNames \cup {q.name} /\ Ours' = Ours \cup {q.id}
      BY <3>1, TakesEffect
    <3> QED BY <3>1, <3>2 DEF NameInv, Creates
  <2>4. CASE CreatesTheirs
    BY <1>2, <2>4 DEF NameInv, CreatesTheirs, Creates, TakenNames
  <2>5. CASE Adopts
    <3>1. PICK q \in remote : Takes(q) /\ remote' = remote
      BY <2>5 DEF Adopts
    <3>2. TakenNames' = TakenNames \cup {q.name} /\ Ours' = Ours \cup {q.id}
      BY <3>1, TakesEffect
    <3> QED BY <3>1, <3>2 DEF NameInv, ServiceInv
  <2> QED BY <1>1, <2>1, <2>2, <2>3, <2>4, <2>5 DEF ServiceStep
<1>4. obj'.status.name \in TakenNames' \cup {NoName}
  BY <1>2, CopySteps DEF NameInv
<1>5. \A o \in {bucket', bucketCache'} :
         o.status.name \in TakenNames' \cup {NoName}
  <2>1. \A o \in {Finalized, Departed} : o.status = bucket.status
    BY DEF Finalized, Departed, TypeOK, BucketObject
  <2>2. \A s \in Status : [bucket EXCEPT !.status = s].status = s
    BY DEF TypeOK, BucketObject
  <2>3. \/ bucket' = bucket
        \/ Publish(bucket') /\ bucket'.status.name
                                  \in {bucket.status.name, obj.status.name}
    <3>1. ASSUME NEW o, Publish(o),
                 o.status.name \in {bucket.status.name, obj.status.name}
          PROVE  /\ Publish(bucket')
                 /\ bucket'.status.name \in {bucket.status.name, obj.status.name}
      BY <3>1, PublishEffect
    <3> QED BY <2>1, <2>2, <3>1, ObjectSteps DEF Written
  <2>4. bucketCache' \in {bucketCache, bucket, bucket'}
    <3>1. \A o : Publish(o) => bucketCache' \in {bucketCache, bucket'}
      BY PublishEffect
    <3> QED BY <3>1, ObjectSteps DEF Written
  <2> QED BY <1>2, <2>3, <2>4 DEF NameInv
<1>6. pc' \in {"get", "update"} => run'.name \in TakenNames'
  BY <1>2, CopySteps DEF NameInv
<1>7. (pc = "delete" => run.name \in TakenNames \/ FixedNameDeletion)'
  <2>1. CASE pc = "delete" /\ pc' = "delete" /\ UNCHANGED <<obj, run>>
    BY <1>2, <2>1 DEF NameInv, FixedNameDeletion
  <2>2. CASE /\ pc' = "delete" /\ obj' = bucketCache
             /\ run'.name = ProvisionedName(bucketCache)
             /\ run'.name # NoName
    <3>1. CASE bucketCache.status.name # NoName
      BY <1>2, <2>2, <3>1 DEF NameInv, ProvisionedName
    <3>2. CASE bucketCache.status.name = NoName /\ ~bucketCache.suffix
      BY <2>2, <3>2 DEF FixedNameDeletion
    <3>3. CASE bucketCache.status.name = NoName /\ bucketCache.suffix
      BY <2>2, <3>3 DEF ProvisionedName
    <3> QED BY <3>1, <3>2, <3>3
  <2> QED BY <2>1, <2>2, CopySteps
<1> QED BY <1>3, <1>4, <1>5, <1>6, <1>7 DEF NameInv

LEMMA InitNames == Init => NameInv
<1> SUFFICES ASSUME Init PROVE NameInv
  OBVIOUS
<1>1. bucket.status.name = NoName /\ obj.status.name = NoName
  BY DEF Init, NoObject, Fresh
<1>2. TakenNames = {} /\ pc = "idle" /\ bucketCache = bucket
  BY DEF Init, TakenNames
<1> QED BY <1>1, <1>2 DEF NameInv

LEMMA SparingStep ==
    TypeOK /\ ServiceInv /\ NameInv /\ [Next]_vars /\ edits' = edits
      /\ ~FixedNameDeletion
    => SparesForeign
<1> SUFFICES ASSUME TypeOK, ServiceInv, NameInv, [Next]_vars, edits' = edits,
                    ~FixedNameDeletion
             PROVE  SparesForeign
  OBVIOUS
<1>1. CASE remote \subseteq remote'
  BY <1>1 DEF SparesForeign
<1>2. CASE DeleteBucket
  <2>1. \A r \in Found(run.name) : r.id \in Ours
    BY <1>2 DEF NameInv, DeleteBucket, Found
  <2> QED BY <1>2, <2>1 DEF DeleteBucket, SparesForeign
<1>3. CASE UpdateBucket
  <2>1. \A r \in Found(run.name) : r.id \in Ours
    BY <1>3 DEF NameInv, UpdateBucket, Found
  <2> QED BY <1>3, <2>1 DEF UpdateBucket, SparesForeign
<1>4. CASE BecomesReady
  <2>1. PICK r \in remote :
               remote' = (remote \ {r}) \cup {[r EXCEPT !.ready = TRUE]}
    BY <1>4 DEF BecomesReady
  <2>2. LET q == [r EXCEPT !.ready = TRUE]
        IN  q.id = r.id /\ q.settings = r.settings
    BY DEF TypeOK, RemoteBucket
  <2> QED BY <2>1, <2>2 DEF SparesForeign
<1>5. ~OthersAct
  BY DEF OthersAct, Edit, TypeOK
<1>6. \/ DeleteBucket \/ UpdateBucket \/ BecomesReady
      \/ remote \subseteq remote'
  BY <1>5
     DEF Next, Pass, AddFinalizer, StartReconcile, StartTerminate, Creating,
         PickName, CreateBucket, GetBucket, PersistStatus, SetErrorCondition,
         Unfinalize, Crash, SyncBucket, EditBucket, vars, remoteVars
<1> QED BY <1>1, <1>2, <1>3, <1>4, <1>6

(* As long as nobody takes over a name that was ours, no step of the         *)
(* controller changes or deletes a bucket that it neither created nor was    *)
(* allowed to adopt, except the deletion by a fixed name that the status     *)
(* never recorded. What reconcileBucket and Terminate look up by name is     *)
(* what this object was given.                                               *)
THEOREM ForeignBuckets == "reuse" \notin Env => (Spec => ForeignBucketSpared)
<1> SUFFICES ASSUME "reuse" \notin Env
             PROVE  Spec => ForeignBucketSpared
  OBVIOUS
<1> DEFINE Inv == TypeOK /\ ServiceInv /\ NameInv
           Spares == edits' = edits /\ ~FixedNameDeletion => SparesForeign
<1>1. Init => Inv
  BY InitFacts, InitNames
<1>2. Inv /\ [Next]_vars => Inv'
  BY TypeStep, NameStep
<1>3. Inv /\ [Next]_vars => [Spares]_vars
  BY SparingStep
<1>4. Spec => [][Spares]_vars
  BY <1>1, <1>2, <1>3, PTL DEF Spec
<1> QED BY <1>4 DEF ForeignBucketSpared

LEMMA TakingStep ==
    TypeOK /\ ServiceInv /\ [Next]_vars =>
       \A r \in remote : (r.id \notin Ours /\ r.id \in Ours')
                            => AdoptionEnabled /\ r.settings \in Adoptable
<1> SUFFICES ASSUME TypeOK, ServiceInv, [Next]_vars,
                    NEW r \in remote, r.id \notin Ours, r.id \in Ours'
             PROVE  AdoptionEnabled /\ r.settings \in Adoptable
  OBVIOUS
<1>1. r.id \in Nat /\ r.id <= issued /\ issued \in Nat
  BY BucketBounds DEF TypeOK, ServiceInv, RemoteBucket, IDs
<1>2. taken' # taken
  BY DEF Ours
<1>3. CASE CreatesOurs
  <2>1. PICK q \in RemoteBucket : Creates(q) /\ Takes(q)
    BY <1>3 DEF CreatesOurs
  <2> QED BY <1>1, <2>1, TakesEffect DEF Creates
<1>4. CASE Adopts
  <2>1. PICK q \in remote : Eligible(q) /\ Takes(q)
    BY <1>4 DEF Adopts
  <2>2. q = r
    BY <2>1, TakesEffect DEF ServiceInv
  <2> QED BY <2>1, <2>2 DEF Eligible
<1> QED BY <1>2, <1>3, <1>4, ServiceSteps
        DEF ServiceStep, Removes, Replaces, CreatesTheirs

(* A bucket that somebody else made becomes ours only with the feature gate  *)
(* on and the labels that permit it (CheckAdoptionEligibility).              *)
THEOREM TakenOnlyByRight == Spec => TakenByRight
<1> DEFINE Inv == TypeOK /\ ServiceInv
           Right == \A r \in remote :
                       (r.id \notin Ours /\ r.id \in {t.id : t \in taken'})
                          => AdoptionEnabled /\ r.settings \in Adoptable
<1>1. Init => Inv
  BY InitFacts
<1>2. Inv /\ [Next]_vars => Inv'
  BY TypeStep
<1>3. Inv /\ [Next]_vars => [Right]_vars
  BY TakingStep DEF Ours
<1>4. Spec => [][Right]_vars
  BY <1>1, <1>2, <1>3, PTL DEF Spec
<1> QED BY <1>4 DEF TakenByRight

-----------------------------------------------------------------------------
(* Orphans                                                                   *)

Count(n) == Cardinality(OrphansBut(n))

LEMMA CountType ==
    ASSUME IsFiniteSet(remote), NEW n
    PROVE  /\ Count(n) \in Nat /\ IsFiniteSet(OrphansBut(n))
           /\ OrphansBut(n) \subseteq remote
<1>1. OrphansBut(n) \in SUBSET remote
  BY DEF OrphansBut
<1>2. IsFiniteSet(OrphansBut(n))
  BY <1>1, FS_Subset
<1> QED BY <1>1, <1>2, FS_CardinalityType DEF Count

LEMMA CountBound ==
    ASSUME NEW S, IsFiniteSet(S), NEW T, NEW q, T \subseteq S \cup {q}
    PROVE  /\ IsFiniteSet(T) /\ Cardinality(T) \in Nat
           /\ Cardinality(T) <= Cardinality(S) + 1
           /\ T \subseteq S => Cardinality(T) <= Cardinality(S)
<1>1. /\ IsFiniteSet(S \cup {q}) /\ Cardinality(S) \in Nat
      /\ Cardinality(S \cup {q}) <= Cardinality(S) + 1
  BY FS_AddElement, FS_CardinalityType
<1>2. IsFiniteSet(T) /\ Cardinality(T) <= Cardinality(S \cup {q})
  BY <1>1, FS_Subset
<1>3. Cardinality(T) \in Nat /\ Cardinality(S \cup {q}) \in Nat
  BY <1>1, <1>2, FS_CardinalityType
<1>4. T \subseteq S => Cardinality(T) <= Cardinality(S)
  BY FS_Subset
<1> QED BY <1>1, <1>2, <1>3, <1>4

(* The status that names nothing leaves the most buckets unnamed.            *)
LEMMA CountAll ==
    ASSUME TypeOK, IsFiniteSet(remote), NEW n
    PROVE  /\ Count(n) <= Count(NoName)
           /\ Found(n) = {} => Count(n) = Count(NoName)
<1>1. OrphansBut(n) \subseteq OrphansBut(NoName)
  BY RealNames DEF OrphansBut
<1>2. Found(n) = {} => OrphansBut(n) = OrphansBut(NoName)
  BY RealNames DEF OrphansBut, Found
<1> QED BY <1>1, <1>2, CountType, FS_Subset DEF Count

(* A bucket taken is one more for every status but the one that names it.    *)
LEMMA CountTaken ==
    ASSUME TypeOK, ServiceInv, IsFiniteSet(remote), NEW q,
           \/ Adopts /\ q \in remote /\ Takes(q)
           \/ Creates(q) /\ Takes(q)
    PROVE  /\ IsFiniteSet(remote')
           /\ \A n : Count(n)' \in Nat /\ Count(n)' <= Count(n) + 1
           /\ Count(q.name)' <= Count(NoName)
<1>1. remote' = remote \cup {q} /\ Ours' = Ours \cup {q.id}
  BY TakesEffect DEF Adopts, Creates
<1>2. \A r \in remote : r.id = q.id => r = q
  BY BucketBounds DEF Creates, ServiceInv, TypeOK, RemoteBucket, IDs
<1>3. \A n : OrphansBut(n)' \subseteq OrphansBut(n) \cup {q}
  BY <1>1, <1>2 DEF OrphansBut
<1>4. OrphansBut(q.name)' \subseteq OrphansBut(q.name)
  BY <1>1, <1>2 DEF OrphansBut
<1>5. IsFiniteSet(remote')
  BY <1>1, FS_AddElement
<1>6. \A n : Count(n)' \in Nat /\ Count(n)' <= Count(n) + 1
  BY <1>3, CountType, CountBound DEF Count
<1>7. Count(q.name)' <= Count(q.name)
  BY <1>4, CountType, FS_Subset DEF Count
<1>8. /\ Count(q.name)' \in Nat /\ Count(q.name) \in Nat
      /\ Count(NoName) \in Nat /\ Count(q.name) <= Count(NoName)
  BY <1>6, CountType, CountAll
<1> QED BY <1>5, <1>6, <1>7, <1>8

LEMMA CountElse ==
    ASSUME TypeOK, ServiceInv, IsFiniteSet(remote),
           Removes \/ Replaces \/ CreatesTheirs
    PROVE  /\ IsFiniteSet(remote')
           /\ \A n : Count(n)' \in Nat /\ Count(n)' <= Count(n)
<1>1. taken' = taken /\ Ours' = Ours
  BY DEF Removes, Replaces, CreatesTheirs, Ours
<1>2. CASE Removes
  <2>1. \A n : OrphansBut(n)' \subseteq OrphansBut(n)
    BY <1>1, <1>2 DEF OrphansBut, Removes
  <2>2. IsFiniteSet(remote')
    BY <1>2, FS_Subset DEF Removes
  <2> QED BY <2>1, <2>2, CountType, CountBound DEF Count
<1>3. CASE CreatesTheirs
  <2>1. PICK q \in RemoteBucket : Creates(q)
    BY <1>3 DEF CreatesTheirs
  <2>2. q.id \notin Ours /\ remote' = remote \cup {q}
    BY <2>1, BucketBounds DEF Creates, Ours, ServiceInv, TypeOK, IDs
  <2>3. \A n : OrphansBut(n)' \subseteq OrphansBut(n)
    BY <1>1, <2>2 DEF OrphansBut
  <2>4. IsFiniteSet(remote')
    BY <2>2, FS_AddElement
  <2> QED BY <2>3, <2>4, CountType, CountBound DEF Count
<1>4. CASE Replaces
  <2>1. PICK r \in remote, q \in RemoteBucket :
             /\ q.id = r.id /\ q.name = r.name
             /\ remote' = (remote \ {r}) \cup {q}
    BY <1>4 DEF Replaces
  <2>2. IsFiniteSet(remote')
    BY <2>1, FS_RemoveElement, FS_AddElement
  <2>3. ASSUME NEW n
        PROVE  Count(n)' \in Nat /\ Count(n)' <= Count(n)
    <3>1. CASE r \in OrphansBut(n)
      <4>1. OrphansBut(n)' \subseteq (OrphansBut(n) \ {r}) \cup {q}
        BY <1>1, <2>1 DEF OrphansBut
      <4>2. /\ IsFiniteSet(OrphansBut(n) \ {r}) /\ Count(n) \in Nat
            /\ Cardinality(OrphansBut(n) \ {r}) = Count(n) - 1
        BY <3>1, CountType, FS_RemoveElement DEF Count
      <4>3. /\ Count(n)' \in Nat
            /\ Count(n)' <= Cardinality(OrphansBut(n) \ {r}) + 1
        BY <4>1, <4>2, CountBound DEF Count
      <4> QED BY <4>2, <4>3
    <3>2. CASE r \notin OrphansBut(n)
      <4>1. OrphansBut(n)' \subseteq OrphansBut(n)
        BY <1>1, <2>1, <3>2 DEF OrphansBut
      <4> QED BY <4>1, CountType, CountBound DEF Count
    <3> QED BY <3>1, <3>2
  <2> QED BY <2>2, <2>3
<1> QED BY <1>2, <1>3, <1>4

(* The bucket that a step takes goes into the worker's copy of the status,   *)
(* or the answer of CreateBucket is lost.                                    *)
Taking(q) ==
    /\ \/ Adopts /\ q \in remote /\ Takes(q)
       \/ Creates(q) /\ Takes(q)
    /\ pc \in {"pick", "create"} /\ UNCHANGED objectVars
    /\ \/ pc' = "persist" /\ obj'.status.name = q.name /\ faults' = faults
       \/ pc' \in {"pick", "degrade"} /\ obj' = obj /\ faults' = faults + 1

(* The other steps.                                                          *)
Going ==
    /\ Removes \/ Replaces \/ CreatesTheirs
    /\ faults' \in {faults, faults + 1}
    /\ pc' # "idle" =>
          \/ pc = "idle" /\ obj' = bucketCache /\ UNCHANGED objectVars
          \/ pc # "idle" /\ obj'.status.name = obj.status.name
          \/ pc = "get" /\ pc' # "get" /\ obj'.status.name = run.name
          \/ /\ pc = "get" /\ pc' = "persist"
             /\ obj'.status.name = NoName /\ Found(run.name) = {}
    /\ pc' = "creating" =>
          \/ pc = "creating"
          \/ pc = "idle" /\ bucketCache.status.name = NoName
    /\ pc' \in {"get", "update"} =>
          \/ pc \in {"get", "update"} /\ run' = run
          \/ pc = "idle" /\ run'.name = bucketCache.status.name
    /\ pc' \in {"pick", "create"} =>
          \/ pc \in {"pick", "create"} /\ obj' = obj
          \/ Creating /\ pc' = "pick"
    /\ pc = "persist" /\ pc' # "persist" => PersistStatus \/ faults' = faults + 1

LEMMA Still ==
    ASSUME Removes \/ Replaces \/ CreatesTheirs, UNCHANGED workVars,
           faults' \in {faults, faults + 1}
    PROVE  Going
<1>1. pc' = pc /\ obj' = obj /\ run' = run
  BY DEF workVars
<1> QED BY <1>1 DEF Going

LEMMA WorkTakesOrGoes ==
    ASSUME TypeOK, ServiceInv, [Next]_vars
    PROVE  Going \/ \E q : Taking(q)
<1> USE DEF Goto
<1>1. /\ \A c : [obj EXCEPT !.status.cond = c].status.name = obj.status.name
      /\ \A r : /\ Observed(obj, r).status.name = r.name
                /\ ProviderCondition(Observed(obj, r), r).status.name = r.name
      /\ Forgotten(obj).status.name = NoName
  BY DEF TypeOK, BucketObject, Status, Observed, ProviderCondition, Forgotten
<1>2. CASE UNCHANGED remoteVars
           /\ (AddFinalizer \/ SyncBucket \/ EditBucket \/ UNCHANGED vars)
  <2>1. Removes /\ UNCHANGED workVars /\ faults' \in {faults, faults + 1}
    BY <1>2 DEF Removes, remoteVars, AddFinalizer, SyncBucket, EditBucket,
                vars, Fail, Lost, workVars
  <2> QED BY <2>1, Still
<1>3. CASE StartReconcile \/ StartTerminate
  <2>1. \A n : [NoLocals EXCEPT !.name = n].name = n
    BY DEF NoLocals
  <2> QED BY <1>3, <2>1 DEF StartReconcile, StartTerminate, ProvisionedName,
                            Removes, remoteVars, Going
<1>4. CASE Creating \/ PersistStatus \/ SetErrorCondition
  <2>1. \/ pc' = "idle"
        \/ Creating /\ pc' = "pick" /\ obj'.status.name = obj.status.name
    BY <1>1, <1>4 DEF Creating, PersistStatus, SetErrorCondition, Stop
  <2>2. Removes /\ pc \in {"creating", "persist", "degrade"}
    BY <1>4 DEF Creating, PersistStatus, SetErrorCondition, Removes, remoteVars
  <2>3. faults' \in {faults, faults + 1}
    BY <1>4 DEF Creating, PersistStatus, SetErrorCondition, Persisted,
                NotPersisted, Fail, Lost
  <2>4. pc = "persist" => PersistStatus
    BY <1>4 DEF Creating, SetErrorCondition
  <2> QED BY <2>1, <2>2, <2>3, <2>4 DEF Going
<1>5. CASE DeleteBucket \/ Unfinalize \/ Crash
  <2>1. /\ Removes /\ faults' \in {faults, faults + 1}
        /\ pc = "persist" => faults' = faults + 1
        /\ \/ pc' = "idle"
           \/ pc = "delete" /\ pc' = "unfinalize" /\ obj' = obj
    BY <1>5 DEF DeleteBucket, Unfinalize, Crash, Removes, remoteVars, Fail,
                Lost, Stop
  <2> QED BY <2>1 DEF Going
<1>6. CASE GetBucket
  <2>1. Removes /\ faults' \in {faults, faults + 1} /\ run' = run /\ pc = "get"
    BY <1>6 DEF GetBucket, Removes, remoteVars, Fail
  <2>2. \/ pc' = "degrade" /\ obj' = obj
        \/ pc' \in {"update", "persist"} /\ obj'.status.name = run.name
        \/ /\ pc' = "persist" /\ obj'.status.name = NoName
           /\ Found(run.name) = {}
    BY <1>1, <1>6 DEF GetBucket, Found
  <2> QED BY <2>1, <2>2 DEF Going
<1>7. CASE UpdateBucket
  <2>1. faults' \in {faults, faults + 1} /\ pc = "update"
    BY <1>7 DEF UpdateBucket, Fail, Lost
  <2>2. obj'.status.name = obj.status.name /\ pc' \in {"persist", "degrade"}
    BY <1>1, <1>7 DEF UpdateBucket
  <2> QED BY <1>7, <2>1, <2>2, UpdateReplaces DEF Going
<1>8. CASE OthersAct \/ BecomesReady
  <2>1. UNCHANGED workVars /\ UNCHANGED faults
    BY <1>8 DEF OthersAct, BecomesReady
  <2> QED BY <1>8, <2>1, Still, OthersStep, ReadyReplaces
<1>9. CASE PickName
  <2>1. pc = "pick" /\ UNCHANGED objectVars /\ UNCHANGED <<remote, issued>>
    BY <1>9 DEF PickName
  <2>2. CASE /\ UNCHANGED <<obj, taken>> /\ faults' \in {faults, faults + 1}
             /\ pc' \in {"pick", "create", "degrade"}
    <3>1. Removes
      BY <2>1, <2>2 DEF Removes
    <3> QED BY <2>1, <2>2, <3>1 DEF Going
  <2>3. CASE \E r \in remote :
                /\ Eligible(r) /\ Takes(r) /\ pc' = "persist" /\ faults' = faults
                /\ obj' = ProviderCondition(Observed(obj, r), r)
    BY <1>1, <2>1, <2>3 DEF Taking, Adopts
  <2> QED BY <1>9, <2>2, <2>3 DEF PickName, Found, Takes, RetryOrDegrade, Fail
<1>10. CASE CreateBucket
  <2> DEFINE q == [id |-> issued + 1, name |-> run.name,
                   settings |-> obj.settings, ready |-> FALSE]
  <2>1. pc = "create" /\ UNCHANGED objectVars
    BY <1>10 DEF CreateBucket
  <2>2. CASE /\ UNCHANGED <<obj, remoteVars>> /\ faults' \in {faults, faults + 1}
             /\ pc' \in {"pick", "degrade"}
    BY <2>1, <2>2 DEF Going, Removes, remoteVars
  <2>3. CASE /\ Found(run.name) = {} /\ remote' = remote \cup {q}
             /\ issued' = q.id
             /\ taken' = taken \cup {[id |-> q.id, name |-> q.name]}
             /\ \/ /\ obj' = ProviderCondition(Observed(obj, q), q)
                   /\ pc' = "persist" /\ faults' = faults
                \/ /\ pc' \in {"pick", "degrade"} /\ obj' = obj
                   /\ faults' = faults + 1
    <3>1. Creates(q) /\ Takes(q)
      BY <2>3 DEF Creates, Takes, Found
    <3>2. obj'.status.name = q.name \/ pc' # "persist"
      BY <1>1, <2>3
    <3> QED BY <2>1, <2>3, <3>1, <3>2 DEF Taking
  <2> QED BY <1>10, <2>2, <2>3 DEF CreateBucket, RetryOrDegrade, Fail, Lost
<1>11. (AddFinalizer \/ SyncBucket \/ EditBucket \/ UNCHANGED vars)
          => UNCHANGED remoteVars
  BY DEF AddFinalizer, SyncBucket, EditBucket, vars, remoteVars
<1> QED BY <1>2, <1>3, <1>4, <1>5, <1>6, <1>7, <1>8, <1>9, <1>10, <1>11
        DEF Next, Pass

(* How the object and the informer's copy change, for the status they name:  *)
(* late writes are counted.                                                  *)
ObjectMoves ==
    \/ /\ UNCHANGED <<bucket, late>> /\ bucketCache' \in {bucketCache, bucket}
    \/ /\ \/ bucketCache' = bucket' /\ late' = late
          \/ bucketCache' = bucketCache /\ late' = late + 1
       /\ \/ bucket'.status.name = bucket.status.name
          \/ /\ Creating \/ PersistStatus \/ SetErrorCondition
             /\ bucket'.status.name = obj.status.name
       /\ AddFinalizer \/ Unfinalize \/ EditBucket \/ Creating \/ PersistStatus
             \/ SetErrorCondition

LEMMA ObjectMovesAlways ==
    ASSUME TypeOK, [Next]_vars
    PROVE  ObjectMoves
<1>1. ASSUME NEW o, Publish(o)
      PROVE  /\ bucket' = o
             /\ \/ bucketCache' = bucket' /\ late' = late
                \/ bucketCache' = bucketCache /\ late' = late + 1
  BY <1>1, PublishEffect
<1>2. \A o \in {Finalized, Departed} : o.status = bucket.status
  BY DEF Finalized, Departed, TypeOK, BucketObject
<1>3. \A s \in Status : [bucket EXCEPT !.status = s].status = s
  BY DEF TypeOK, BucketObject
<1>4. CASE AddFinalizer /\ Publish(Finalized)
  BY <1>1, <1>2, <1>4 DEF ObjectMoves
<1>5. CASE Unfinalize /\ Publish(Departed)
  BY <1>1, <1>2, <1>5 DEF ObjectMoves
<1>6. ASSUME NEW s \in Status, Creating \/ PersistStatus \/ SetErrorCondition,
             Publish([bucket EXCEPT !.status = s]), s.name = obj.status.name
      PROVE  ObjectMoves
  <2>1. bucket' = [bucket EXCEPT !.status = s]
    BY <1>1, <1>6
  <2>2. bucket'.status.name = obj.status.name
    BY <1>3, <1>6, <2>1
  <2> QED BY <1>1, <1>6, <2>2 DEF ObjectMoves
<1>7. ASSUME NEW o, EditBucket, Publish(o), o.status = bucket.status
      PROVE  ObjectMoves
  BY <1>1, <1>7 DEF ObjectMoves
<1>8. CASE UNCHANGED <<bucket, late>> /\ bucketCache' \in {bucketCache, bucket}
  BY <1>8 DEF ObjectMoves
<1> QED BY <1>4, <1>5, <1>6, <1>7, <1>8, ObjectSteps DEF Written

(* When a pass ends, its last write was made, or the failure is counted.     *)
LEMMA PersistEnds ==
    ASSUME TypeOK, PersistStatus, CacheIsCurrent
    PROVE  \/ faults' = faults + 1
           \/ /\ bucket'.status.name = obj.status.name
              /\ \/ bucketCache' = bucket' /\ late' = late
                 \/ bucketCache' = bucketCache /\ late' = late + 1
<1>1. [bucket EXCEPT !.status = obj.status].status = obj.status
  BY DEF TypeOK, BucketObject
<1>2. faults \in Nat
  BY BucketBounds DEF TypeOK
<1> QED BY <1>1, <1>2, PublishEffect
        DEF PersistStatus, Persisted, NotPersisted, Fail, Lost

LEMMA OrphanTaking ==
    ASSUME TypeOK, ServiceInv, OrphanInv, NEW q, Taking(q)
    PROVE  OrphanInv'
<1>1. /\ IsFiniteSet(remote')
      /\ \A n : Count(n)' \in Nat /\ Count(n)' <= Count(n) + 1
      /\ Count(q.name)' <= Count(NoName)
  BY CountTaken DEF Taking, OrphanInv
<1>2. \A n : Count(n) \in Nat /\ Count(n) <= Count(NoName)
  BY CountAll, CountType DEF OrphanInv
<1>3. /\ faults \in Nat /\ late \in Nat
      /\ faults' \in {faults, faults + 1} /\ late' = late
      /\ UNCHANGED <<bucket, bucketCache>>
  BY BucketBounds DEF TypeOK, Taking, objectVars
<1>4. /\ obj.status.name = NoName /\ bucket.status.name = NoName
      /\ Count(NoName) <= faults + late
      /\ ~CacheIsCurrent => Count(NoName) + 1 <= faults + late
  BY DEF OrphanInv, Taking, Unnamed, Slack, Count
<1>5. CASE faults' = faults + 1
  <2>1. \A n : Count(n)' <= faults' + late'
    BY <1>1, <1>2, <1>3, <1>4, <1>5
  <2>2. pc' \in {"pick", "degrade"} /\ obj' = obj
    BY <1>3, <1>5 DEF Taking
  <2>3. CacheIsCurrent' <=> CacheIsCurrent
    BY <1>3 DEF CacheIsCurrent
  <2>4. ~CacheIsCurrent' => Count(NoName)' + 1 <= faults' + late'
    BY <1>1, <1>2, <1>3, <1>4, <1>5, <2>3
  <2> QED BY <1>1, <1>3, <1>4, <2>1, <2>2, <2>4
          DEF OrphanInv, Unnamed, Slack, Count
<1>6. CASE pc' = "persist" /\ obj'.status.name = q.name /\ faults' = faults
  <2>1. \A n : Count(n)' <= faults' + late' + 1
    BY <1>1, <1>2, <1>3, <1>4, <1>6
  <2>2. Count(obj.status.name)' <= faults' + late'
    BY <1>1, <1>2, <1>3, <1>4, <1>6
  <2>3. ~CacheIsCurrent' => \A n : Count(n)' <= faults' + late'
    BY <1>1, <1>2, <1>3, <1>4, <1>6 DEF CacheIsCurrent
  <2> QED BY <1>1, <1>6, <2>1, <2>2, <2>3 DEF OrphanInv, Unnamed, Slack, Count
<1> QED BY <1>5, <1>6 DEF Taking

LEMMA OrphanGoing ==
    ASSUME TypeOK, ServiceInv, LifecycleInv, LifecycleInv', OrphanInv,
           [Next]_vars, Going
    PROVE  OrphanInv'
<1> DEFINE Slack1 == faults' + late'
<1>1. /\ IsFiniteSet(remote')
      /\ \A n : Count(n)' \in Nat /\ Count(n)' <= Count(n)
  BY CountElse DEF Going, OrphanInv
<1>2. \A n : Count(n) \in Nat
  BY CountType DEF OrphanInv
<1>3. /\ faults \in Nat /\ late \in Nat /\ ObjectMoves
      /\ faults' \in {faults, faults + 1} /\ late' \in {late, late + 1}
  BY BucketBounds, ObjectMovesAlways DEF TypeOK, Going, ObjectMoves
<1>11. /\ Slack1 \in Nat /\ faults + late \in Nat /\ faults + late <= Slack1
       /\ faults' = faults + 1 \/ late' = late + 1
             => faults + late + 1 <= Slack1
  <2>1. \A f, l \in Nat : \A g \in {f, f + 1}, k \in {l, l + 1} :
           /\ g + k \in Nat /\ f + l \in Nat /\ f + l <= g + k
           /\ g = f + 1 \/ k = l + 1 => f + l + 1 <= g + k
    OBVIOUS
  <2> QED BY <1>3, <2>1
<1>4. /\ \A o \in {bucket, bucketCache} :
            /\ Count(o.status.name) <= faults + late + 1
            /\ ~(pc = "persist" /\ CacheIsCurrent)
                  => Count(o.status.name) <= faults + late
      /\ pc # "idle" => Count(obj.status.name) <= faults + late
      /\ pc \in {"pick", "create"} =>
            /\ obj.status.name = NoName /\ bucket.status.name = NoName
            /\ ~CacheIsCurrent => Count(NoName) + 1 <= faults + late
      /\ pc = "creating" => obj.status.name = NoName
      /\ pc \in {"get", "update"} => run.name = obj.status.name
  BY DEF OrphanInv, Unnamed, Slack, Count
<1>5. pc' # "idle" => Count(obj.status.name)' <= Slack1
  <2>1. CASE pc # "idle" /\ obj'.status.name \in {obj.status.name, run.name}
             /\ (obj'.status.name = run.name => pc = "get")
    BY <1>1, <1>2, <1>3, <1>4, <2>1
  <2>2. CASE pc = "idle" /\ obj' = bucketCache
    BY <1>1, <1>2, <1>3, <1>4, <2>2
  <2>3. CASE pc = "get" /\ obj'.status.name = NoName /\ Found(run.name) = {}
    <3>1. Count(run.name) = Count(NoName) /\ run.name = obj.status.name
      BY <1>4, <2>3, CountAll DEF OrphanInv
    <3> QED BY <1>1, <1>2, <1>3, <1>4, <2>3, <3>1
  <2>4. CASE pc # "idle" /\ obj'.status.name = obj.status.name
    BY <1>1, <1>2, <1>3, <1>4, <2>4
  <2>5. CASE pc = "get" /\ obj'.status.name = run.name
    BY <1>1, <1>2, <1>3, <1>4, <2>5
  <2> QED BY <2>2, <2>3, <2>4, <2>5 DEF Going
<1>6. CacheIsCurrent' <=> bucketCache' = bucket' /\ bucket'.phase # "gone"
  BY DEF CacheIsCurrent
<1>7. ASSUME NEW n, n \in {bucket'.status.name, bucketCache'.status.name}
      PROVE  /\ Count(n)' <= Slack1 + 1
             /\ ~(pc' = "persist" /\ CacheIsCurrent') => Count(n)' <= Slack1
  <2>1. CASE \/ n \in {bucket.status.name, bucketCache.status.name}
                  /\ ~(pc = "persist" /\ CacheIsCurrent)
             \/ n = obj.status.name /\ pc # "idle"
    BY <1>1, <1>2, <1>3, <1>4, <2>1
  <2>2. CASE /\ n \in {bucket.status.name, bucketCache.status.name}
             /\ faults + late + 1 <= Slack1
    <3>1. Count(n) <= faults + late + 1
      BY <1>4, <2>2
    <3>2. Count(n)' \in Nat /\ Count(n) \in Nat /\ Count(n)' <= Count(n)
      BY <1>1, <1>2
    <3> QED BY <1>11, <2>2, <3>1, <3>2
  <2>3. CASE /\ n \in {bucket.status.name, bucketCache.status.name}
             /\ pc' = "persist" /\ CacheIsCurrent'
    BY <1>1, <1>2, <1>3, <1>4, <2>3
  <2>4. Creating \/ PersistStatus \/ SetErrorCondition => pc # "idle"
    BY DEF Creating, PersistStatus, SetErrorCondition
  <2>5. CASE pc = "persist" /\ CacheIsCurrent /\ pc' # "persist"
    <3>1. CASE faults' = faults + 1 /\ n \in {bucket.status.name,
                                              bucketCache.status.name}
      BY <1>11, <2>2, <3>1
    <3>2. CASE faults' = faults /\ n \notin {obj.status.name}
      <4>1. PersistStatus
        BY <1>3, <2>5, <3>2 DEF Going
      <4>2. n = bucketCache.status.name /\ late' = late + 1
        BY <1>7, <1>3, <2>5, <3>2, <4>1, PersistEnds
      <4> QED BY <1>3, <2>2, <3>2, <4>2
    <3>3. n \in {bucket.status.name, bucketCache.status.name, obj.status.name}
      BY <1>3, <1>7 DEF ObjectMoves
    <3> QED BY <1>3, <2>1, <2>5, <3>1, <3>2, <3>3
  <2>6. CASE pc = "persist" /\ CacheIsCurrent /\ pc' = "persist"
    <3>1. ~(AddFinalizer \/ Unfinalize \/ Creating \/ PersistStatus
               \/ SetErrorCondition)
      BY <2>6 DEF AddFinalizer, Unfinalize, Creating, PersistStatus,
                  SetErrorCondition, Stop
    <3>2. n \in {bucket.status.name, bucketCache.status.name}
      BY <1>3, <1>7, <3>1 DEF ObjectMoves
    <3>3. bucket'.phase # "gone" \/ bucket' = bucket
      <4>1. bucket.finalizer
        BY <2>6 DEF LifecycleInv, CacheIsCurrent
      <4> QED BY <3>1, <4>1, ObjectSteps, PublishEffect DEF Written
    <3>4. \/ CacheIsCurrent'
          \/ faults + late + 1 <= Slack1
      <4>1. CASE bucketCache' = bucket'
        BY <1>6, <2>6, <3>3, <4>1 DEF CacheIsCurrent
      <4>2. CASE bucketCache' = bucketCache /\ late' = late + 1
        BY <1>11, <4>2
      <4>3. CASE bucketCache' \in {bucketCache, bucket} /\ bucket' = bucket
        BY <2>6, <4>1, <4>3 DEF CacheIsCurrent
      <4> QED BY <1>3, <4>1, <4>2, <4>3 DEF ObjectMoves
    <3> QED BY <2>2, <2>3, <2>6, <3>2, <3>4
  <2>7. CASE ~(pc = "persist" /\ CacheIsCurrent)
    <3>1. \/ n \in {bucket.status.name, bucketCache.status.name}
          \/ n = obj.status.name /\ pc # "idle"
      BY <1>3, <1>7, <2>4 DEF ObjectMoves
    <3> QED BY <2>1, <2>7, <3>1
  <2> QED BY <2>5, <2>6, <2>7
<1>8. ASSUME pc' \in {"pick", "create"}
      PROVE  /\ obj'.status.name = NoName /\ bucket'.status.name = NoName
             /\ ~CacheIsCurrent' => Count(NoName)' + 1 <= Slack1
  <2>1. bucket'.phase # "gone"
    BY <1>8 DEF LifecycleInv
  <2>2. CASE pc \in {"pick", "create"} /\ obj' = obj
    <3>1. ~(AddFinalizer \/ Unfinalize \/ Creating \/ PersistStatus
               \/ SetErrorCondition)
      BY <2>2 DEF AddFinalizer, Unfinalize, Creating, PersistStatus,
                  SetErrorCondition
    <3>2. bucket'.status.name = NoName
      BY <1>3, <1>4, <2>2, <3>1 DEF ObjectMoves
    <3>3. CASE ~CacheIsCurrent
      BY <1>1, <1>2, <1>3, <1>4, <2>2, <3>2, <3>3
    <3>4. CASE CacheIsCurrent
      <4>1. CacheIsCurrent' \/ late' = late + 1
        BY <1>3, <1>6, <2>1, <3>4 DEF ObjectMoves, CacheIsCurrent
      <4> QED BY <1>1, <1>2, <1>3, <1>4, <2>2, <3>2, <4>1
    <3> QED BY <3>3, <3>4
  <2>3. CASE Creating /\ pc' = "pick"
    <3>1. /\ pc = "creating" /\ obj' = [obj EXCEPT !.status.cond = "Progressing"]
          /\ Persisted(obj'.status)
      BY <2>3 DEF Creating, Goto, Stop
    <3>2. obj'.status.name = NoName /\ Count(NoName) <= faults + late
      BY <1>4, <3>1 DEF TypeOK, BucketObject, Status
    <3>3. /\ bucket' = [bucket EXCEPT !.status = obj'.status]
          /\ bucketCache' = bucket' \/ late' = late + 1
      BY <3>1, PublishEffect DEF Persisted
    <3>4. bucket'.status.name = NoName
      BY <3>2, <3>3 DEF TypeOK, BucketObject
    <3> QED BY <1>1, <1>2, <1>3, <1>6, <2>1, <3>2, <3>3, <3>4
  <2> QED BY <1>8, <2>2, <2>3 DEF Going
<1>9. pc' = "creating" => obj'.status.name = NoName
  <2>1. pc' = "creating" => \/ pc = "creating" /\ obj'.status.name = obj.status.name
                            \/ pc = "idle" /\ obj' = bucketCache
    BY <1>4 DEF Going
  <2> QED BY <1>4, <2>1 DEF Going
<1>10. pc' \in {"get", "update"} => run'.name = obj'.status.name
  BY <1>4 DEF Going
<1> QED BY <1>1, <1>5, <1>7, <1>8, <1>9, <1>10
        DEF OrphanInv, Unnamed, Slack, Count

(* Between passes there is at most one bucket that we made and that status   *)
(* does not name for each call that failed, crash that happened or write     *)
(* that the informer saw late, however many attempts createBucket makes and  *)
(* whatever others do with the names: the retries do not pile up buckets.    *)
THEOREM OrphansStayBounded == Spec => []OrphansBounded
<1> DEFINE Inv == TypeOK /\ ServiceInv /\ LifecycleInv /\ OrphanInv
<1>1. Init => Inv
  <2> SUFFICES ASSUME Init PROVE Inv
    OBVIOUS
  <2>1. bucket.phase = "live" /\ ~bucket.finalizer /\ bucket.status.name = NoName
    BY DEF Init, Fresh
  <2>2. /\ pc = "idle" /\ bucketCache = bucket /\ taken = {}
        /\ faults = 0 /\ late = 0
    BY DEF Init
  <2>3. IsFiniteSet(remote)
    <3>1. remote = {} \/ \E r : remote = {r}
      BY DEF Init
    <3> QED BY <3>1, FS_EmptySet, FS_Singleton
  <2>4. \A n : OrphansBut(n) = {}
    BY <2>2 DEF OrphansBut, Ours
  <2>5. OrphanInv
    BY <2>2, <2>3, <2>4, FS_EmptySet DEF OrphanInv, Unnamed, Slack
  <2> QED BY <2>1, <2>2, <2>5, InitFacts DEF LifecycleInv
<1>2. Inv /\ [Next]_vars => Inv'
  <2> SUFFICES ASSUME Inv, [Next]_vars PROVE Inv'
    OBVIOUS
  <2>1. TypeOK' /\ ServiceInv' /\ LifecycleInv'
    BY TypeStep, LifecycleStep
  <2> QED BY <2>1, WorkTakesOrGoes, OrphanTaking, OrphanGoing
<1>3. Inv => OrphansBounded
  BY DEF OrphanInv, OrphansBounded, Orphans, Unnamed, Slack
<1> QED BY <1>1, <1>2, <1>3, PTL DEF Spec
=============================================================================
