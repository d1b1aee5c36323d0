--------------------------- MODULE ManagerProofs ---------------------------
(***************************************************************************)
(* For any number of objects, edits, failures and restarts: the manager    *)
(* forgets no object and misses no change that an event announces.         *)
(*                                                                         *)
(* The argument follows an object from the API server through the cache to *)
(* the last pass. Coherent relates server and cache: a name is not reused  *)
(* before the informer knows, and what changes a spec raises its           *)
(* generation. Awake says that a cached object that wants attention has a  *)
(* request, Noticed that a pass older than the cache has another one due.  *)
(***************************************************************************)
EXTENDS Manager, FiniteSetTheorems, TLAPS

Meta(x) == /\ x.gen \in Nat /\ x.suspended \in BOOLEAN
           /\ x.deleting \in BOOLEAN /\ x.final \in BOOLEAN

Typed(o, x) == x \in Kind(o) \cup {Absent}
Sound(o, x) == o \in Primary /\ x # Absent /\ x.deleting => x.final

(* The parts of the state that requests are about are well typed.            *)
Types ==
    /\ DOMAIN server = Objects /\ DOMAIN cache = Objects /\ DOMAIN seen = Primary
    /\ \A o \in Objects : /\ Typed(o, server[o]) /\ Sound(o, server[o])
                          /\ Typed(o, cache[o]) /\ Sound(o, cache[o])
    /\ queue \subseteq Primary /\ timers \subseteq Primary
    /\ mapping \subseteq Buckets
    /\ running \in [Controllers -> Primary \cup {None}]
    /\ \A o \in Primary : seen[o] # None =>
          Typed(o, seen[o][o]) /\ Sound(o, seen[o][o])
    /\ \A o \in Primary : running[Controller(o)] = o => seen[o] # None

Later(o, x, y) ==
    /\ x.gen <= y.gen
    /\ x.deleting => y.deleting
    /\ x.gen = y.gen => /\ x.deleting = y.deleting
                        /\ o \in Accesses => x.refs = y.refs

(* The server's object is the cached one at a later time.                    *)
Coherent ==
    \A o \in Primary :
        (cache[o] # Absent /\ server[o] # Absent) => Later(o, cache[o], server[o])

Wakeful(x) == x # Absent /\ ~x.suspended
Asked(o) == o \in queue \cup timers

Awake ==
    \A o \in Primary :
        /\ Wakeful(cache[o]) /\ server[o] # Absent
              => Asked(o) \/ running[Controller(o)] = o
        /\ running[Controller(o)] = o /\ ~Wakeful(seen[o][o]) /\ Wakeful(cache[o])
              => Asked(o)

UpToDate(o) ==
    seen[o] # None /\ seen[o][o] # Absent /\ SameSpec(seen[o][o], cache[o])

Noticed ==
    /\ \A o \in Primary :
          cache[o] # Absent /\ server[o] # Absent => UpToDate(o) \/ o \in queue
    /\ \A a \in Accesses : \A b \in Buckets :
          (/\ cache[a] # Absent /\ server[a] # Absent /\ seen[a] # None
           /\ b \in cache[a].refs)
             => seen[a][b] = cache[b] \/ a \in queue \/ b \in mapping
    /\ \A a \in Owned :
          seen[a] # None /\ cache[SecretOf[a]] = Absent
             => seen[a][SecretOf[a]] = Absent \/ a \in queue

IInv == Types /\ Coherent /\ Awake /\ Noticed

-----------------------------------------------------------------------------
LEMMA ObjectFacts ==
    /\ Primary \subseteq Objects /\ Secrets \subseteq Objects
    /\ Buckets \subseteq Primary /\ Accesses \subseteq Primary
    /\ \A o \in Primary : Controller(o) \in Controllers /\ o # None /\ o \notin Secrets
    /\ \A a \in Accesses : SecretOf[a] \in Secrets /\ a \notin Buckets
BY RequestsAssumption DEF Primary, Secrets, Objects, Controller, Controllers

LEMMA KindFacts ==
    ASSUME NEW o \in Primary, NEW x, x \in Kind(o)
    PROVE  /\ x # Absent /\ Meta(x)
           /\ o \in Accesses => x.refs \subseteq Buckets
BY RequestsAssumption, ObjectFacts
   DEF Kind, Meta, BucketObject, AccessObject, Primary

LEMMA BucketDeletionTyped ==
    ASSUME NEW x \in BucketObject, NEW g \in Nat
    PROVE  [x EXCEPT !.deleting = TRUE, !.gen = g] \in BucketObject
BY DEF BucketObject

LEMMA AccessDeletionTyped ==
    ASSUME NEW x \in AccessObject, NEW g \in Nat
    PROVE  [x EXCEPT !.deleting = TRUE, !.gen = g] \in AccessObject
BY DEF AccessObject

LEMMA DeletionTyped ==
    ASSUME NEW o \in Primary, NEW x \in Kind(o), NEW g \in Nat
    PROVE  [x EXCEPT !.deleting = TRUE, !.gen = g] \in Kind(o)
BY BucketDeletionTyped, AccessDeletionTyped DEF Kind, Primary

LEMMA RefsTyped ==
    ASSUME NEW x \in AccessObject, NEW g \in Nat, NEW refs \in SUBSET Buckets
    PROVE  [x EXCEPT !.refs = refs, !.gen = g] \in AccessObject
BY DEF AccessObject

-----------------------------------------------------------------------------
(* How the API server's objects change, in one step of a worker or a user.   *)
Change(o, x, y) ==
    \/ y \in {x, Absent}
    \/ x # Absent /\ Later(o, x, y)
    \/ x = Absent /\ cache[o] = Absent

Effect ==
    /\ DOMAIN server' = Objects
    /\ \A o \in Objects : Typed(o, server'[o]) /\ Sound(o, server'[o])
    /\ \A o \in Primary : Change(o, server[o], server'[o])

LEMMA WriteEffect ==
    ASSUME Types, NEW o \in Objects, NEW new, Write(o, new),
           Typed(o, new), Sound(o, new),
           o \in Primary => Change(o, server[o], new)
    PROVE  Effect
<1>1. /\ DOMAIN server' = Objects
      /\ \A p \in Objects : server'[p] = IF p = o THEN new ELSE server[p]
  BY DEF Types, Write
<1> QED BY <1>1, ObjectFacts DEF Types, Effect, Change

LEMMA KubectlEffect ==
    ASSUME Types, NEW o \in Objects, Kubectl(o)
    PROVE  Effect
<1> USE ObjectFacts
<1>0. server[o] # Absent => server[o] \in Kind(o)
  BY DEF Types, Typed
<1>1. CASE Edit(o)
  <2>1. o \in Primary /\ server[o] # Absent /\ server[o] \in Kind(o)
        /\ ~server[o].deleting
    BY <1>1, <1>0 DEF Edit
  <2>2. CASE o \in Buckets /\ Write(o, [server[o] EXCEPT !.gen = @ + 1])
    <3> DEFINE new == [server[o] EXCEPT !.gen = @ + 1]
    <3>1. server[o] \in BucketObject
      BY <2>1, <2>2 DEF Kind
    <3>2. new \in BucketObject /\ new.gen = server[o].gen + 1
          /\ new.deleting = server[o].deleting
      BY <3>1 DEF BucketObject
    <3>3. Typed(o, new) /\ Sound(o, new) /\ Change(o, server[o], new)
      BY <2>1, <2>2, <3>1, <3>2 DEF Typed, Sound, Change, Later, Kind, BucketObject
    <3> QED BY <2>2, <3>3, WriteEffect
  <2>3. CASE /\ o \in Accesses
             /\ \E refs \in SUBSET Buckets \ {server[o].refs} :
                   Write(o, [server[o] EXCEPT !.refs = refs, !.gen = server[o].gen + 1])
    <3>1. PICK refs \in SUBSET Buckets :
              Write(o, [server[o] EXCEPT !.refs = refs, !.gen = server[o].gen + 1])
      BY <2>3
    <3> DEFINE new == [server[o] EXCEPT !.refs = refs, !.gen = server[o].gen + 1]
    <3>2. server[o] \in AccessObject /\ o \notin Buckets
      BY <2>1, <2>3 DEF Kind
    <3>3. /\ server[o].gen \in Nat /\ server[o].gen + 1 \in Nat
          /\ new.gen = server[o].gen + 1 /\ new.deleting = server[o].deleting
      BY <3>2 DEF AccessObject
    <3>7. new \in AccessObject
      BY <3>2, <3>3, RefsTyped
    <3>4. new \in Kind(o) /\ ~new.deleting
      BY <2>1, <2>3, <3>2, <3>3, <3>7 DEF Kind
    <3>5. Later(o, server[o], new)
      BY <3>3 DEF Later
    <3>6. Typed(o, new) /\ Sound(o, new) /\ Change(o, server[o], new)
      BY <2>1, <3>4, <3>5 DEF Typed, Sound, Change
    <3> QED BY <3>1, <3>6, WriteEffect
  <2> QED BY <1>1, <2>2, <2>3 DEF Edit
<1>2. CASE Rotate(o)
  <2> DEFINE new == [server[o] EXCEPT !.rotate = TRUE]
  <2>1. o \in Accesses /\ o \notin Buckets /\ server[o] \in AccessObject
    BY <1>0, <1>2 DEF Rotate, Kind
  <2>2. new \in AccessObject /\ new.gen = server[o].gen /\ new.refs = server[o].refs
        /\ new.deleting = server[o].deleting /\ new.final = server[o].final
    BY <2>1 DEF AccessObject
  <2>3. Typed(o, new) /\ Sound(o, new) /\ Change(o, server[o], new)
    BY <1>2, <2>1, <2>2
       DEF Types, Typed, Sound, Change, Later, Kind, AccessObject, Rotate
  <2> QED BY <1>2, <2>3, WriteEffect DEF Rotate
<1>3. CASE Suspend(o)
  <2> DEFINE new == [server[o] EXCEPT !.suspended = ~@]
  <2>1. o \in Primary /\ server[o] # Absent /\ server[o] \in Kind(o) /\ Write(o, new)
    BY <1>0, <1>3 DEF Suspend
  <2>2. /\ new \in Kind(o) /\ new.gen = server[o].gen
        /\ new.deleting = server[o].deleting /\ new.final = server[o].final
        /\ o \in Accesses => new.refs = server[o].refs
    BY <2>1 DEF Kind, BucketObject, AccessObject, Primary
  <2>3. server[o].gen \in Nat
    BY <2>1, KindFacts DEF Meta
  <2>4. Typed(o, new) /\ Sound(o, new) /\ Change(o, server[o], new)
    BY <2>1, <2>2, <2>3 DEF Types, Typed, Sound, Change, Later
  <2> QED BY <2>1, <2>4, WriteEffect
<1>4. CASE Delete(o)
  <2>1. CASE o \in Primary /\ ~server[o].deleting /\ Write(o, Deleted(o))
    <3> DEFINE new == Deleted(o)
    <3>0. server[o] # Absent /\ server[o] \in Kind(o)
      BY <1>0, <1>4 DEF Delete
    <3>1. server[o].gen \in Nat
      BY <2>1, <3>0, KindFacts DEF Meta
    <3>2. CASE server[o].final
      <4>0. new = [server[o] EXCEPT !.deleting = TRUE, !.gen = server[o].gen + 1]
        BY <3>2 DEF Deleted
      <4>3. new \in Kind(o)
        <5>1. server[o].gen + 1 \in Nat
          BY <3>1
        <5>2. [server[o] EXCEPT !.deleting = TRUE, !.gen = server[o].gen + 1]
                \in Kind(o)
          BY <2>1, <3>0, <5>1, DeletionTyped
        <5> QED BY <4>0, <5>2
      <4>1. new \in Kind(o) /\ new.gen = server[o].gen + 1 /\ new.final
        BY <2>1, <3>0, <3>2, <4>0, <4>3
           DEF Kind, BucketObject, AccessObject, Primary
      <4>2. Typed(o, new) /\ Sound(o, new) /\ Change(o, server[o], new)
        BY <2>1, <3>0, <3>1, <4>1 DEF Typed, Sound, Change, Later
      <4> QED BY <2>1, <4>2, WriteEffect
    <3>3. CASE ~server[o].final
      <4>1. Typed(o, new) /\ Sound(o, new) /\ Change(o, server[o], new)
        BY <3>3 DEF Deleted, Typed, Sound, Change
      <4> QED BY <2>1, <4>1, WriteEffect
    <3> QED BY <3>2, <3>3
  <2>2. CASE o \in Secrets /\ Write(o, Absent)
    BY <2>2, WriteEffect DEF Typed, Sound
  <2> QED BY <1>4, <2>1, <2>2 DEF Delete
<1>5. CASE Create(o)
  <2>1. \A x : server[o] = Absent /\ cache[o] = Absent => Change(o, server[o], x)
    BY DEF Change
  <2>2. CASE o \in Buckets /\ Write(o, NewBucket)
    <3>1. Typed(o, NewBucket) /\ Sound(o, NewBucket)
      BY <2>2 DEF NewBucket, Typed, Sound, Kind, BucketObject
    <3> QED BY <1>5, <2>1, <2>2, <3>1, WriteEffect DEF Create
  <2>3. CASE o \in Accesses /\ \E refs \in SUBSET Buckets : Write(o, NewAccess(refs))
    <3>1. PICK refs \in SUBSET Buckets : Write(o, NewAccess(refs))
      BY <2>3
    <3>2. Typed(o, NewAccess(refs)) /\ Sound(o, NewAccess(refs))
      BY <2>3 DEF NewAccess, Typed, Sound, Kind, AccessObject
    <3> QED BY <1>5, <2>1, <3>1, <3>2, WriteEffect DEF Create
  <2> QED BY <1>5, <2>2, <2>3 DEF Create
<1>6. CASE Tamper(o)
  <2>1. o \in Secrets /\ o \notin Primary /\ o \notin Buckets /\ o \notin Accesses
    BY <1>6 DEF Tamper
  <2>2. Typed(o, [content |-> "edited"]) /\ Sound(o, [content |-> "edited"])
    BY <2>1 DEF Typed, Sound, Kind, SecretObject
  <2> QED BY <1>6, <2>1, <2>2, WriteEffect DEF Tamper
<1> QED BY <1>1, <1>2, <1>3, <1>4, <1>5, <1>6 DEF Kubectl

LEMMA EndEffect ==
    ASSUME Types, NEW o \in Primary, End(o)
    PROVE  Effect
<1> USE ObjectFacts
<1>0. /\ seen[o] # None
      /\ server[o] # Absent => server[o] \in Kind(o)
      /\ DOMAIN server = Objects
  BY DEF End, Types, Typed
<1>1. server' = server => Effect
  BY DEF Effect, Change, Types
<1>2. (Fresh(o) /\ Active(o)) \/ Current(o) => server[o] # Absent
  BY DEF Fresh, Active, Current
<1>unfinished. server[o] # Absent /\ server[o].deleting => server[o].final
  BY DEF Types, Sound
<1>3. CASE Skip(o)
  BY <1>1, <1>3 DEF Skip
<1>4. CASE AddFinalizer(o)
  <2> DEFINE new == [server[o] EXCEPT !.final = TRUE]
  <2>1. CASE Fresh(o)
    <3>1. server[o] # Absent /\ server[o] \in Kind(o) /\ ~server[o].deleting
      BY <1>0, <1>2, <1>4, <2>1 DEF AddFinalizer, Fresh
    <3>2. /\ new \in Kind(o) /\ new.gen = server[o].gen
          /\ new.deleting = server[o].deleting /\ new.final
          /\ o \in Accesses => new.refs = server[o].refs
      BY <3>1 DEF Kind, BucketObject, AccessObject, Primary
    <3>3. server[o].gen \in Nat
      BY <3>1, KindFacts DEF Meta
    <3>4. Typed(o, new) /\ Sound(o, new) /\ Change(o, server[o], new)
      BY <3>1, <3>2, <3>3 DEF Typed, Sound, Change, Later
    <3> QED BY <1>4, <2>1, <3>4, WriteEffect DEF AddFinalizer
  <2> QED BY <1>1, <1>4, <2>1 DEF AddFinalizer
<1>5. CASE Terminate(o)
  <2>1. CASE Fresh(o)
    <3>1. /\ DOMAIN server' = Objects
          /\ \A p \in Objects : server'[p] \in {server[p], Absent}
      BY <1>5, <2>1 DEF Terminate
    <3> QED BY <3>1 DEF Effect, Change, Types, Typed, Sound
  <2> QED BY <1>1, <1>5, <2>1 DEF Terminate
<1>6. CASE ReconcileBucket(o)
  <2> DEFINE new == [server[o] EXCEPT !.ready = TRUE]
  <2>1. CASE Current(o)
    <3>1. server[o] # Absent /\ server[o] \in BucketObject /\ o \in Buckets
          /\ o \notin Accesses
      BY <1>0, <1>2, <1>6, <2>1, RequestsAssumption DEF ReconcileBucket, Kind
    <3>2. /\ new \in BucketObject /\ new.gen = server[o].gen /\ new.gen \in Nat
          /\ new.deleting = server[o].deleting /\ new.final = server[o].final
      BY <3>1 DEF BucketObject
    <3>3. Typed(o, new) /\ Sound(o, new) /\ Change(o, server[o], new)
      BY <1>unfinished, <3>1, <3>2 DEF Typed, Sound, Change, Later, Kind
    <3> QED BY <1>6, <2>1, <3>3, WriteEffect DEF ReconcileBucket
  <2> QED BY <1>1, <1>6, <2>1 DEF ReconcileBucket
<1>7. CASE ReconcileAccess(o)
  <2> DEFINE s == SecretOf[o]
             new == [server[o] EXCEPT !.rotate = @ /\ ~seen[o][o].rotate]
  <2>1. CASE server' = server
    BY <1>1, <2>1
  <2>2. CASE /\ server' = [server EXCEPT ![s] = [content |-> "ours"],
                                        ![o].rotate = @ /\ ~seen[o][o].rotate]
             /\ Current(o)
    <3>1. server[o] # Absent /\ server[o] \in AccessObject /\ o \in Accesses
          /\ o \notin Buckets /\ s \in Secrets /\ s # o
      BY <1>0, <1>2, <1>7, <2>2, RequestsAssumption DEF ReconcileAccess, Kind
    <3>2. /\ new \in AccessObject /\ new.gen = server[o].gen /\ new.gen \in Nat
          /\ new.deleting = server[o].deleting /\ new.refs = server[o].refs
          /\ new.final = server[o].final
      BY <3>1 DEF AccessObject
    <3>3. Typed(o, new) /\ Sound(o, new) /\ Change(o, server[o], new)
      BY <1>unfinished, <3>1, <3>2 DEF Typed, Sound, Change, Later, Kind
    <3>4. Typed(s, [content |-> "ours"]) /\ Sound(s, [content |-> "ours"])
      BY <3>1, RequestsAssumption DEF Typed, Sound, Kind, SecretObject, Primary
    <3>5. /\ DOMAIN server' = Objects
          /\ \A p \in Objects : server'[p] = IF p = o THEN new
                 ELSE IF p = s THEN [content |-> "ours"] ELSE server[p]
      BY <1>0, <2>2, <3>1
    <3>6. \A p \in Primary : p # s
      BY <3>1
    <3> QED BY <3>3, <3>4, <3>5, <3>6 DEF Effect, Change, Types
  <2> QED BY <1>7, <2>1, <2>2 DEF ReconcileAccess
<1>8. CASE Degrade(o)
  <2> DEFINE new == [server[o] EXCEPT !.ready = FALSE]
  <2>1. CASE o \in Buckets /\ Live(o) /\ Current(o)
    <3>1. server[o] # Absent /\ server[o] \in BucketObject /\ o \in Buckets
          /\ o \notin Accesses
      BY <1>0, <1>2, <1>8, <2>1, RequestsAssumption DEF Degrade, Kind
    <3>2. /\ new \in BucketObject /\ new.gen = server[o].gen /\ new.gen \in Nat
          /\ new.deleting = server[o].deleting /\ new.final = server[o].final
      BY <3>1 DEF BucketObject
    <3>3. Typed(o, new) /\ Sound(o, new) /\ Change(o, server[o], new)
      BY <1>unfinished, <3>1, <3>2 DEF Typed, Sound, Change, Later, Kind
    <3> QED BY <1>8, <2>1, <3>3, WriteEffect DEF Degrade
  <2> QED BY <1>1, <1>8, <2>1 DEF Degrade
<1> QED BY <1>3, <1>4, <1>5, <1>6, <1>7, <1>8 DEF End

LEMMA NotReused ==
    ASSUME Effect, NEW o \in Primary, server'[o] # Absent, cache[o] # Absent
    PROVE  server[o] # Absent
BY DEF Effect, Change

LEMMA LaterTransitive ==
    ASSUME NEW o, NEW x, NEW y, NEW z, x.gen \in Nat, y.gen \in Nat, z.gen \in Nat,
           Later(o, x, y), Later(o, y, z)
    PROVE  Later(o, x, z)
<1>1. x.gen <= z.gen /\ (x.gen = z.gen => x.gen = y.gen /\ y.gen = z.gen)
  BY DEF Later
<1> QED BY <1>1 DEF Later

LEMMA CoherentKept ==
    ASSUME Types, Coherent, Effect, cache' = cache
    PROVE  Coherent'
<1> SUFFICES ASSUME NEW o \in Primary, cache[o] # Absent, server'[o] # Absent
             PROVE  Later(o, cache[o], server'[o])
  BY DEF Coherent
<1>1. server[o] # Absent
  BY NotReused
<1>2. cache[o].gen \in Nat /\ server[o].gen \in Nat /\ server'[o].gen \in Nat
  BY <1>1, ObjectFacts, KindFacts DEF Types, Effect, Typed, Meta
<1>3. Later(o, cache[o], server[o])
  BY <1>1 DEF Coherent
<1>4. server'[o] = server[o] \/ Later(o, server[o], server'[o])
  BY <1>1 DEF Effect, Change
<1> QED BY <1>2, <1>3, <1>4, LaterTransitive

-----------------------------------------------------------------------------
(* One lemma per kind of step.                                               *)

LEMMA KubectlStep ==
    ASSUME IInv, NEW o \in Objects, Kubectl(o)
    PROVE  IInv'
<1>1. Effect /\ UNCHANGED <<cache, mapping, queue, timers, running, seen>>
  BY KubectlEffect DEF IInv, Kubectl, work
<1>2. \A p \in Primary : server'[p] # Absent /\ cache[p] # Absent => server[p] # Absent
  BY <1>1, NotReused
<1>3. Types'
  BY <1>1 DEF IInv, Types, Effect
<1>4. Coherent'
  BY <1>1, CoherentKept DEF IInv
<1>5. Awake'
  BY <1>1, <1>2 DEF IInv, Awake, Asked, Wakeful
<1>6. Noticed'
  BY <1>1, <1>2, ObjectFacts DEF IInv, Noticed, UpToDate
<1> QED BY <1>3, <1>4, <1>5, <1>6 DEF IInv

LEMMA EndStep ==
    ASSUME IInv, NEW o \in Primary, End(o)
    PROVE  IInv'
<1> USE ObjectFacts
<1>1. /\ Effect /\ UNCHANGED <<cache, mapping, queue, seen>>
      /\ running[Controller(o)] = o
      /\ running' = [running EXCEPT ![Controller(o)] = None]
      /\ timers' \in {timers, timers \cup {o}}
  BY EndEffect
     DEF IInv, End, Skip, AddFinalizer, Terminate, ReconcileBucket,
         ReconcileAccess, Degrade, Done, Again
<1>2. \A p \in Primary : server'[p] # Absent /\ cache[p] # Absent => server[p] # Absent
  BY <1>1, NotReused
<1>3. Types'
  BY <1>1 DEF IInv, Types, Effect
<1>4. Coherent'
  BY <1>1, CoherentKept DEF IInv
<1>5. \A p \in Primary : /\ Asked(p) => Asked(p)'
                         /\ running'[Controller(p)] = p => running[Controller(p)] = p
                         /\ p # o /\ running[Controller(p)] = p
                               => running'[Controller(p)] = p
  BY <1>1 DEF IInv, Types, Asked
<1>6. Wakeful(cache[o]) /\ server'[o] # Absent => Asked(o)'
  <2> SUFFICES ASSUME Wakeful(cache[o]), server'[o] # Absent
               PROVE  Asked(o)'
    OBVIOUS
  <2>1. CASE Skip(o)
    <3>1. ~Wakeful(seen[o][o])
      BY <1>1, <2>1 DEF Skip, Wakeful, IInv, Types, Sound
    <3> QED BY <1>1, <1>5, <3>1 DEF IInv, Awake
  <2>2. CASE Terminate(o)
    <3>1. ~Fresh(o)
      BY <2>2 DEF Terminate, Objects
    <3> QED BY <2>2, <3>1 DEF Terminate, Again, Asked
  <2>3. CASE AddFinalizer(o) \/ ReconcileBucket(o) \/ ReconcileAccess(o) \/ Degrade(o)
    BY <2>3 DEF AddFinalizer, ReconcileBucket, ReconcileAccess, Degrade, Again, Asked
  <2> QED BY <2>1, <2>2, <2>3 DEF End
<1>7. Awake'
  <2>1. ASSUME NEW p \in Primary, Wakeful(cache[p]), server'[p] # Absent
        PROVE  Asked(p)' \/ running'[Controller(p)] = p
    <3>1. cache[p] # Absent /\ server[p] # Absent
      BY <1>2, <2>1 DEF Wakeful
    <3>2. Asked(p) \/ running[Controller(p)] = p
      BY <2>1, <3>1 DEF IInv, Awake
    <3>3. p = o => Asked(p)'
      BY <1>6, <2>1 DEF Asked
    <3> QED BY <1>5, <3>2, <3>3
  <2>2. ASSUME NEW p \in Primary, running'[Controller(p)] = p,
               ~Wakeful(seen[p][p]), Wakeful(cache[p])
        PROVE  Asked(p)'
    <3>1. running[Controller(p)] = p
      BY <1>5, <2>2
    <3>2. Asked(p)
      BY <2>2, <3>1 DEF IInv, Awake
    <3> QED BY <1>5, <3>2
  <2> QED BY <1>1, <2>1, <2>2 DEF Awake, Wakeful
<1>8. Noticed'
  BY <1>1, <1>2 DEF IInv, Noticed, UpToDate
<1> QED BY <1>3, <1>4, <1>7, <1>8 DEF IInv

LEMMA BeginStep ==
    ASSUME IInv, NEW o \in Primary, Begin(o)
    PROVE  IInv'
<1> USE ObjectFacts
<1>1. /\ UNCHANGED <<server, cache, mapping, timers>>
      /\ queue' = queue \ {o} /\ running[Controller(o)] = None
      /\ running' = [running EXCEPT ![Controller(o)] = o]
      /\ seen' = [seen EXCEPT ![o] = Reads(o)]
  BY DEF Begin
<1>2. /\ running'[Controller(o)] = o
      /\ \A p \in Primary : p # o /\ running[Controller(p)] = p
                             => running'[Controller(p)] = p
      /\ \A p \in Primary : p # o /\ running'[Controller(p)] = p
                             => running[Controller(p)] = p
  BY <1>1 DEF IInv, Types
<1>3. /\ seen'[o] = Reads(o) /\ \A p \in Primary : p # o => seen'[p] = seen[p]
      /\ seen'[o][o] = cache[o]
      /\ o \in Accesses => /\ \A b \in Buckets : seen'[o][b] = cache[b]
                           /\ seen'[o][SecretOf[o]] = cache[SecretOf[o]]
  BY <1>1 DEF IInv, Types, Reads
<1>4. seen'[o] # None
  <2> DEFINE some == {o} \cup (IF o \in Accesses THEN Buckets \cup {SecretOf[o]} ELSE {})
  <2>1. some \in SUBSET Objects
    OBVIOUS
  <2>2. \A p \in some : cache[p] \in Copies
    <3>1. \A p \in Objects : cache[p] \in Kind(p) \cup {Absent}
      BY DEF IInv, Types, Typed
    <3> QED BY <2>1, <3>1 DEF Kind, Copies
  <2>3. Reads(o) \in [some -> Copies]
    BY <2>2 DEF Reads
  <2> HIDE DEF some
  <2> QED BY <1>3, <2>1, <2>3, RequestsAssumption
<1>5. Types'
  <2>1. \A p \in Primary : seen'[p] # None
                            => Typed(p, seen'[p][p]) /\ Sound(p, seen'[p][p])
    BY <1>3 DEF IInv, Types
  <2>2. \A p \in Primary : running'[Controller(p)] = p => seen'[p] # None
    BY <1>2, <1>3, <1>4 DEF IInv, Types
  <2> QED BY <1>1, <2>1, <2>2 DEF IInv, Types
<1>6. Coherent'
  BY <1>1 DEF IInv, Coherent
<1>7. \A p \in Primary : p # o /\ Asked(p) => Asked(p)'
  BY <1>1 DEF Asked
<1>8. Awake'
  <2>1. ASSUME NEW p \in Primary, Wakeful(cache[p]), server[p] # Absent
        PROVE  Asked(p)' \/ running'[Controller(p)] = p
    <3>1. Asked(p) \/ running[Controller(p)] = p
      BY <2>1 DEF IInv, Awake
    <3> QED BY <1>2, <1>7, <3>1
  <2>2. ASSUME NEW p \in Primary, running'[Controller(p)] = p,
               ~Wakeful(seen'[p][p]), Wakeful(cache[p])
        PROVE  Asked(p)'
    <3>1. p # o /\ running[Controller(p)] = p /\ ~Wakeful(seen[p][p])
      BY <1>2, <1>3, <2>2
    <3>2. Asked(p)
      BY <2>2, <3>1 DEF IInv, Awake
    <3> QED BY <1>7, <3>1, <3>2
  <2> QED BY <1>1, <2>1, <2>2 DEF Awake, Wakeful
<1>9. Noticed'
  <2>1. ASSUME NEW p \in Primary, cache[p] # Absent, server[p] # Absent
        PROVE  UpToDate(p)' \/ p \in queue'
    <3>1. CASE p = o
      BY <1>1, <1>3, <1>4, <2>1, <3>1 DEF UpToDate, SameSpec
    <3>2. CASE p # o
      BY <1>1, <1>3, <2>1, <3>2 DEF IInv, Noticed, UpToDate
    <3> QED BY <3>1, <3>2
  <2>2. ASSUME NEW a \in Accesses, NEW b \in Buckets, cache[a] # Absent,
               server[a] # Absent, seen'[a] # None, b \in cache[a].refs
        PROVE  seen'[a][b] = cache[b] \/ a \in queue' \/ b \in mapping
    BY <1>1, <1>3, <2>2 DEF IInv, Noticed
  <2>3. ASSUME NEW a \in Owned, seen'[a] # None, cache[SecretOf[a]] = Absent
        PROVE  seen'[a][SecretOf[a]] = Absent \/ a \in queue'
    <3>1. a \in Accesses
      BY RequestsAssumption
    <3> QED BY <1>1, <1>3, <2>3, <3>1 DEF IInv, Noticed
  <2> QED BY <1>1, <2>1, <2>2, <2>3 DEF Noticed
<1> QED BY <1>5, <1>6, <1>8, <1>9 DEF IInv

LEMMA ElapseStep ==
    ASSUME IInv, NEW o \in Primary, Elapse(o)
    PROVE  IInv'
<1>1. /\ UNCHANGED <<server, cache, mapping, running, seen>>
      /\ queue' = queue \cup {o} /\ timers' = timers \ {o}
  BY DEF Elapse
<1>2. Types' /\ Coherent'
  BY <1>1 DEF IInv, Types, Coherent
<1>3. Awake'
  BY <1>1 DEF IInv, Awake, Asked, Wakeful
<1>4. Noticed'
  BY <1>1 DEF IInv, Noticed, UpToDate
<1> QED BY <1>2, <1>3, <1>4 DEF IInv

LEMMA MapStep ==
    ASSUME IInv, NEW b \in Buckets, Map(b)
    PROVE  IInv'
<1> USE ObjectFacts
<1>1. /\ UNCHANGED <<server, cache, timers, running, seen>>
      /\ queue' = queue \cup mapBucketToAccess(b) /\ mapping' = mapping \ {b}
  BY DEF Map
<1>2. Types' /\ Coherent'
  BY <1>1 DEF IInv, Types, Coherent, mapBucketToAccess
<1>3. Awake'
  BY <1>1 DEF IInv, Awake, Asked, Wakeful
<1>4. Noticed'
  BY <1>1 DEF IInv, Noticed, UpToDate, mapBucketToAccess
<1> QED BY <1>2, <1>3, <1>4 DEF IInv

(* An event of an object wakes it, or tells nothing new about its spec.      *)
LEMMA EventsTell ==
    ASSUME IInv, NEW o \in Primary, Deliver(o)
    PROVE  \/ server[o] = Absent \/ o \in queue'
           \/ /\ cache[o] # Absent /\ SameSpec(cache[o], server[o])
              /\ o \in Accesses => cache[o].refs = server[o].refs
<1> SUFFICES ASSUME server[o] # Absent, o \notin queue'
             PROVE  /\ cache[o] # Absent /\ SameSpec(cache[o], server[o])
                    /\ o \in Accesses => cache[o].refs = server[o].refs
  OBVIOUS
<1>1. ~PrimaryResourcePredicate(cache[o], server[o])
  BY DEF Deliver, Wakes
<1>2. /\ cache[o] # Absent /\ cache[o].gen = server[o].gen
      /\ cache[o].suspended = server[o].suspended
  BY <1>1 DEF PrimaryResourcePredicate, primaryResourceUpdate
<1>3. Later(o, cache[o], server[o])
  BY <1>2 DEF IInv, Coherent
<1> QED BY <1>2, <1>3 DEF Later, SameSpec

LEMMA DeliverStep ==
    ASSUME IInv, NEW o \in Objects, Deliver(o)
    PROVE  IInv'
<1> USE ObjectFacts
<1>1. /\ UNCHANGED <<server, timers, running, seen>>
      /\ cache[o] # server[o] /\ cache' = [cache EXCEPT ![o] = server[o]]
      /\ queue' = queue \cup Wakes(o, cache[o], server[o])
      /\ mapping' = IF o \in Buckets THEN mapping \cup {o} ELSE mapping
  BY DEF Deliver, WatchesBucket
<1>2. /\ cache'[o] = server[o]
      /\ \A p \in Objects : p # o => cache'[p] = cache[p]
      /\ DOMAIN cache' = Objects
  BY <1>1 DEF IInv, Types
<1>3. Wakes(o, cache[o], server[o]) \subseteq Primary
  BY RequestsAssumption DEF Wakes
<1>4. Types'
  <2>1. \A p \in Objects : Typed(p, cache'[p]) /\ Sound(p, cache'[p])
    BY <1>2 DEF IInv, Types
  <2> QED BY <1>1, <1>2, <1>3, <2>1 DEF IInv, Types
<1>5. Coherent'
  <2> SUFFICES ASSUME NEW p \in Primary, cache'[p] # Absent, server[p] # Absent
               PROVE  Later(p, cache'[p], server[p])
    BY <1>1 DEF Coherent
  <2>1. CASE p = o
    <3>1. server[p].gen \in Nat
      BY KindFacts DEF IInv, Types, Typed, Meta
    <3> QED BY <1>2, <2>1, <3>1 DEF Later
  <2>2. CASE p # o
    BY <1>2, <2>2 DEF IInv, Coherent
  <2> QED BY <2>1, <2>2
<1>6. \A p \in Primary : Asked(p) => Asked(p)'
  BY <1>1 DEF Asked
<1>7. \A p \in Primary : p = o =>
          \/ server[p] = Absent \/ p \in queue'
          \/ /\ cache[p] # Absent /\ SameSpec(cache[p], server[p])
             /\ p \in Accesses => cache[p].refs = server[p].refs
  BY EventsTell
<1>8. Awake'
  <2>1. ASSUME NEW p \in Primary, Wakeful(cache'[p])
        PROVE  Asked(p)' \/ Wakeful(cache[p])
    <3>1. CASE p = o
      <4>1. server[p] # Absent
        BY <1>2, <2>1, <3>1 DEF Wakeful
      <4>2. p \in queue' \/ (cache[p] # Absent /\ SameSpec(cache[p], server[p]))
        BY <3>1, <4>1, <1>7
      <4> QED BY <1>2, <2>1, <3>1, <4>2 DEF Asked, Wakeful, SameSpec
    <3>2. CASE p # o
      BY <1>2, <2>1, <3>2
    <3> QED BY <3>1, <3>2
  <2>2. ASSUME NEW p \in Primary, Wakeful(cache'[p]), server[p] # Absent
        PROVE  Asked(p)' \/ running[Controller(p)] = p
    <3>1. Wakeful(cache[p]) => Asked(p) \/ running[Controller(p)] = p
      BY <2>2 DEF IInv, Awake
    <3> QED BY <1>6, <2>1, <2>2, <3>1
  <2>3. ASSUME NEW p \in Primary, running[Controller(p)] = p,
               ~Wakeful(seen[p][p]), Wakeful(cache'[p])
        PROVE  Asked(p)'
    <3>1. Wakeful(cache[p]) => Asked(p)
      BY <2>3 DEF IInv, Awake
    <3> QED BY <1>6, <2>1, <2>3, <3>1
  <2> QED BY <1>1, <2>2, <2>3 DEF Awake, Wakeful
<1>9. Noticed'
  <2>1. ASSUME NEW p \in Primary, cache'[p] # Absent, server[p] # Absent
        PROVE  UpToDate(p)' \/ p \in queue'
    <3>1. CASE p = o
      <4>1. p \in queue' \/ (cache[p] # Absent /\ SameSpec(cache[p], cache'[p]))
        BY <1>2, <1>7, <2>1, <3>1
      <4>2. cache[p] # Absent => UpToDate(p) \/ p \in queue
        BY <2>1 DEF IInv, Noticed
      <4> QED BY <1>1, <4>1, <4>2 DEF UpToDate, SameSpec
    <3>2. CASE p # o
      BY <1>1, <1>2, <2>1, <3>2 DEF IInv, Noticed, UpToDate
    <3> QED BY <3>1, <3>2
  <2>2. ASSUME NEW a \in Accesses, NEW b \in Buckets, cache'[a] # Absent,
               server[a] # Absent, seen[a] # None, b \in cache'[a].refs
        PROVE  seen[a][b] = cache'[b] \/ a \in queue' \/ b \in mapping'
    <3>1. CASE b = o
      BY <1>1, <3>1
    <3>2. CASE b # o
      <4>1. a \in queue' \/ (cache[a] # Absent /\ b \in cache[a].refs)
        BY <1>2, <1>7, <2>2
      <4>2. cache'[b] = cache[b] /\ queue \subseteq queue' /\ mapping \subseteq mapping'
        BY <1>1, <1>2, <3>2
      <4> QED BY <2>2, <4>1, <4>2 DEF IInv, Noticed
    <3> QED BY <3>1, <3>2
  <2>3. ASSUME NEW a \in Owned, seen[a] # None, cache'[SecretOf[a]] = Absent
        PROVE  seen[a][SecretOf[a]] = Absent \/ a \in queue'
    <3>1. a \in Accesses
      BY RequestsAssumption
    <3>2. CASE SecretOf[a] = o
      <4>1. o \notin Primary /\ server[o] = Absent
        BY <1>2, <2>3, <3>1, <3>2
      <4> QED BY <1>1, <3>2, <4>1 DEF Wakes, OwnedResourcePredicate
    <3>3. CASE SecretOf[a] # o
      BY <1>1, <1>2, <2>3, <3>1, <3>3 DEF IInv, Noticed
    <3> QED BY <3>2, <3>3
  <2> QED BY <1>1, <2>1, <2>2, <2>3 DEF Noticed
<1> QED BY <1>4, <1>5, <1>8, <1>9 DEF IInv

LEMMA ForgetStep ==
    ASSUME IInv, Forget
    PROVE  IInv'
<1> USE ObjectFacts
<1>1. /\ server' = server /\ mapping' = {} /\ queue' = {} /\ timers' = {}
      /\ DOMAIN cache' = Objects /\ \A o \in Objects : cache'[o] = Absent
      /\ running' = [c \in Controllers |-> None]
      /\ DOMAIN seen' = Primary /\ \A o \in Primary : seen'[o] = None
  BY DEF Forget, Nothing
<1>2. Types'
  BY <1>1 DEF IInv, Types, Typed, Sound
<1>3. Coherent'
  BY <1>1 DEF Coherent
<1>4. Awake'
  BY <1>1 DEF Awake, Wakeful
<1>5. Noticed'
  BY <1>1, RequestsAssumption DEF Noticed
<1> QED BY <1>2, <1>3, <1>4, <1>5 DEF IInv

-----------------------------------------------------------------------------
LEMMA Initial == Init => IInv
<1> SUFFICES ASSUME Init PROVE IInv
  OBVIOUS
<1> USE ObjectFacts
<1>1. /\ server \in Starts /\ mapping = {} /\ queue = {} /\ timers = {}
      /\ DOMAIN cache = Objects /\ \A o \in Objects : cache[o] = Absent
      /\ running = [c \in Controllers |-> None]
      /\ DOMAIN seen = Primary /\ \A o \in Primary : seen[o] = None
  BY DEF Init, RequestsInit, Nothing
<1>2. Types
  BY <1>1, StartsAssumption DEF Types, Typed, Sound
<1>3. Coherent /\ Awake
  BY <1>1 DEF Coherent, Awake, Wakeful
<1>4. Noticed
  BY <1>1, RequestsAssumption DEF Noticed
<1> QED BY <1>2, <1>3, <1>4 DEF IInv

LEMMA Step == IInv /\ [Next]_vars => IInv'
<1> SUFFICES ASSUME IInv, [Next]_vars PROVE IInv'
  OBVIOUS
<1>1. UNCHANGED requestVars => IInv'
  BY DEF requestVars, IInv, Types, Coherent, Awake, Noticed, Asked, UpToDate
<1>2. CASE Process
  BY <1>1, <1>2, DeliverStep, MapStep, BeginStep, EndStep, ElapseStep, ForgetStep
     DEF Process, Boot, Serve, Stop
<1>3. CASE Users
  BY <1>1, <1>3, KubectlStep, ForgetStep DEF Users
<1>4. CASE UNCHANGED vars
  BY <1>1, <1>4 DEF vars, requestVars
<1> QED BY <1>2, <1>3, <1>4 DEF Next

(* The queues, caches and passes stay consistent: the inductive invariant    *)
(* (Reconcile's callers, internal/controller).                               *)
THEOREM Inductive == Spec => []IInv
BY Initial, Step, PTL DEF Spec

(* No object is forgotten, whatever order events, passes, edits, failures    *)
(* and restarts come in (internal/controller/predicates.go).                 *)
THEOREM NeverForgottenHolds == Spec => []NeverForgotten
<1>1. IInv => NeverForgotten
  BY DEF IInv, Awake, NeverForgotten, Pending, Asked, Wakeful
<1> QED BY <1>1, Inductive, PTL

(* With no event and no request left but timers, no spec, Bucket or missing  *)
(* Secret has changed since the last pass (internal/controller/predicates.go *)
(* and SetupWithManager in bucket_access_controller.go).                     *)
THEOREM NothingMissedHolds == Spec => []NothingMissed
<1>1. IInv => NothingMissed
  <2> SUFFICES ASSUME IInv, AtRest, NEW o \in Primary, server[o] # Absent
               PROVE
        /\ seen[o] # None /\ seen[o][o] # Absent /\ SameSpec(seen[o][o], server[o])
        /\ (o \in Accesses /\ Live(o)) =>
              /\ \A b \in server[o].refs : seen[o][b] = server[b]
              /\ o \in Owned /\ SecretOf[o] \in Watched
                    /\ server[SecretOf[o]] = Absent
                 => seen[o][SecretOf[o]] = Absent
    BY DEF NothingMissed
  <2>1. /\ queue = {} /\ mapping = {} /\ cache[o] = server[o]
        /\ \A b \in Buckets : cache[b] = server[b]
        /\ \A p \in Watched : cache[p] = server[p]
    BY DEF AtRest, Watched, Primary
  <2>2. seen[o] # None /\ seen[o][o] # Absent /\ SameSpec(seen[o][o], server[o])
    BY <2>1 DEF IInv, Noticed, UpToDate
  <2>3. ASSUME o \in Accesses, NEW b \in server[o].refs
        PROVE  seen[o][b] = server[b]
    <3>1. b \in Buckets
      BY <2>3, KindFacts, ObjectFacts DEF IInv, Types, Typed
    <3> QED BY <2>1, <2>2, <2>3, <3>1 DEF IInv, Noticed
  <2>4. ASSUME o \in Owned, SecretOf[o] \in Watched, server[SecretOf[o]] = Absent
        PROVE  seen[o][SecretOf[o]] = Absent
    BY <2>1, <2>2, <2>4 DEF IInv, Noticed
  <2> QED BY <2>2, <2>3, <2>4
<1> QED BY <1>1, Inductive, PTL

-----------------------------------------------------------------------------
(* The organisation of a manager.                                            *)

Resolved(org, ref) ==
    \E o \in Organisations : o.identity = org /\ Matches(o, ref)

(* What starts resolve depends on, and what earlier ones resolved.           *)
OrgInv ==
    /\ config \in Configs /\ cloud \in Clouds
    /\ DOMAIN process = {"pc", "cred", "org", "scope"}
    /\ process.pc = "resolve" => process.cred \in Credentials
    /\ used # Blank => Resolved(used, config.organisation)

(* The greater a member, the fewer members are above it.                     *)
LEMMA LastExists ==
    ASSUME NEW n \in Nat, NEW S \in SUBSET (1..n), S # {}
    PROVE  Max(S) \in S
<1> DEFINE Above(i) == {k \in S : k > i}
           Aboves == {Above(i) : i \in S}
           R == StrictSubsetOrdering(S)
<1>1. S \subseteq Nat /\ IsFiniteSet(S)
  <2>1. IsFiniteSet(1..n)
    BY FS_Interval
  <2>2. IsFiniteSet(S)
    BY <2>1, FS_Subset
  <2>3. S \subseteq Nat
    OBVIOUS
  <2> QED BY <2>2, <2>3
<1>2. Aboves \subseteq FiniteSubsetsOf(S) /\ Aboves # {}
  <2>1. ASSUME NEW i \in S
        PROVE  Above(i) \in FiniteSubsetsOf(S)
    <3>1. Above(i) \in SUBSET S
      OBVIOUS
    <3>2. IsFiniteSet(Above(i))
      BY <1>1, <3>1, FS_Subset
    <3> QED BY <3>1, <3>2 DEF FiniteSubsetsOf
  <2> QED BY <2>1
<1>3. \E A \in Aboves : \A B \in Aboves : ~(<<B, A>> \in R)
  <2>1. IsWellFoundedOn(R, FiniteSubsetsOf(S))
    BY FS_StrictSubsetOrderingWellFounded
  <2> HIDE DEF Aboves, R
  <2> QED BY <1>2, <2>1, WFMin
<1>4. PICK i \in S : \A j \in S : ~(<<Above(j), Above(i)>> \in R)
  BY <1>3
<1>5. \A j \in S : i >= j
  <2> SUFFICES ASSUME NEW j \in S, ~(i >= j) PROVE FALSE
    OBVIOUS
  <2>1. i \in Nat /\ j \in Nat /\ j > i
    BY <1>1
  <2>2. j \in Above(i) /\ j \notin Above(j) /\ Above(j) \subseteq Above(i)
    <3>1. \A k \in S : k > j => k > i
      BY <1>1, <2>1
    <3>2. ~(j > j)
      BY <2>1
    <3>3. Above(j) \subseteq Above(i)
      BY <3>1
    <3> QED BY <2>1, <3>2, <3>3
  <2>3. <<Above(j), Above(i)>> \in R
    BY <2>2 DEF StrictSubsetOrdering
  <2> QED BY <1>4, <2>3
<1> HIDE DEF Above, Aboves, R
<1>6. Max(S) = CHOOSE x \in S : \A y \in S : x >= y
  BY DEF Max
<1> QED BY <1>5, <1>6

LEMMA MembershipsMatch ==
    ASSUME NEW list \in Seq(Organisations), NEW ref,
           resolveFromMemberships(list, ref) # NotFound
    PROVE  Resolved(resolveFromMemberships(list, ref), ref)
<1> DEFINE Test(o) == o.identity # Blank /\ Fold[o.slug] = Fold[ref]
           I == {i \in 1..Len(list) : Test(list[i])}
<1>1. Len(list) \in Nat /\ DOMAIN list = 1..Len(list)
      /\ \A i \in 1..Len(list) : list[i] \in Organisations
  OBVIOUS
<1>2. CASE \E i \in DOMAIN list : list[i].identity = ref
  BY <1>1, <1>2 DEF resolveFromMemberships, Resolved, Matches
<1>3. CASE ~\E i \in DOMAIN list : list[i].identity = ref
  <2>1. I # {} /\ resolveFromMemberships(list, ref) = list[Max(I)].identity
    BY <1>3 DEF resolveFromMemberships, SelectLastInSeq
  <2>2. Max(I) \in I
    BY <1>1, <2>1, LastExists
  <2>3. /\ list[Max(I)] \in Organisations
        /\ Fold[list[Max(I)].slug] = Fold[ref]
    BY <1>1, <2>2
  <2> QED BY <2>1, <2>3 DEF Resolved, Matches
<1> QED BY <1>2, <1>3

LEMMA IdentityMatches ==
    ASSUME NEW c, NEW list, NEW own \in Organisations \cup {NotFound},
           list = NotFound \/ list \in Seq(Organisations),
           ResolveOrganisationIdentity(list, own, c) # NotFound
    PROVE  Resolved(ResolveOrganisationIdentity(list, own, c), c.organisation)
<1>1. ASSUME resolveFromServiceAccount(own, c.organisation) # NotFound
      PROVE  Resolved(resolveFromServiceAccount(own, c.organisation),
                      c.organisation)
  BY <1>1 DEF resolveFromServiceAccount, Resolved
<1> QED BY <1>1, MembershipsMatch DEF ResolveOrganisationIdentity

LEMMA OneIdentity ==
    ASSUME NEW c \in Configs, NEW org1, NEW org2,
           Resolved(org1, c.organisation), Resolved(org2, c.organisation)
    PROVE  org1 = org2
BY UnambiguousAssumption DEF Resolved

LEMMA OrgInitial == Init => OrgInv
BY DEF Init, StartupInit, OrgInv, Down

(* Every step keeps the invariant and the organisation.                      *)
LEMMA OrgStep ==
    ASSUME OrgInv, [Next]_vars
    PROVE  OrgInv' /\ (used # Blank => used' = used)
<1>1. CASE UNCHANGED startupVars
  BY <1>1 DEF startupVars, OrgInv
<1>2. CASE Launch
  BY <1>2 DEF Launch, Keep, OrgInv
<1>3. CASE Configure
  <2>1. UNCHANGED <<used, config, cloud>>
    BY <1>3 DEF Configure, Exit, Keep
  <2>2. CASE process' = Down
    BY <2>1, <2>2 DEF OrgInv, Down
  <2>3. CASE /\ process' = [process EXCEPT !.pc = "resolve",
                              !.cred = NewClientFromEnv(config),
                              !.scope = SecretCacheOptions(config)]
             /\ NewClientFromEnv(config) # Refused
    <3>1. NewClientFromEnv(config) \in Credentials
      BY <2>3 DEF NewClientFromEnv, Credentials
    <3> QED BY <2>1, <2>3, <3>1 DEF OrgInv
  <2> QED BY <1>3, <2>2, <2>3 DEF Configure, Exit
<1>4. CASE Resolve
  <2>1. UNCHANGED <<config, cloud>> /\ process.cred \in Credentials
    BY <1>4 DEF Resolve, Keep, OrgInv
  <2>2. CASE Exit
    BY <2>1, <2>2 DEF Exit, OrgInv, Down
  <2>3. CASE ~Exit
    <3>1. PICK list \in {cloud.memberships[process.cred], NotFound},
               own \in {cloud.own, NotFound} :
               LET org == ResolveOrganisationIdentity(list, own, config) IN
               /\ org # NotFound /\ used' = org
               /\ process' = [process EXCEPT !.pc = "sync", !.org = org]
      BY <1>4, <2>3 DEF Resolve
    <3>2. /\ own \in Organisations \cup {NotFound}
          /\ list = NotFound \/ list \in Seq(Organisations)
      BY <2>1, CloudsAssumption DEF OrgInv
    <3>3. Resolved(used', config.organisation)
      BY <3>1, <3>2, IdentityMatches
    <3>4. used # Blank => used' = used
      BY <3>3, OneIdentity DEF OrgInv
    <3> QED BY <2>1, <3>1, <3>3, <3>4 DEF OrgInv
  <2> QED BY <2>2, <2>3
<1>5. CASE Synced
  BY <1>5 DEF Synced, Keep, OrgInv
<1>6. CASE Crash
  BY <1>6 DEF Crash, Exit, Keep, OrgInv, Down
<1>7. CASE Rollout
  BY <1>7 DEF Rollout, Exit, OrgInv, Down
<1>8. CASE Remount
  <2>1. config'.organisation = config.organisation
    BY <1>8, ConfigsAssumption DEF Remount, OrgInv
  <2> QED BY <1>8, <2>1 DEF Remount, OrgInv
<1> QED
  BY <1>1, <1>2, <1>3, <1>4, <1>5, <1>6, <1>7, <1>8
     DEF Next, Process, Users, Boot, Starting, Serve, Stop, Deliver, Map, Begin,
         End, Elapse, vars, host

(* A manager never changes the organisation that its predecessors worked in  *)
(* (ResolveOrganisationIdentity in internal/thalassaclient/organisation.go). *)
THEOREM SameOrganisationHolds == Spec => SameOrganisation
<1>1. OrgInv /\ [Next]_vars => OrgInv'
  BY OrgStep
<1>2. OrgInv /\ [Next]_vars => [used # Blank => used' = used]_startupVars
  BY OrgStep
<1> QED BY <1>1, <1>2, OrgInitial, PTL DEF Spec, SameOrganisation

-----------------------------------------------------------------------------
(* Types. What a process in its later phases works with was resolved.        *)

ProcessInv ==
    /\ process.pc \in {"down", "flags", "resolve", "sync", "serving"}
    /\ process.cred \in Credentials \cup {Blank}
    /\ process.pc \in {"sync", "serving"} =>
          Resolved(process.org, config.organisation)

Budgets == faults \in 0..MaxFaults /\ edits \in 0..MaxEdits

LEMMA BudgetsStep ==
    ASSUME Budgets, [Next]_vars
    PROVE  Budgets'
<1>1. MaxFaults \in Nat /\ MaxEdits \in Nat
  BY StartupBounds
<1>2. UNCHANGED faults \/ Fail => faults' \in 0..MaxFaults
  BY <1>1 DEF Budgets, Fail
<1>3. edits' = edits \/ (edits < MaxEdits /\ edits' = edits + 1)
      => edits' \in 0..MaxEdits
  BY <1>1 DEF Budgets
<1>4. CASE UNCHANGED vars
  BY <1>2, <1>3, <1>4 DEF vars, Budgets
<1>5. CASE Process
  <2>1. edits' = edits
    BY <1>5 DEF Process, Boot, Serve, Stop, Deliver, Map, Begin, End, Elapse,
                host
  <2>2. UNCHANGED faults \/ Fail
    <3>1. CASE Boot \/ Serve \/ Stop
      BY <3>1 DEF Boot, Starting, Launch, Configure, Resolve, Serve, Synced,
                  Stop, Crash
    <3>2. CASE \/ \E o \in Objects : Deliver(o)
               \/ \E b \in Buckets : Map(b)
               \/ \E o \in Primary : Begin(o) \/ Elapse(o)
      BY <3>2 DEF Deliver, Map, Begin, Elapse
    <3>3. CASE \E o \in Primary : End(o)
      BY <3>3 DEF End, Skip, AddFinalizer, Terminate, ReconcileBucket,
                  ReconcileAccess, Degrade
    <3> QED BY <1>5, <3>1, <3>2, <3>3 DEF Process
  <2> QED BY <1>2, <1>3, <2>1, <2>2 DEF Budgets
<1>6. CASE Users
  <2>1. /\ edits < MaxEdits /\ edits' = edits + 1
        /\ Rollout \/ Remount \/ \E o \in Objects : Kubectl(o)
    BY <1>6 DEF Users
  <2>2. UNCHANGED faults
    BY <2>1 DEF Rollout, Remount, Kubectl
  <2> QED BY <1>2, <1>3, <2>1, <2>2 DEF Budgets
<1> QED BY <1>4, <1>5, <1>6 DEF Next

LEMMA ProcessStep ==
    ASSUME OrgInv, ProcessInv, [Next]_vars
    PROVE  ProcessInv'
<1> USE DEF ProcessInv
<1>1. CASE UNCHANGED startupVars
  BY <1>1 DEF startupVars
<1>2. CASE Launch
  BY <1>2 DEF Launch, OrgInv
<1>3. ASSUME process' = Down PROVE ProcessInv'
  BY <1>3 DEF Down
<1>4. CASE Configure
  <2>1. NewClientFromEnv(config) \in Credentials \cup {Refused}
    BY DEF NewClientFromEnv, Credentials
  <2> QED BY <1>3, <1>4, <2>1 DEF Configure, Exit, OrgInv
<1>5. CASE Resolve
  <2>1. UNCHANGED <<config, cloud>> /\ process.cred \in Credentials
    BY <1>5 DEF Resolve, Keep, OrgInv
  <2>2. CASE process' # Down
    <3>1. PICK list \in {cloud.memberships[process.cred], NotFound},
               own \in {cloud.own, NotFound} :
               LET org == ResolveOrganisationIdentity(list, own, config) IN
               /\ org # NotFound
               /\ process' = [process EXCEPT !.pc = "sync", !.org = org]
      BY <1>5, <2>2 DEF Resolve, Exit
    <3>2. /\ own \in Organisations \cup {NotFound}
          /\ list = NotFound \/ list \in Seq(Organisations)
      BY <2>1, CloudsAssumption DEF OrgInv
    <3> DEFINE org == ResolveOrganisationIdentity(list, own, config)
    <3>3. Resolved(org, config.organisation)
      BY <3>1, <3>2, IdentityMatches
    <3>4. process' = [process EXCEPT !.pc = "sync", !.org = org]
      BY <3>1
    <3> HIDE DEF org
    <3>5. process'.org = org /\ process'.pc = "sync"
          /\ process'.cred = process.cred
      BY <3>4 DEF OrgInv
    <3> QED BY <2>1, <3>3, <3>5
  <2> QED BY <1>3, <2>2
<1>6. CASE Synced
  BY <1>6 DEF Synced, Keep, OrgInv
<1>7. CASE Crash \/ Rollout
  BY <1>3, <1>7 DEF Crash, Rollout, Exit
<1>8. CASE Remount
  <2>1. config'.organisation = config.organisation
    BY <1>8, ConfigsAssumption DEF Remount, OrgInv
  <2> QED BY <1>8, <2>1 DEF Remount
<1> QED
  BY <1>1, <1>2, <1>4, <1>5, <1>6, <1>7, <1>8
     DEF Next, Process, Users, Boot, Starting, Serve, Stop, Deliver, Map, Begin,
         End, Elapse, vars, host

(* Every variable keeps its type, and a manager that got as far as its       *)
(* caches works in an organisation that bears the configured name.           *)
THEOREM TypeCorrect == Spec => []TypeOK
<1> DEFINE Inv == OrgInv /\ ProcessInv /\ Budgets
<1>1. Init => Inv
  <2> SUFFICES ASSUME Init PROVE ProcessInv /\ Budgets
    BY OrgInitial
  <2>1. process = Down /\ faults = 0 /\ edits = 0
    BY DEF Init, StartupInit
  <2> QED BY <2>1, StartupBounds DEF ProcessInv, Down, Budgets
<1>2. Inv /\ [Next]_vars => Inv'
  BY OrgStep, ProcessStep, BudgetsStep
<1>3. IInv /\ Inv => TypeOK
  BY DEF IInv, Types, Typed, ProcessInv, Resolved, Budgets, TypeOK
<1> QED BY <1>1, <1>2, <1>3, Inductive, PTL DEF Spec
=============================================================================
