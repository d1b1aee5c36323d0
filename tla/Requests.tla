------------------------------ MODULE Requests ------------------------------
(***************************************************************************)
(* What makes the two controllers look at an object again: informers that  *)
(* follow the API server, predicates and mappings that turn their events   *)
(* into requests, the two work queues with one worker each, and the        *)
(* requeues that a pass asks for. What passes do to the cloud is the       *)
(* subject of Bucket and BucketAccess; here a pass is its reads, its       *)
(* writes to Kubernetes and its result.                                    *)
(*                                                                         *)
(* A pass reads everything when it starts: the code reads some of it       *)
(* later, and then sees no less.                                           *)
(***************************************************************************)
EXTENDS Startup

CONSTANTS Buckets, Accesses,  \* Bucket and BucketAccess objects
          SecretOf,           \* the Secret an access writes to
          Owned,              \* accesses with their Secret in their namespace
          Absent,             \* an object that does not exist
          None,               \* no object; a pass that never was
          Starts,             \* objects that users and earlier managers left
          NamespaceOf         \* of a Secret

VARIABLES
    server,   \* the objects, in the API server
    cache,    \* the informers' copies
    mapping,  \* Buckets with an event that mapBucketToAccess has yet to see
    queue,    \* requests that wait for a worker
    timers,   \* requests to be added later: requeues and rate limited ones
    running,  \* per controller, the request in progress
    seen      \* what the last pass of an object read

requestVars == <<server, cache, mapping, queue, timers, running, seen>>
host == <<startupVars, edits>>
work == <<mapping, queue, timers, running, seen>>

Primary == Buckets \cup Accesses
Secrets == {SecretOf[a] : a \in Accesses}
Objects == Primary \cup Secrets
Controllers == {"bucket", "bucketaccess"}
Controller(o) == IF o \in Buckets THEN "bucket" ELSE "bucketaccess"

BucketObject == [gen : Nat, suspended : BOOLEAN, deleting : BOOLEAN,
                 final : BOOLEAN, ready : BOOLEAN]
AccessObject == [gen : Nat, suspended : BOOLEAN, deleting : BOOLEAN,
                 final : BOOLEAN, rotate : BOOLEAN, refs : SUBSET Buckets]
SecretObject == [content : {"ours", "edited"}]
Kind(o) == IF o \in Buckets THEN BucketObject
           ELSE IF o \in Accesses THEN AccessObject ELSE SecretObject

Copies == BucketObject \cup AccessObject \cup SecretObject \cup {Absent}

NewBucket == [gen |-> 1, suspended |-> FALSE, deleting |-> FALSE,
              final |-> FALSE, ready |-> FALSE]
NewAccess(refs) == [gen |-> 1, suspended |-> FALSE, deleting |-> FALSE,
                    final |-> FALSE, rotate |-> FALSE, refs |-> refs]

ASSUME RequestsAssumption ==
    /\ Buckets \cap Accesses = {} /\ Primary \cap Secrets = {}
    /\ \A a, b \in Accesses : SecretOf[a] = SecretOf[b] => a = b
    /\ Owned \subseteq Accesses /\ None \notin Objects
    /\ \A o \in Objects : Absent \notin Kind(o)
    /\ \A some \in SUBSET Objects : None \notin [some -> Copies]

(* Only what has a finalizer stays when it is deleted.                       *)
ASSUME StartsAssumption ==
    \A start \in Starts :
        /\ DOMAIN start = Objects
        /\ \A o \in Objects : start[o] \in Kind(o) \cup {Absent}
        /\ \A o \in Primary :
              start[o] # Absent /\ start[o].deleting => start[o].final

Listening == process.pc \in {"sync", "serving"}
Serving == process.pc = "serving"

(* What the informers list                                                   *)
Watched ==
    Primary \cup {s \in Secrets : \/ process.scope = Cluster
                                 \/ NamespaceOf[s] \in process.scope}

Nothing == [o \in Objects |-> Absent]

-----------------------------------------------------------------------------
(* Predicates and mappings: an object's event, from old to new.              *)

primaryResourceUpdate_Generation(old, new) ==
    new.deleting \/ old.gen # new.gen

primaryResourceUpdate(old, new) ==
    \/ new.deleting
    \/ old.gen # new.gen
    \/ old.suspended # new.suspended

PrimaryResourcePredicate(old, new) ==
    new # Absent /\ (old = Absent \/ primaryResourceUpdate(old, new))

(* Secrets have no generation: only their creation and deletion count.       *)
OwnedResourcePredicate(old, new) == old = Absent \/ new = Absent

(* For and Owns: the requests of an event.                                   *)
Wakes(o, old, new) ==
    IF o \in Primary
    THEN {p \in {o} : PrimaryResourcePredicate(old, new)}
    ELSE {a \in Owned : SecretOf[a] = o /\ OwnedResourcePredicate(old, new)}

WatchesBucket_Primary(o, old, new) ==
    o \in Buckets /\ PrimaryResourcePredicate(old, new)

(* Watches has no predicate.                                                 *)
WatchesBucket(o, old, new) == o \in Buckets

mapBucketToAccess(b) ==
    {a \in Accesses : cache[a] # Absent /\ b \in cache[a].refs}

-----------------------------------------------------------------------------
RequestsInit ==
    /\ server \in Starts
    /\ cache = Nothing /\ mapping = {} /\ queue = {} /\ timers = {}
    /\ running = [c \in Controllers |-> None]
    /\ seen = [o \in Primary |-> None]

(* An informer takes over an object; it may have missed states in between.   *)
Deliver(o) ==
    /\ Listening /\ o \in Watched /\ cache[o] # server[o]
    /\ o \in Secrets => Covered(process.scope, config.rbac)
    /\ cache' = [cache EXCEPT ![o] = server[o]]
    /\ queue' = queue \cup Wakes(o, cache[o], server[o])
    /\ mapping' = IF WatchesBucket(o, cache[o], server[o])
                  THEN mapping \cup {o} ELSE mapping
    /\ UNCHANGED <<server, timers, running, seen, faults, host>>

Map(b) ==
    /\ b \in mapping /\ mapping' = mapping \ {b}
    /\ queue' = queue \cup mapBucketToAccess(b)
    /\ UNCHANGED <<server, cache, timers, running, seen, faults, host>>

Elapse(o) ==
    /\ Serving /\ o \in timers
    /\ timers' = timers \ {o} /\ queue' = queue \cup {o}
    /\ UNCHANGED <<server, cache, mapping, running, seen, faults, host>>

(* What a pass reads of the caches                                           *)
Reads(o) ==
    [p \in {o} \cup (IF o \in Accesses THEN Buckets \cup {SecretOf[o]} ELSE {})
        |-> cache[p]]

(* A worker takes a request; one that is added again while it runs waits.    *)
Begin(o) ==
    /\ Serving /\ o \in queue /\ running[Controller(o)] = None
    /\ queue' = queue \ {o}
    /\ running' = [running EXCEPT ![Controller(o)] = o]
    /\ seen' = [seen EXCEPT ![o] = Reads(o)]
    /\ UNCHANGED <<server, cache, mapping, timers, faults, host>>

-----------------------------------------------------------------------------
(* The end of a pass. A write of the object carries the version the pass     *)
(* read, a write of its status the version that updateStatusWithRetry finds  *)
(* in the cache: one that meets another ends in an error, and errors are     *)
(* added again after a while.                                                *)

Done(o) == timers' = timers

Again_UnlessReady(o) ==
    timers' = IF seen[o][o].final THEN timers ELSE timers \cup {o}

Again(o) == timers' = timers \cup {o}

Fresh(o) == server[o] = seen[o][o]
Current(o) == server[o] # Absent /\ server[o] = cache[o]
Write(o, new) == server' = [server EXCEPT ![o] = new]

(* Gone, suspended, or deleted before it had a finalizer.                    *)
Skip(o) ==
    LET self == seen[o][o] IN
    /\ self = Absent \/ (self # Absent /\ (self.suspended
                                           \/ (self.deleting /\ ~self.final)))
    /\ Done(o) /\ UNCHANGED <<server, faults>>

Active(o) == seen[o][o] # Absent /\ ~seen[o][o].suspended

AddFinalizer(o) ==
    /\ Active(o) /\ ~seen[o][o].deleting /\ ~seen[o][o].final
    /\ IF Fresh(o) THEN Write(o, [server[o] EXCEPT !.final = TRUE])
       ELSE UNCHANGED server
    /\ Again(o) /\ UNCHANGED faults

(* Kubernetes collects the owned Secret of what is gone.                     *)
Terminate(o) ==
    /\ Active(o) /\ seen[o][o].deleting /\ seen[o][o].final
    /\ IF Fresh(o)
       THEN /\ server' = [p \in Objects |->
                  IF p = o \/ (o \in Owned /\ p = SecretOf[o]) THEN Absent
                  ELSE server[p]]
            /\ Done(o)
       ELSE Again(o) /\ UNCHANGED server
    /\ UNCHANGED faults

Live(o) == Active(o) /\ ~seen[o][o].deleting /\ seen[o][o].final

(* The Bucket controller: the status follows the service's, whose bucket is  *)
(* ready (for one that is not, see Degrade).                                 *)
ReconcileBucket(b) ==
    /\ b \in Buckets /\ Live(b)
    /\ IF Current(b) THEN Write(b, [server[b] EXCEPT !.ready = TRUE])
       ELSE UNCHANGED server
    /\ Again(b) /\ UNCHANGED faults

BucketsReady(a) ==
    \A b \in seen[a][a].refs : seen[a][b] # Absent /\ seen[a][b].ready

(* The BucketAccess controller: it waits for its buckets, writes the Secret  *)
(* if it can read it, and clears the annotation if it has served it.         *)
ReconcileAccess(a) ==
    /\ a \in Accesses /\ Live(a)
    /\ LET s == SecretOf[a] IN
       IF BucketsReady(a) /\ s \in Watched /\ server[s] = cache[s] /\ Current(a)
       THEN server' = [server EXCEPT
                         ![s] = [content |-> "ours"],
                         ![a].rotate = @ /\ ~seen[a][a].rotate]
       ELSE UNCHANGED server
    /\ Again(a) /\ UNCHANGED faults

(* A call fails, or the service's bucket is not ready yet: a Bucket shows    *)
(* it (Degraded, Updating or Provisioning).                                  *)
Degrade(o) ==
    /\ Active(o) /\ Fail /\ Again(o)
    /\ IF o \in Buckets /\ Live(o) /\ Current(o)
       THEN Write(o, [server[o] EXCEPT !.ready = FALSE]) ELSE UNCHANGED server

End(o) ==
    /\ running[Controller(o)] = o
    /\ running' = [running EXCEPT ![Controller(o)] = None]
    /\ \/ Skip(o) \/ AddFinalizer(o) \/ Terminate(o)
       \/ ReconcileBucket(o) \/ ReconcileAccess(o) \/ Degrade(o)
    /\ UNCHANGED <<cache, mapping, queue, seen, host>>

(* The process ends: all that is not in the API server is lost.              *)
Forget ==
    /\ cache' = Nothing /\ mapping' = {} /\ queue' = {} /\ timers' = {}
    /\ running' = [c \in Controllers |-> None]
    /\ seen' = [o \in Primary |-> None]
    /\ UNCHANGED server

-----------------------------------------------------------------------------
(* kubectl                                                                   *)

Deleted(o) ==
    IF server[o].final
    THEN [server[o] EXCEPT !.deleting = TRUE, !.gen = server[o].gen + 1]
    ELSE Absent

Edit(o) ==
    /\ o \in Primary /\ server[o] # Absent /\ ~server[o].deleting
    /\ \/ /\ o \in Buckets
          /\ Write(o, [server[o] EXCEPT !.gen = @ + 1])
       \/ /\ o \in Accesses
          /\ \E refs \in SUBSET Buckets \ {server[o].refs} :
                Write(o, [server[o] EXCEPT !.refs = refs,
                                           !.gen = server[o].gen + 1])

Rotate(a) ==
    /\ a \in Accesses /\ server[a] # Absent /\ ~server[a].rotate
    /\ Write(a, [server[a] EXCEPT !.rotate = TRUE])

Suspend(o) ==
    /\ o \in Primary /\ server[o] # Absent
    /\ Write(o, [server[o] EXCEPT !.suspended = ~@])

Delete(o) ==
    /\ server[o] # Absent
    /\ \/ o \in Primary /\ ~server[o].deleting /\ Write(o, Deleted(o))
       \/ o \in Secrets /\ Write(o, Absent)

(* A name is not used again before the informer has seen it free.            *)
Create(o) ==
    /\ server[o] = Absent /\ cache[o] = Absent
    /\ \/ o \in Buckets /\ Write(o, NewBucket)
       \/ /\ o \in Accesses
          /\ \E refs \in SUBSET Buckets : Write(o, NewAccess(refs))

Tamper(s) ==
    /\ s \in Secrets /\ server[s] # Absent
    /\ server[s].content = "ours" /\ Write(s, [content |-> "edited"])

Kubectl(o) ==
    /\ Edit(o) \/ Rotate(o) \/ Suspend(o) \/ Delete(o) \/ Create(o) \/ Tamper(o)
    /\ UNCHANGED <<cache, work, faults>>

-----------------------------------------------------------------------------
(* A request is waiting, running or set for later, or an event is due.       *)
Pending(o) ==
    \/ o \in queue \cup timers \/ running[Controller(o)] = o
    \/ cache[o] # server[o]

(* No object is forgotten: whatever order events, passes and restarts come   *)
(* in, what exists and is not suspended will be looked at again.             *)
NeverForgotten ==
    Serving =>
        \A o \in Primary :
            (server[o] # Absent /\ ~server[o].suspended) => Pending(o)

AtRest ==
    /\ Serving /\ mapping = {} /\ queue = {}
    /\ \A c \in Controllers : running[c] = None
    /\ \A o \in Watched : cache[o] = server[o]

SameSpec(o, p) == /\ o.gen = p.gen /\ o.suspended = p.suspended
                  /\ o.deleting = p.deleting

(* When no event and no request is left but timers, the last pass of every   *)
(* object started from its spec and suspension as they are, that of an       *)
(* access also from its Buckets as they are, and not with a Secret of its    *)
(* namespace that is gone by now: these changes are noticed at once.         *)
NothingMissed ==
    AtRest => \A o \in Primary : server[o] # Absent =>
        /\ seen[o] # None /\ seen[o][o] # Absent
        /\ SameSpec(seen[o][o], server[o])
        /\ (o \in Accesses /\ Live(o)) =>
              /\ \A b \in server[o].refs : seen[o][b] = server[b]
              /\ o \in Owned /\ SecretOf[o] \in Watched
                    /\ server[SecretOf[o]] = Absent
                 => seen[o][SecretOf[o]] = Absent

Wanted(o) == server[o] # Absent /\ ~server[o].suspended /\ ~server[o].deleting

(* Once edits and failures stop, annotations are served and Secrets are as   *)
(* they should be, also where only a timer notices: an annotation, an edited *)
(* Secret, a Secret in another namespace.                                    *)
AllServed ==
    \A a \in Accesses :
        (/\ Wanted(a) /\ SecretOf[a] \in Watched
         /\ \A b \in server[a].refs : Wanted(b))
        => ~server[a].rotate /\ server[SecretOf[a]] = [content |-> "ours"]

(* ... and what is deleted is gone, unless it is suspended.                  *)
AllFinalized == \A o \in Primary :
    server[o] # Absent => server[o].suspended \/ ~server[o].deleting
=============================================================================
