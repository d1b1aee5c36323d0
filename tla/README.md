# Models and proofs of the Thalassa object storage manager

The manager is a Kubernetes operator with two controllers. A `Bucket` object
stands for a bucket of the Thalassa object storage service. A `BucketAccess`
object grants a principal access to some of these buckets: in *managed* mode the
controller makes an IAM service account and an access key and writes the key to a
Secret; in *external* mode (`spec.principalRef`) the principal already exists.

This directory holds TLA+ modules of both controllers, of what they share and of
the process that hosts them, TLC configurations that check them on small
instances, and proofs that TLAPS checks for every value of the constants. Line
numbers refer to `src/internal/thalassa/bucketaccess/bucketaccess.go` (BA) and
`src/internal/thalassa/bucket/bucket.go` (B). `PROJECT.json` maps every
definition to the lines it stands for.

## 1. Inventory

### The parts and how they interact

| Part | State it keeps | Operations | Modelled in |
|---|---|---|---|
| BucketAccess controller (BA, `principal.go`, `rotation.go`) | the object's finalizer, annotation and status; IAM service account and credentials; the Secret; one policy statement per bucket | Reconcile, Terminate | `BucketAccess` |
| Bucket controller (B, `adoption.go`) | the object's finalizer and status; the remote bucket | Reconcile (create, adopt, update), Terminate | `Bucket` |
| Bucket policies (`policy.go`, merge in B 343-433) | the policy document of a remote bucket | upsert, remove, merge, compare | `BucketPolicy` |
| Permissions (`permissions.go`) | none | presets, allowlist | `BucketPolicy` |
| Events and queues (`internal/controller`) | informers, requests, requeues | predicates, mapping, dispatch | `Requests` |
| Secret namespaces (`secretref/`) | none | namespace check, cache options | `Startup`, `Requests`; effects in `BucketAccess` |
| Client and organisation (`thalassaclient/`) | credential, organisation | choice of credential, resolution, `IsNotFound` | `Startup`; `IsNotFound` inside actions |
| Manager process (`cmd/main.go`, feature gates, health) | flags | start, readiness | `Startup`, `Manager` |
| Conditions, helpers | conditions of a status | set condition | the fields `cond` and `ready` |
| API types, chart, manifests, e2e suite | - | - | field shapes only |

The controllers never call each other. They meet in three places: the
BucketAccess controller reads the status of `Bucket` objects (BA 275-301); both
write the policy document of a remote bucket, each with a read and a later write
that carries no version; and an event of a Bucket wakes the accesses that
reference it.

### What is hard here

- **Partial failure.** A pass makes up to a dozen calls to two services. Each may
  fail, take effect and lose its answer, or be the last before a crash. What a
  pass learnt is kept only in `status`, and each pass must pick up whatever the
  one before it left.
- **Stale reads.** Objects and Secrets are read from informers. A status write
  that meets a conflict gets the newer object and overwrites its whole status
  (BA 681-692), while the removal of the finalizer carries the old
  resourceVersion (BA 652) and is refused.
- **Interleaving.** Users edit, annotate, suspend and delete between any two
  calls; other owners create, relabel and delete buckets and Secrets under the
  same names; the two controllers overwrite each other's policy documents.
- **Shared names.** Bucket names are global. Nothing in the service marks whose
  bucket it is; the controller infers it from `status.bucketName`, or from the
  base name.
- **Lost wake-ups.** Predicates filter events: updates of annotations, of a status
  and of a Secret's data wake nobody. Only the requeue each pass asks for covers
  them, and requests and timers die with the process.
- **Starts.** Flags, RBAC, mounted files and two services decide whether and as
  whom the manager runs; a wrong guess at the organisation ends up in every policy.

### What makes each part correct

- *BucketAccess*: one service account per object; accounts, Secrets and
  buckets of others untouched; no more credentials left behind than faults;
  Ready means that the Secret's key works and the listed buckets carry the grant;
  a working key is not killed by a repair; rotation and deletion are complete when
  they say so; the object converges.
- *Bucket*: never changes or deletes somebody else's bucket; adopts only with
  gate and label; no more orphans than faults; takes its bucket with it; converges.
- *Policies*: a Sid names one statement; either controller keeps what belongs to
  the other; lost updates are repaired; the Bucket controller comes to rest.
- *Process and queues*: the same organisation after every start; ready when the
  deployment is right; no object forgotten; no announced change missed; what only
  timers notice is served too.

## 2. The modules

| Module | What it stands for | What it holds |
|---|---|---|
| `BucketAccess` | BA, `principal.go`, `rotation.go`, the BucketAccess reconciler | the worker, the API server, informers, IAM, the Secret |
| `BucketAccessProperties` | - | its properties, the mapping to `Ownership`, the inductive strengthenings |
| `Ownership` | - | the abstract specification: what one object may own, in single steps |
| `Bucket`, `BucketProperties` | B, `adoption.go`, the Bucket reconciler | the worker, the object, remote buckets and other owners |
| `BucketPolicy` | B 298-433, `policy.go`, `permissions.go`, BA 135-141, 508-524 and 601-679 | one bucket, two controllers, several accesses |
| `Startup` | `main.go`, `client.go`, `organisation.go`, `cache.go`, `featuregates.go`, `ready.go` | from launch to serving |
| `Requests` | `predicates.go`, both reconcilers | objects, informers, queues, timers, passes |
| `Manager` | - | the composition of `Startup` and `Requests` |
| `BucketAccessProofs`, `BucketAccessRefinement`, `BucketAccessGrantProofs`, `BucketAccessCredentialProofs`, `BucketAccessKeyProofs` | - | theorems about `BucketAccess`: accounts and deletion; the refinement; grants and other people's Secrets; stray credentials; rotation and the key in the Secret |
| `BucketProofs`, `BucketPolicyProofs`, `ManagerProofs` | - | theorems about `Bucket`, `BucketPolicy`, and `Manager` with its parts |
| `MC*` | - | constants for TLC |

Compositions: `BucketPolicy` is where the two controllers interact, with the whole
document and every read and write a step of its own. `BucketAccess` has as much of it
as concerns one Sid. There the handler's own read and write (BA 509-523, 661-670) are
one step, which is exact for its own Sid: an upsert or a removal writes the same of
that Sid whatever the read saw. The Bucket controller's read and write (B 299 and
320) are two, `ReadPolicy` and `WritePolicy`, since it writes back what it read;
`copies` is the policy it holds in between, and `undone.grants` remembers the buckets
whose policy it so changed, until this controller writes them again (`undone.secret`
does the same for a deleted Secret). `Manager` puts the queues of both controllers
into the process that hosts them: its flags decide which Secrets the informer lists,
workers begin when the caches are filled, and its end loses requests, timers and
caches. The worker of `BucketAccess` and `Bucket`, which runs again and again, is
what `Requests` justifies: its passes are reads, writes to Kubernetes and a result
there, and machines of phases here.

**Passes in `BucketAccess` and `Bucket`.** `pc` names the next call that leaves
the process, `obj` is the Go variable `obj` (the pass's copy of the object, whose
status it fills in), `run` holds the locals. Code between two calls belongs to the
action of the call before it, so no two outside effects share an action and
everybody else may act between any two of them. `Publish` writes an object,
`Persisted`/`NotPersisted` are `updateStatusWithRetry`, and `Stop` is a return to
the work queue.

**Passes in `Requests`.** `Begin` takes a request and what the caches hold (`seen`);
`End` writes and sets a timer, or does not. The code reads some objects later than
that, and then sees no less. A status write gets the cached object anew and succeeds
when that is `Current`, also if it is newer than what the pass saw. An object that is
queued again while its pass runs waits, as in the work queue. `Deliver` brings an
informer up to the server's state, possibly past states in between; `mapping` are
Bucket events whose mapping to accesses is still to be computed, from the informer as
it is then.

**Trouble.** A call may `Fail` (an error, no effect) or be `Lost` (an effect and
an error). `Crash` forgets the locals and lists the caches afresh. `Env` names the
kinds of trouble and of edits a run allows; `MaxFaults` and `MaxEdits` bound how
many. The theorems hold for every bound, and for every `Env` unless they say which
kinds they exclude (section 7).

**The other side** (marked external in `PROJECT.json`): IAM gives out identities
once, deletes an account's credentials with it, and refuses credentials beyond a
limit; the storage service refuses a name that exists and finishes provisioning;
Kubernetes launches the process again, refuses writes with an old
resourceVersion, and collects a Secret whose owner is gone.

**Abstractions.** A credential's identity is also its access key; the ARN is the
principal; endpoints, expiry, labels, events and the bucket list in the Secret are
left out. In `BucketAccess` a policy is the set of statements with this
object's Sid; what the flags make of the Secret's namespace is the value of
`secretCache` (`Unreadable`: not listed; `Forbidden`: not allowed). In `Bucket`,
settings and labels are one value. In `BucketPolicy` a policy is the sequence of
its statements, since the comparison in `bucketRequiresUpdate` depends on their
order; a name is a sequence of characters of which only the dot is special. In
`Startup` a configuration is a record of what the flags, files and the chart say,
and a name's case is removed by `Fold`. A cache that RBAC does not cover never
fills; controller-runtime ends the process after two minutes then, and
lets the Bucket controller work until that, which the model leaves out: it starts
both controllers together. One worker per controller runs (the default of
controller-runtime), in one manager (leader election is off by default, but the
chart requires it for more than one replica).

## 3. The runs

Several distinct questions of one component share a run where one set of troubles
serves them.

### BucketAccess

`lifecycle` - crashes, lost answers, a lagging informer, mode switches, rotation,
bucket churn, a Bucket controller that writes back the policy it read before
(`policyRace`), a Secret that appears in between, and deletion; one fault, two
edits, one bucket.
- `OneServiceAccount`: whatever is lost, IAM never has two accounts with the
  object's ownership label. One lost answer at creation is the case that matters;
  a second one repeats it.
- `ForeignAccountUntouched`: an external principal's account, which external mode
  stores in the status field that managed mode reuses, gets no credential and is
  not deleted. Two edits are a switch there and a deletion, or a switch back.
- `CleanDeletion`: a gone object leaves nothing that its last status recorded.
  The lag makes Terminate work from a copy older than the grants.
- `GrantedIsGranted`: while Ready, the buckets in `status.grantedBuckets` carry the
  statement for `status.principalArn`.
- `Implements`: every step is a step or a stutter of `Ownership`, which has no
  workers, caches, faults or crashes.

What the last three say of statements holds up to the next write of the Bucket
controller: a bucket whose older policy it wrote back (`Overwritten`) is excepted until
this controller writes it again. Without the exception `lifecycle` fails (sections 5
and 6).

`strays` - crashes, lost answers, stale Secret reads, Secrets deleted or put there
by somebody else, namespaces that are no longer listed or allowed, rotations and
their withdrawal, mode switches, suspension, deletion; one fault, two edits.
- `StraysBounded`: between passes there is at most one live credential beside the
  tracked one for each fault and each edit that may have been a switch. One fault
  and two edits make room for two or three; retries are unbounded.
- `ForeignSecretKept`: a Secret with another owner stays as it is.

`repair` - crashes, lost answers, rotation, edited references, bucket churn, policies
written back, deleted Secrets, suspension, deletion; two faults, two edits, two
buckets; fair.
- `SecretUsable`: a Ready managed object that awaits no rotation has a Secret whose
  key works, unless somebody deleted it and no pass has written it since. Two
  faults let a rotation fail and its repair fail too.
- `WorkingKeyKept`: a pass that no annotation asked to rotate does not delete the
  credential in the Secret, also when it undoes its own work.
- `RotationComplete`: the annotation is cleared only when the Secret holds the
  credential that this pass minted.
- `Converges`: from some moment on, a live object that nothing blocks has its
  grants on every referenced bucket, a working Secret and no pending rotation.
- `DeletionCompletes`: unless the object is suspended.

`edited_refs`, `no_namespace`, `cancel_rotation` and `stale_secret` end in
violations: section 5.

### Bucket

`bucket` - stale copies, crashes, lost answers, edited settings, suspension,
deletion, a toggled `generateNameSuffix`, other owners who create, relabel and
delete; two suffixes, two attempts, so that every attempt may hit a taken name;
one fault, two edits, one late write; fair.
- `ForeignBucketSpared`: no step changes or deletes a bucket that this object
  neither made nor adopted, with one exception (section 5).
- `TakenByRight`: adoption happens only with the gate on and the labels there.
- `OrphansBounded`: between passes there is at most one bucket of ours that status
  does not name for each fault or late write. A lost answer and a status written
  from a late copy leave one each; a pass after them makes another.
- `BucketGone`: a gone object took the bucket its status recorded.
- `Converges`: a live object that nothing blocks ends up with a bucket that
  has the settings of its spec and says so: also when others delete the bucket
  that it made, or take the names that its attempts pick.
- `DeletionCompletes`: unless the object is suspended.

`foreign_base` ends in a violation: section 5.

### BucketPolicy

`policy_races` - two accesses, one Bucket, every interleaving of reads and writes,
one fault, one edit; objects whose names have a dot, permissions that are refused,
among them a list that holds only blanks;
a bucket that starts with a user's statement and one with a legacy managed Sid;
user policies with no and with two statements; fair.
- `OneStatementPerAccess`: repeated grants and lost updates never duplicate a Sid.
- `OthersKept`: a write that is not raced keeps the other controller's part.
- `GhostsExplained`: a statement outlives its object in three ways only: either
  controller writes back an older document, or a removal failed for a bucket that
  status did not list.
- `Converges`: in the end every live object whose permissions are accepted has the
  statement it asks for, and the bucket satisfies `bucketRequiresUpdate`.
- `Settles`: the Bucket controller stops writing, whatever the order of the
  statements on the bucket.

`policy_ghost` ends in a violation: section 5.

### Manager

`manager` - one Bucket, one access and its Secret; five deployments (namespaced
and cluster-wide RBAC, a service account, a token file that may be unreadable, a
malformed gate); memberships that are there, fail, or do not name the
organisation; crashes, failed calls, rollouts, changed files, edits, rotation,
suspension, deletion, an edited Secret; one fault, one edit. The initial states
hold objects that earlier managers or users left - live, suspended, suspended and
being deleted - so that one edit is always the second thing to happen to them.
- `NeverForgotten`: an object that exists and is not suspended has a request, a
  timer, a running pass or an event on its way, in every state of a serving
  manager.
- `NothingMissed`: when only timers are left, the last pass of each object saw its
  spec and suspension as they are, its Buckets as they are, and not a Secret that
  has gone since. So these changes take effect at once, not at the next timer.
- `Served`, `Finalized`: in the end rotations are done and Secrets are right, also
  where only a timer notices; deletions are finished unless suspended.
- `SameOrganisation`: no start lands in another organisation than the one before.
- `Readiness`: a deployment that can start ends up ready for good.

**Bounds.** The properties are about one object, so a second BucketAccess or Bucket
adds nothing except in the shared policy, where there are two, and in the queues,
where the proofs cover any number. A fault or a crash at any step, in `repair`
together with a second one and in `bucket` with a late write, and two edits at any
step cover each pair the code distinguishes: an interrupted action, and an
interruption of its repair. `MaxCredentials`, `MaxAccounts` and `MaxBuckets` are
limits of the services, and a refusal beyond them is an error the code handles.
`MaxBuckets` is so high in `bucket` that the creations of everybody together do not
reach it.

**Deadlock** is not checked: an object that is gone, or suspended, rests, and a
deployment that cannot start fails for ever.

## 4. Fairness

- `WF(Pass)`: every pass ends in a requeue (10 minutes when Ready, 5 to 30 seconds
  while waiting, the rate-limited queue on error), and every call returns. So
  while an object exists its worker keeps taking steps. `Requests` has the requeues
  themselves, and `NeverForgotten` says that none is missing.
- `WF(SyncAccess)`, `WF(SyncSecret)`, `WF(SyncBucket)`, `WF(Deliver)`, `WF(Map)`:
  informers deliver.
- `WF(BecomesReady)`: the service finishes provisioning.
- `SF(LuckyPick)`: six random hex digits do not hit taken names for ever.
- `BucketPolicy`: each controller's pass takes seconds and comes minutes apart, so
  it is not the case that every pass overlaps with one of the other: strong
  fairness of the Bucket controller's read and write while the other is idle, and
  of each access's read and lone write. Without it, two controllers that overlap
  in lockstep undo each other's write for ever.
- `Manager`: the process is launched again and its start proceeds; timers elapse;
  the queue is first in, first out, so that a request is taken in the end although
  the worker is busy with others again and again (strong fairness of `Begin`); a
  pass ends.

No fairness is assumed of users, other owners or faults. `repair` lets informers
deliver at once, `bucket` lets one write come late: with unbounded lag at the
wrong moments a status written from a stale copy could overwrite a newer one again
and again.

## 5. What the code does differently

Each is the counterexample of a run.

1. `edited_refs` (documentation). BA 172-179 grants the current `bucketRefs` and
   replaces `status.grantedBuckets`, which the API says "lists Thalassa bucket
   names that currently have the managed policy grant". A bucket taken out of
   `bucketRefs` keeps its statement, is no longer listed, and Terminate does
   not remove it.
2. `no_namespace` (bug). `setErrorCondition` returns no error for a Kubernetes
   NotFound (BA 700). When the Secret's namespace does not exist,
   `ensureManagedCredentials` therefore returns no error and empty results, and the
   pass grants to an empty principal and reports Ready.
3. `cancel_rotation` (bug). A rotation retires the old key before the new one is
   recorded; if that write fails the new one is deleted too. When the annotation is
   then removed, BA 420 keeps the Secret's dead key for good.
4. `stale_secret` (bug). A retry that comes before the informer has seen the Secret
   just written takes it for missing: it deletes the credential in it, mints and
   records another, and cannot create the Secret. The next pass sees the Secret,
   keeps its material and reports Ready with the deleted key, although BA 257 says
   that retries "can then reuse status.accessCredentialId + Secret material".
5. `foreign_base` (bug). `provisionedBucketName` answers the base name for a fixed
   name that status never recorded (B 130). An object that was refused the name
   because it belongs to somebody else deletes that bucket when it is deleted.
6. `policy_ghost` (documentation). The Bucket controller writes back a statement it
   read before the BucketAccess was deleted, and every later merge keeps it.

## 6. Known gaps that no run states

Seen while modelling, and the reason why some runs leave some trouble out:

- The Bucket controller's write (B 320) carries the statements of the policy it read
  before (B 299). A grant made in between is dropped, although the merge is there "so
  user policy updates do not revoke grants" (B 361): a BucketAccess reports Ready
  without its statement until its next pass, ten minutes later at most. This is
  the exception in `GrantedIsGranted`; that the grant comes back is `Converges` of
  `repair` and of `policy_races`. A statement that it brings back is `policy_ghost`.
- A Secret created between the check and `CreateOrUpdate`'s own read (BA 542-569)
  is taken over: the mutate function does not repeat the ownership check.
- `readSecretCredentials` takes the key material of any Secret, whoever owns it
  (BA 420, 495-506). When somebody else's Secret is deleted between that read and
  the ownership check, its key is written into our Secret, and the object reports
  Ready with a key that is not on its account.
- Names of buckets are compared, not identities: when a bucket is deleted by others
  and its name taken again between the handler's read and its Update, the new one's
  settings are changed (`reuse` of `Bucket`, left out of `bucket`).
- A status written from a stale copy of the object can overwrite the identity of a
  live credential, which nobody tracks then. `strays` keeps the object's copy
  current for that reason.
- A switch to external mode forgets the managed credential, which lives on with its
  account; deleting the object in external mode then leaves both.
- When the namespace of the Secret is no longer listed, each pass drops the working
  credential and mints another before its write fails (BA 434, 496).
- A Secret that vanishes between a stale read and its update gives the NotFound of
  finding 2 as well, and then `GrantedIsGranted` fails.
- Permissions that are no longer accepted end the pass before the grants (BA 138):
  the grant of the earlier spec stays.
- A crash between creating a bucket and recording its name locks the object out of
  its own bucket when the name is fixed and the labels do not permit adoption.
- Objects `a.b` and `a-b` of one namespace share a Sid (`SidAssumption`).
- A Secret in another namespace is not deleted by Terminate, and its changes wake
  nobody.
- A watch that is interrupted merges a deletion and the re-creation of a name into
  one update, which `primaryResourceUpdate` may ignore; in the model a name is
  created again only after the informer has seen it free.
- `NewClientFromEnv` reads both secret files before it chooses: an unreadable one
  ends the start though it would not be needed.
- `status.appliedPermissions` is assigned before the grants (BA 141) and may be
  saved by a pass that fails at them; the field is not modelled.

## 7. The proofs

Every invariant and every action property that a passing run checks is also a
theorem, for all sets of objects, buckets and organisations, all bounds and, unless
the second column says otherwise, every `Env`.

| Theorem | Property | Holds unless | Inductive invariant |
|---|---|---|---|
| *`BucketAccessProofs`* | | | |
| `TypeCorrect` | `TypeOK` | | itself |
| `NeverTwoServiceAccounts` | `OneServiceAccount` | | `TypeOK`, `AccountInv` |
| `ForeignAccountNeverTouched` | `ForeignAccountUntouched` | | `TypeOK`, `ForeignInv` |
| `DeletionIsClean` | `CleanDeletion` (with its exception) | | `TypeOK`, `ForeignInv`, `HomeInv`, `TerminateInv`, `LifecycleInv` |
| *`BucketAccessRefinement`* | | | |
| `ImplementsOwnership` | `Implements` (with its exception) | | all of the above, `DeletionInv`, `IssueInv`, `PrincipalInv` |
| *`BucketAccessGrantProofs`* | | | |
| `ReadyMeansGranted` | `GrantedIsGranted` (with its exception) | `noNamespace`, or `secretLag` with `deleteSecret` | `TypeOK`, `NotFoundInv`, `DeletionInv`, `GrantInv` |
| `ForeignSecretUntouched` | `ForeignSecretKept` | `racingSecret` | `TypeOK`, `ForeignSecretInv` |
| *`BucketAccessCredentialProofs`* | | | |
| `StraysStayBounded` | `StraysBounded` | `accessLag` | `TypeOK`, `AccountInv`, `ForeignInv`, `HomeInv`, `CurrentInv`, `TrackInv`, `StrayInv` |
| *`BucketAccessKeyProofs`* | | | |
| `RotationIsComplete` | `RotationComplete` | | `TypeOK`, `KeysInv`, `IssueInv`, `RotateInv` |
| `WorkingKeyIsKept` | `WorkingKeyKept` | `accessLag`, `secretLag`, `switchMode`, `unlist` | `TypeOK`, `CurrentInv`, `KeepInv` |
| `ReadyMeansUsable` | `SecretUsable` | these four, `cancelRotation`, `noNamespace`, or `deleteSecret` with `foreignSecret` or `racingSecret` | all of `BucketAccess` but `StrayInv`, `TrackInv` and those of Terminate; `UsableInv` |
| *`BucketProofs`* | | | |
| `TypeCorrect` | `TypeOK` | | `TypeOK`, `ServiceInv` |
| `BucketGoesWithObject` | `BucketGone` | | with `LifecycleInv`, `GoneInv` |
| `ForeignBuckets` | `ForeignBucketSpared` | `reuse` | with `NameInv` |
| `TakenOnlyByRight` | `TakenByRight` | | `TypeOK`, `ServiceInv` |
| `OrphansStayBounded` | `OrphansBounded` | | with `LifecycleInv`, `OrphanInv` |
| *`BucketPolicyProofs`* | | | |
| `TypeCorrect`, `OneGrantPerObject` | `TypeOK`, `OneStatementPerAccess` | | `TypeOK`, `WorkerInv`, `UniqueInv` |
| `GhostsHaveReasons`, `NothingElseIsTouched` | `GhostsExplained`, `OthersKept` | | the same |
| `MergeIsIdempotent` | | | (about an operator) |
| *`ManagerProofs`* | | | |
| `NeverForgottenHolds`, `NothingMissedHolds` | `NeverForgotten`, `NothingMissed` | | `IInv` of the module |
| `SameOrganisationHolds` | `SameOrganisation` | | `OrgInv` |
| `TypeCorrect` | `TypeOK` | | `IInv`, `OrgInv`, `ProcessInv`, `Budgets` |

The hypotheses are not for the provers' sake. Without them the code does otherwise:
`stale_secret`, `no_namespace` and `cancel_rotation` are runs in which `secretLag`,
`noNamespace` or `cancelRotation` alone violates `SecretUsable`, and each of the
other kinds in the third column, added to a small instance, leads TLC to a
counterexample as well; section 6 says in words what happens. They leave much in:
`ReadyMeansUsable`, the narrowest, still speaks of crashes, failed and lost calls,
rotations, edited references, buckets that come and go, policies written back,
suspension, deletion, and either lost Secrets or Secrets of others, all of them in
any number and order - the troubles of `repair` and more, without its bounds.

**BucketAccess: accounts and deletion** (`BucketAccessProofs`).

- `AccountInv`: the property alone is not inductive, since a worker about to create
  an account might have seen another. The phase `createAccount` is entered only
  where the search by label came back empty, and nobody else creates ours.
- `ForeignInv`: from the choice of an account to the minting on it, and from
  Terminate's ownership check to the deletion, the account at hand is not the
  external one - whatever is written to status meanwhile.
- `HomeInv`: credentials live on accounts that exist, so without the account there
  is no credential.
- `TerminateInv`: while Terminate works its list down, statements on recorded
  buckets are on buckets still to do; afterwards there are none, and before the
  finalizer goes the recorded account is gone. It speaks of the pass's own copy, and
  of the statements that stand (`Standing`): `BucketControllerStands` says that a
  policy written back adds none to them, the lemmas beside it what a grant, a removal
  and every other step do.
- `LifecycleInv` ties that copy to the object: the Update of the finalizer is
  accepted only when nothing changed since the copy was read; and before the
  finalizer was there nothing was recorded, so an object that is deleted without
  one has nothing to clean up.
- `DeletionInv` (the deletion is not taken back, and no copy is ahead of it) and
  `IssueInv` (identities are given out once) serve the modules that follow.

**Grants and Secrets of others** (`BucketAccessGrantProofs`). `GrantInv` records how
far a pass has come: what it took off its list of buckets has the statement or was
overwritten by the Bucket controller since, the principal in its locals is the one in
its copy, and no status says Ready before the end. The one way around is a NotFound
from the Secret that passes for a success; `NotFoundInv` says that it does not occur
when the namespace exists and a Secret that is gone does not show. `ForeignSecretInv`
says that a foreign Secret is seen as such by the time a write is under way, also
through a lagging informer, since such a Secret is there before ours or not at all.

**Stray credentials** (`BucketAccessCredentialProofs`). `StraysBounded` counts
between passes; the proof has to count inside them. `StrayInv` gives, phase by
phase, how many credentials the copy at hand does not name and how many more are
about to be forgotten, within the budget of faults and edits: one in hand while a
new credential replaces an old one, one for a switch to external mode that has been
paid for by its edit but not carried out. Each step either moves a credential
between these accounts or spends a fault. Counting itself is a handful of lemmas
about cardinalities at the head of the module. `TrackInv` says that a pass's copy
names the credential of the object or none. All credentials are on one account
(`OneHome`, from `AccountInv`, `ForeignInv` and `HomeInv`), so an identity names
one of them. `CurrentInv` is what the absence of lag means.

**The key in the Secret** (`BucketAccessKeyProofs`). Its first half is one lemma
per action, which says what the action does to the few fields that matter.
- `KeysInv`, `RotateInv`: no key is stored before it is issued; so while a rotated
  credential is on its way to the Secret its key is nowhere, and afterwards the
  Secret, if it is ours, has that key and no other. This needs no hypothesis.
  `SecretRemembered`: that our Secret was deleted is not forgotten until a pass
  writes it again.
- `KeepInv`: as long as our Secret is there the tracked credential is not
  forgotten, and then a pass without a rotation drops, replaces or undoes
  nothing that is in use. It fails as soon as a pass may take a Secret for missing
  (lag, an unlisted namespace), work from an older status, or return from external
  mode, where an adopted credential counts as new and is undone when its status
  write fails (BA 249).
- `UsableInv`: while no rotation is pending our Secret's key lives on the account
  that status names; the key that is to be written lives there too; and whoever
  reports Ready has our Secret. Others may put theirs under the name as long as
  it is not deleted again, since then the pass ends at the ownership check. That
  status goes on to name the same account when a pass looks for it anew is
  `SameAccount`, again from the three invariants about accounts.

**The refinement** (`BucketAccessRefinement`). `Ownership` sees the object's phase,
what its status claims, our accounts, the credentials and the statements; it is
instantiated with these parts of `BucketAccess`. The proof groups the actions by
what they change: nothing that `Ownership` sees (a stutter), the claims (`Claim`),
one statement (`Grant`, `Revoke`), an account or a credential (`Acquire`, `Mint`,
`Retire`, `Release`), the phase (`RequestDeletion`, `Depart`). The guards of the
abstract steps need three more invariants: `DeletionInv` (an account is released
only after the deletion was asked for), `IssueInv`, and `PrincipalInv` (a grant's
principal is ours, external or nobody). `Depart` rests on `LifecycleInv`. A policy
that the Bucket controller writes back with a change is `Revoke`: the bucket's
statement no longer stands.

**Buckets** (`BucketProofs`). `ServiceInv` is what the storage service guarantees:
an identity and a name belong to one bucket. `GoneInv` follows a deletion from the
copy that Terminate read to the bucket that is gone. `NameInv`: a name that was
given to this object, which is all that status, the informer's copy and the pass's
locals ever hold, is the name of a bucket of ours as long as nobody takes it over.
`OrphanInv` bounds the buckets that each of the three copies of the status does not
name, because a late write may put any of them back; the pass that is about to
create one when the informer lags must have one to spare.

**Policies** (`BucketPolicyProofs`). Policies are sequences, so the operators have
to be understood first: which statements `Only` keeps and in which order, what an
upsert, a removal and a merge leave, and that a merge done twice is a merge done
once (`MergeIsIdempotent`), which is why the Bucket controller's test is satisfied
by its own update. These lemmas are proved by induction over the sequence: as an
operator cannot be instantiated, `PolicyInduction` speaks of the *set* of policies
for which a fact holds. `Only` is a recursive function rather than a `SelectSeq`
because the latter takes an operator. `UniqueInv` then says that every document a
worker holds has one statement per object, like the bucket; `WorkerInv`, that
a worker only writes for an object that exists and whose permissions were accepted.

**The queues** (`ManagerProofs`). The argument follows an object from the API
server through the cache to the last pass. `Coherent`: the cached object is the
server's at an earlier time, and equal generations mean equal deletion marks and
references. `Awake`: a cached object that is not suspended is queued, timed or
running, and one that became so while its pass, which saw it suspended, is
running, is queued. `Noticed`: a last pass that saw another spec than the
cache has now is followed by a request in the queue, and one that saw another
Bucket by a request or by a mapping that is due. The case that makes `Noticed` more
than a restatement is a Bucket's event whose mapping misses a reference that the
informer of accesses does not show yet: the access's own event is then still to
come, and with it a pass that reads the Bucket. `Types` says that what is deleted
without a finalizer is gone at once.

**The organisation** (`ManagerProofs`). Whatever a start resolves matches the
configured name (`OrgInv`; for the last membership in a list this needs that a
finite set of numbers has a greatest one, `LastExists`), rollouts and remounts keep
that name, and by `UnambiguousAssumption` it names one organisation.

**Types of the manager** (`ManagerProofs`). Most of `Manager`'s `TypeOK` follows
from `IInv`; that a process which has started its informers works in an
organisation of the configured name follows from the lemmas on resolution
(`ProcessInv`), and survives edits of the deployment because those restart it.

The assumptions are stated in the modules that declare the constants, and the runs
evaluate them: bounds are numbers; external identities differ from ours
(`IdentityAssumption`); objects have distinct names, and accesses distinct Secrets
(`RequestsAssumption`); objects have distinct Sids and users keep away from the
prefixes of ours (`SidAssumption`), presets are allowlisted
(`PermissionAssumption`), and policies that were there before have no Sid of ours
twice (`PolicyAssumption`); what users left is well typed (`StartsAssumption`);
memberships are lists of organisations (`CloudsAssumption`); a name is the identity
or slug of one organisation only (`UnambiguousAssumption`, which the service has to
guarantee).

Only model-checked is liveness: `Converges` and `DeletionCompletes` of both
controllers, `Converges` and `Settles` of the policies, `Served`, `Finalized` and
`Readiness` of the manager. It needs ENABLED and fairness, which are out of the
prover's reach. The violations of section 5 are counterexamples and need no proof.

## 8. Plan

Done: both controllers, their policies, start-up, events and queues, each with its
runs; theorems for every invariant and action property of the passing runs; the
refinement of `Ownership`.

To do, the most important first:

1. **Refinement of the policy**: that `BucketPolicy`, seen as the set of statements
   with one object's Sid, implements `GrantBucket`, `RevokeGranted`, `ReadPolicy` and
   `WritePolicy` of `BucketAccess`, where the handler's read stutters.
2. **Pure algorithms**: bucket names (truncation with a suffix) and labels.
3. **Two managers** without leader election.

### Not modelled

Generated code, type registration, the chart's templates, manifests and the e2e
suite keep no state of the program. HTTP, token refresh, metrics, TLS, logs and
events have no effect on what the controllers decide. Region resolution, labels
and the formation of bucket names are formatting as far as the properties go.
