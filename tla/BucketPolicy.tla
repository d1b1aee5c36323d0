---------------------------- MODULE BucketPolicy ----------------------------
(***************************************************************************)
(* One bucket of the object storage service and the two controllers that   *)
(* write it: the Bucket controller writes settings and spec.policy, the    *)
(* BucketAccess controller one statement per BucketAccess object. Each     *)
(* reads the bucket, computes the whole document and writes it back in a   *)
(* second call; UpdateBucket carries no version. The controllers run       *)
(* concurrently, each with one worker.                                     *)
(*                                                                         *)
(* A policy is the sequence of its statements; of a statement there are    *)
(* the Sid and the set of actions. A name is a sequence of characters, a   *)
(* Sid such a sequence after a prefix. Principals, identities and status   *)
(* are the subject of modules Bucket and BucketAccess.                     *)
(***************************************************************************)
EXTENDS Naturals, Sequences, SequencesExt

CONSTANTS Characters,   \* what names and Sids are made of
          Accesses,     \* BucketAccess objects on the bucket: [ns, name]
          Requests,     \* what they may ask for: [preset, custom]
          ServiceActions, \* the actions of the object storage service
          ReadOnlyPermissions, ReadWritePermissions, AllowedActions,
          Blank,        \* an entry of spec.permissions that is only spaces
          Refused,      \* the error of ResolvePermissions
          UserPolicies, \* values of spec.policy
          NoPolicy,     \* the empty spec.policy
          LegacyPolicy, \* what is on the bucket before the controllers start
          Settings,     \* the rest of a bucket's configuration
          MaxFaults,    \* bound on failed calls and crashes
          MaxEdits      \* bound on what users do

-----------------------------------------------------------------------------
(* Sids. What is neither letter, digit nor hyphen becomes a hyphen: of what  *)
(* Kubernetes allows in a name, the dot.                                     *)

Prefix == <<"tosm">>
LegacyPrefix == <<"thalassa-objectstorage-manager">>

SanitizeSidPart(s) ==
    IF s = << >> THEN <<"x">>
    ELSE [i \in DOMAIN s |-> IF s[i] = "." THEN "-" ELSE s[i]]

ManagedSid(a) ==
    Prefix \o <<"-">> \o SanitizeSidPart(a.ns) \o <<"-">> \o SanitizeSidPart(a.name)

Sid == [a \in Accesses |-> ManagedSid(a)]

IsManagedSid(sid) ==
    IsPrefix(Prefix \o <<"-">>, sid) \/ IsPrefix(LegacyPrefix \o <<"/">>, sid)

SidsOf(policy) == {policy[i].sid : i \in DOMAIN policy}

ASSUME PolicyBounds == MaxFaults \in Nat /\ MaxEdits \in Nat

(* The objects have distinct Sids: their names differ in more than dots and  *)
(* hyphens. Users keep away from the prefixes.                               *)
ASSUME SidAssumption ==
    /\ IsInjective(Sid)
    /\ \A p \in UserPolicies : \A sid \in SidsOf(p) : ~IsManagedSid(sid)
    /\ NoPolicy \notin UserPolicies

ASSUME PermissionAssumption ==
    /\ ReadOnlyPermissions \subseteq ReadWritePermissions
    /\ ReadWritePermissions \subseteq AllowedActions
    /\ AllowedActions \subseteq ServiceActions
    /\ Blank \notin AllowedActions

-----------------------------------------------------------------------------
(* Permissions                                                               *)

ResolvePermissions_Unchecked(r) ==
    IF r.custom # {} THEN r.custom \ {Blank}
    ELSE IF r.preset = "ReadOnly" THEN ReadOnlyPermissions
    ELSE ReadWritePermissions

(* spec.permissions, all of them allowlisted, or else the preset.            *)
ResolvePermissions(r) ==
    LET custom == r.custom \ {Blank} IN
    IF r.custom # {}
    THEN IF custom # {} /\ custom \subseteq AllowedActions
         THEN custom ELSE Refused
    ELSE CASE r.preset \in {"", "ReadWrite"} -> ReadWritePermissions
           [] r.preset = "ReadOnly" -> ReadOnlyPermissions
           [] OTHER -> Refused

Actions(a) == ResolvePermissions(a.request)

VARIABLES
    remote,  \* the bucket in the service: settings and policy
    spec,    \* the Bucket object's spec: settings and policy
    access,  \* the BucketAccess objects: phase and requested permissions
    bw,      \* the Bucket worker between its read and its write
    aw,      \* the BucketAccess worker, likewise
    faults, edits

vars == <<remote, spec, access, bw, aw, faults, edits>>

Access == [phase : {"live", "deleting", "gone"}, request : Requests,
           granted : BOOLEAN]  \* is the bucket in status.grantedBuckets?
Idle == [pc |-> "idle"]

Fail == faults < MaxFaults /\ faults' = faults + 1

-----------------------------------------------------------------------------
(* The documents that the controllers compute. Each operator that a mutant   *)
(* replaces is preceded by the mutated form.                                 *)

ManagedSids(policy) == {sid \in SidsOf(policy) : IsManagedSid(sid)}
Defines(policy, sid) == sid \in SidsOf(policy)

Upserted_Appended(policy, s) == Append(policy, s)

(* UpsertManagedStatement: in place, or at the end.                          *)
Upserted(policy, s) ==
    IF Defines(policy, s.sid)
    THEN [i \in DOMAIN policy |->
             IF policy[i].sid = s.sid THEN s ELSE policy[i]]
    ELSE Append(policy, s)

(* The statements with these Sids, in their order.                           *)
Only(policy, sids) ==
    LET only[n \in 0..Len(policy)] ==
           IF n = 0 THEN << >>
           ELSE IF policy[n].sid \in sids THEN Append(only[n - 1], policy[n])
           ELSE only[n - 1]
    IN only[Len(policy)]

(* RemoveManagedStatement                                                    *)
Removed(policy, sid) == Only(policy, SidsOf(policy) \ {sid})

Merged_SpecOnly(desired, current) == desired

(* mergePreservingManagedStatements                                          *)
Merged(desired, current) ==
    desired \o Only(current, ManagedSids(current) \ SidsOf(desired))

(* buildUpdateRequest leaves the policy out when spec.policy is empty.       *)
WrittenPolicy(want, fetched, current) ==
    IF want.policy = NoPolicy THEN current.policy
    ELSE Merged(want.policy, fetched.policy)

RequiresUpdate_PolicyAsWritten(want, found) ==
    \/ want.settings # found.settings
    \/ want.policy # NoPolicy /\ want.policy # found.policy

(* bucketRequiresUpdate                                                      *)
RequiresUpdate(want, found) ==
    \/ want.settings # found.settings
    \/ /\ want.policy # NoPolicy
       /\ Merged(want.policy, found.policy) # found.policy

-----------------------------------------------------------------------------
Init ==
    /\ \E s \in Settings, p \in UserPolicies \cup {NoPolicy} :
          spec = [settings |-> s, policy |-> p]
    /\ remote = [settings |-> spec.settings, policy |-> LegacyPolicy]
    /\ access \in [Accesses -> [phase : {"live"}, request : Requests,
                               granted : {FALSE}]]
    /\ bw = Idle /\ aw = Idle
    /\ faults = 0 /\ edits = 0

-----------------------------------------------------------------------------
(* bucket.Handler.reconcileBucket                                            *)

BucketRead ==
    /\ bw = Idle /\ RequiresUpdate(spec, remote)
    /\ bw' = [pc |-> "write", want |-> spec, fetched |-> remote]
    /\ UNCHANGED <<remote, spec, access, aw, faults, edits>>

BucketWrite ==
    /\ bw # Idle /\ bw' = Idle
    /\ \/ /\ remote' = [settings |-> bw.want.settings,
                        policy |-> WrittenPolicy(bw.want, bw.fetched, remote)]
          /\ UNCHANGED faults
       \/ Fail /\ UNCHANGED remote
    /\ UNCHANGED <<spec, access, aw, edits>>

-----------------------------------------------------------------------------
(* ensureBucketGrant in the BucketAccess handler's Reconcile,                *)
(* removeBucketGrant in its Terminate. Both write even when nothing changes. *)
(* Permissions that are refused end the pass before it reads.                *)

AccessRead ==
    /\ aw = Idle
    /\ \E a \in Accesses :
          /\ \/ access[a].phase = "live" /\ Actions(access[a]) # Refused
             \/ access[a].phase = "deleting"
          /\ aw' = [pc |-> "write", of |-> a, want |-> access[a],
                    fetched |-> remote]
    /\ UNCHANGED <<remote, spec, access, bw, faults, edits>>

Grant(a) ==
    /\ aw.want.phase = "live"
    /\ LET granted == [aw.fetched EXCEPT !.policy =
                          Upserted(@, [sid |-> Sid[a], actions |-> Actions(aw.want)])]
       IN \/ /\ remote' = granted /\ UNCHANGED faults
             /\ access' = [access EXCEPT ![a].granted = TRUE]
          \/ Fail /\ remote' \in {remote, granted} /\ UNCHANGED access

Forgiven_Always(a) == TRUE

(* An error of a removal ends the pass only if status lists the bucket; the  *)
(* sweep over the referenced buckets ignores it.                             *)
Forgiven(a) == ~a.granted

Revoke(a) ==
    /\ aw.want.phase = "deleting"
    /\ LET revoked == [aw.fetched EXCEPT !.policy = Removed(@, Sid[a])]
           Gone == access' = [access EXCEPT ![a].phase = "gone",
                                            ![a].granted = FALSE]
       IN \/ remote' = revoked /\ Gone /\ UNCHANGED faults
          \/ /\ Fail /\ remote' \in {remote, revoked}
             /\ IF Forgiven(aw.want) THEN Gone ELSE UNCHANGED access

AccessWrite ==
    /\ aw # Idle /\ aw' = Idle
    /\ Grant(aw.of) \/ Revoke(aw.of)
    /\ UNCHANGED <<spec, bw, edits>>

-----------------------------------------------------------------------------
(* kubectl: the Bucket's spec, and the life of BucketAccess objects.         *)
Users ==
    /\ edits < MaxEdits /\ edits' = edits + 1
    /\ \/ /\ \E s \in Settings, p \in UserPolicies \cup {NoPolicy} :
                spec' = [settings |-> s, policy |-> p]
          /\ UNCHANGED access
       \/ /\ \E a \in Accesses, r \in Requests :
                \/ /\ access[a].phase \in {"live", "gone"}
                   /\ access' = [access EXCEPT ![a].phase = "live",
                                               ![a].request = r]
                \/ /\ access[a].phase = "live"
                   /\ access' = [access EXCEPT ![a].phase = "deleting"]
          /\ UNCHANGED spec
    /\ UNCHANGED <<remote, bw, aw, faults>>

-----------------------------------------------------------------------------
Pass == BucketRead \/ BucketWrite \/ AccessRead \/ AccessWrite

Next == Pass \/ Users

Spec == Init /\ [][Next]_vars

(* Each controller runs its passes again and again, minutes apart: they do   *)
(* not overlap with the other's, nor serve one object only, for ever.        *)
AccessWriteAlone(a) == aw # Idle /\ aw.of = a /\ bw = Idle /\ AccessWrite
Fairness ==
    /\ WF_vars(BucketWrite) /\ WF_vars(AccessWrite)
    /\ SF_vars(BucketRead /\ aw = Idle)
    /\ SF_vars(BucketWrite /\ aw = Idle)
    /\ \A a \in Accesses : SF_vars(AccessRead /\ aw'.of = a)
                           /\ SF_vars(AccessWriteAlone(a))
FairSpec == Spec /\ Fairness

-----------------------------------------------------------------------------
(* A statement under the Sid of an object carries allowlisted actions only   *)
(* (README.md: "Admin actions ... are rejected"), whatever objects ask for.  *)
Statements ==
    {s \in [sid : Seq(Characters), actions : SUBSET ServiceActions] :
        s.sid \in Range(Sid) => s.actions \subseteq AllowedActions}
Documents == [settings : Settings, policy : Seq(Statements)]
Specs == [settings : Settings, policy : UserPolicies \cup {NoPolicy}]

Unique(policy, sid) ==
    \A i, j \in DOMAIN policy :
        policy[i].sid = sid /\ policy[j].sid = sid => i = j

(* What was on the bucket before: no object has two statements there.        *)
ASSUME PolicyAssumption ==
    /\ Prefix \in Seq(Characters) /\ {"-", "x"} \subseteq Characters
    /\ Accesses \subseteq [ns : Seq(Characters), name : Seq(Characters)]
    /\ UserPolicies \subseteq Seq(Statements)
    /\ LegacyPolicy \in Seq(Statements)
    /\ \A a \in Accesses : Unique(LegacyPolicy, Sid[a])

(* Every variable has its type.                                              *)
TypeOK ==
    /\ remote \in Documents
    /\ spec \in Specs
    /\ access \in [Accesses -> Access]
    /\ bw \in {Idle} \cup [pc : {"write"}, want : Specs, fetched : Documents]
    /\ aw \in {Idle} \cup [pc : {"write"}, of : Accesses, want : Access,
                           fetched : Documents]
    /\ faults \in 0..MaxFaults /\ edits \in 0..MaxEdits

Ghosts == {a \in Accesses : /\ access[a].phase = "gone"
                            /\ Defines(remote.policy, Sid[a])}

(* "Deleting this CR removes the managed policy Sid" (hack/samples): what is *)
(* gone has no statement on the bucket.                                      *)
DeletedGrantsGone == Ghosts = {}

(* What is gone gets its statement back, or keeps it, in three ways only:    *)
(* a controller writes back what it read before somebody else's write, or    *)
(* the removal failed for a bucket that status did not list.                 *)
GhostsExplained ==
    [][~(Ghosts' \subseteq Ghosts) =>
          \/ BucketWrite /\ bw.fetched # remote
          \/ AccessWrite /\ aw.fetched # remote
          \/ AccessWrite /\ faults' # faults /\ ~aw.want.granted]_vars

ManagedPart(policy) == Only(policy, ManagedSids(policy))

(* Unless the bucket changed between its read and its write, the Bucket      *)
(* controller leaves every managed statement as it is, and the BucketAccess  *)
(* controller all that is not its own statement.                             *)
OthersKept ==
    [][/\ (BucketWrite /\ bw.fetched = remote)
             => ManagedPart(remote'.policy) = ManagedPart(remote.policy)
       /\ (AccessWrite /\ aw.fetched = remote)
             => /\ remote'.settings = remote.settings
                /\ Removed(remote'.policy, Sid[aw.of])
                      = Removed(remote.policy, Sid[aw.of])]_vars

(* A Sid names one statement, however often grants are repeated and races    *)
(* lose them.                                                                *)
OneStatementPerAccess == \A a \in Accesses : Unique(remote.policy, Sid[a])

(* Once edits stop, every live object whose permissions are accepted has its *)
(* grant for good, as it asks for it, and the bucket has the settings and    *)
(* the statements of its spec: what a race loses, a later pass repairs.      *)
Converges ==
    <>[](/\ \A a \in Accesses :
               (access[a].phase = "live" /\ Actions(access[a]) # Refused) =>
                  Contains(remote.policy, [sid |-> Sid[a],
                                           actions |-> Actions(access[a])])
         /\ ~RequiresUpdate(spec, remote))

(* The Bucket controller comes to rest: its update satisfies its own test    *)
(* for an update, whatever order the statements are in.                      *)
Settles == <>[][~BucketWrite]_vars

-----------------------------------------------------------------------------
(* Inductive strengthenings, for the proofs.                                 *)

(* The one worker of BucketAccess objects is the one to let an object go, and *)
(* it writes accepted permissions only.                                      *)
WorkerInv ==
    aw # Idle =>
        /\ access[aw.of].phase # "gone"
        /\ aw.want.phase = "live" => Actions(aw.want) # Refused

(* What a worker has read and will write back has one statement per access.  *)
UniqueInv ==
    \A a \in Accesses :
        /\ Unique(remote.policy, Sid[a])
        /\ bw # Idle => Unique(bw.fetched.policy, Sid[a])
        /\ aw # Idle => Unique(aw.fetched.policy, Sid[a])
=============================================================================
