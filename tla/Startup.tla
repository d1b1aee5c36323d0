------------------------------ MODULE Startup ------------------------------
(***************************************************************************)
(* The manager process from its launch to the moment its controllers run:  *)
(* it reads flags and files, authenticates, resolves the organisation it   *)
(* works in, and starts informers and workers. Whatever goes wrong on the  *)
(* way ends the process; Kubernetes launches it again.                     *)
(*                                                                         *)
(* A name is a model value; Fold gives the names that differ only in case  *)
(* the same value. Flags that only shape logs, metrics, TLS and URLs are   *)
(* left out, and so is every constructor that can fail (mgr, osClient, ...). *)
(***************************************************************************)
EXTENDS Naturals, Sequences, SequencesExt

CONSTANTS Organisations, \* [identity, slug]: all there are
          Fold,          \* a name without its case
          Blank,         \* the empty string
          NotFound,      \* a lookup that failed
          Refused,       \* a setting that is rejected
          Cluster,       \* informer or RBAC for Secrets of every namespace
          Namespaces,    \* well-formed namespace names
          Configs,       \* flags, mounted files and RBAC of a deployment
          Clouds,        \* what the service answers: memberships, own
          MaxFaults,     \* bound on failed calls and crashes
          MaxEdits       \* bound on what users do

ASSUME StartupBounds == MaxFaults \in Nat /\ MaxEdits \in Nat

(* A name is the identity or the slug of one organisation only.              *)
Matches(o, ref) == o.identity = ref \/ Fold[o.slug] = Fold[ref]
ASSUME UnambiguousAssumption ==
    \A c \in Configs : \A o1, o2 \in Organisations :
        (Matches(o1, c.organisation) /\ Matches(o2, c.organisation)) => o1 = o2

ASSUME ConfigsAssumption ==
    \A c \in Configs : "organisation" \in DOMAIN c

VARIABLES
    config,   \* what the next launch finds
    cloud,    \* per credential, the memberships; the account's organisation
    process,  \* pc, credential, organisation, Secret scope
    used,     \* the organisation that the last manager worked in
    faults, edits

startupVars == <<config, cloud, process, used>>

Credentials == {"exchange", "token", "client"}
ASSUME CloudsAssumption ==
    \A c \in Clouds :
        /\ c.own \in Organisations \cup {NotFound}
        /\ \A cred \in Credentials :
              \/ c.memberships[cred] = NotFound
              \/ c.memberships[cred] \in Seq(Organisations)

Down == [pc |-> "down", cred |-> Blank, org |-> Blank, scope |-> {}]

-----------------------------------------------------------------------------
(* Flags                                                                     *)

(* featuregates.Parse: known gates, Boolean values.                          *)
ParseGates(gates) ==
    IF \A i \in DOMAIN gates : /\ gates[i].name = "BucketAdoption"
                               /\ gates[i].value \in {"true", "false"}
    THEN gates # << >> /\ Last(gates).value = "true" ELSE Refused

(* secretref.ParseNamespaces: no blanks, no duplicates, valid names.         *)
ParseNamespaces(c) ==
    LET names == ToSet(c.namespaces) \ {Blank} IN
    IF names \subseteq Namespaces THEN names ELSE Refused

SecretCacheOptions_Ignored(c) == Cluster

SecretCacheOptions(c) ==
    IF c.anywhere \/ ParseNamespaces(c) = {} THEN Cluster
    ELSE ParseNamespaces(c)

FlagsAccepted(c) == Refused \notin {ParseGates(c.gates), ParseNamespaces(c)}

-----------------------------------------------------------------------------
(* NewClientFromEnv: a file wins over the inline value, and an unreadable    *)
(* one ends the start even if its credential would not be used.              *)
NewClientFromEnv(c) ==
    LET Given(file, inline) ==
            IF file = "none" THEN inline ELSE file = "filled"
    IN IF "unreadable" \in {c.tokenFile, c.secretFile} THEN Refused
       ELSE IF c.account /\ c.organisation # Blank THEN "exchange"
       ELSE IF Given(c.tokenFile, c.token) THEN "token"
       ELSE IF c.client /\ Given(c.secretFile, c.secret) THEN "client"
       ELSE Refused

-----------------------------------------------------------------------------
(* ResolveOrganisationIdentity                                               *)

(* An identity that is the reference, or the last slug that matches it.      *)
resolveFromMemberships(list, ref) ==
    LET last == SelectLastInSeq(list, LAMBDA o : /\ o.identity # Blank
                                                 /\ Fold[o.slug] = Fold[ref])
    IN IF \E i \in DOMAIN list : list[i].identity = ref THEN ref
       ELSE IF last = 0 THEN NotFound ELSE list[last].identity

resolveFromServiceAccount_Trusting(own, ref) ==
    IF own = NotFound \/ own.identity = Blank THEN NotFound ELSE own.identity

resolveFromServiceAccount(own, ref) ==
    IF own = NotFound THEN NotFound
    ELSE IF own.identity = Blank \/ ~Matches(own, ref) THEN NotFound
    ELSE own.identity

(* The service account's organisation only if memberships do not help.       *)
ResolveOrganisationIdentity(list, own, c) ==
    LET ref == c.organisation
        listed == IF list = NotFound THEN NotFound
                  ELSE resolveFromMemberships(list, ref)
    IN IF ref = Blank THEN NotFound
       ELSE IF listed # NotFound \/ ~c.account THEN listed
       ELSE resolveFromServiceAccount(own, ref)

-----------------------------------------------------------------------------
StartupInit ==
    /\ config \in Configs /\ cloud \in Clouds
    /\ process = Down /\ used = Blank

Fail == faults < MaxFaults /\ faults' = faults + 1
Keep == UNCHANGED <<config, cloud>>
Exit == process' = Down /\ UNCHANGED used

Launch ==
    /\ process.pc = "down"
    /\ process' = [process EXCEPT !.pc = "flags"]
    /\ UNCHANGED <<used, faults>> /\ Keep

(* main up to NewClientFromEnv: local work only.                             *)
Configure ==
    /\ process.pc = "flags"
    /\ IF FlagsAccepted(config) /\ NewClientFromEnv(config) # Refused
       THEN /\ process' = [process EXCEPT !.pc = "resolve",
                              !.cred = NewClientFromEnv(config),
                              !.scope = SecretCacheOptions(config)]
            /\ UNCHANGED used
       ELSE Exit
    /\ UNCHANGED faults /\ Keep

(* Two calls, each of which may fail; then SetOrganisation, the controllers  *)
(* and mgr.Start. They are one action: what comes between them cannot matter *)
(* while a name is one organisation's (UnambiguousAssumption).               *)
Resolve ==
    /\ process.pc = "resolve"
    /\ \E list \in {cloud.memberships[process.cred], NotFound},
          own \in {cloud.own, NotFound} :
          /\ IF list = cloud.memberships[process.cred] /\ own = cloud.own
             THEN UNCHANGED faults ELSE Fail
          /\ LET org == ResolveOrganisationIdentity(list, own, config) IN
             IF org = NotFound THEN Exit
             ELSE /\ process' = [process EXCEPT !.pc = "sync", !.org = org]
                  /\ used' = org
    /\ Keep

(* The chart's RBAC lets the informer of Secrets list what it watches.       *)
Covered(scope, rbac) ==
    rbac = Cluster \/ (scope # Cluster /\ scope \subseteq rbac)

(* WaitForCacheSync; without the permission to list it never returns.        *)
Synced ==
    /\ process.pc = "sync" /\ Covered(process.scope, config.rbac)
    /\ process' = [process EXCEPT !.pc = "serving"]
    /\ UNCHANGED <<used, faults>> /\ Keep

(* Asked by the kubelet                                                      *)
CacheSyncCheck == process.pc = "serving"

Crash == process.pc # "down" /\ Fail /\ Exit /\ Keep

(* Somebody edits the deployment, and Kubernetes replaces the process.       *)
Rollout ==
    /\ config' \in {c \in Configs \ {config} :
                      c.organisation = config.organisation}
    /\ Exit /\ UNCHANGED <<cloud, faults>>

(* A mounted file or what the service answers changes under the process.     *)
Remount ==
    /\ \/ /\ config' \in {c \in Configs \ {config} :
                            \A f \in DOMAIN c \ {"tokenFile", "secretFile"} :
                               c[f] = config[f]}
          /\ UNCHANGED cloud
       \/ cloud' \in Clouds \ {cloud} /\ UNCHANGED config
    /\ UNCHANGED <<process, used, faults>>

Starting == Launch \/ Configure \/ Resolve

-----------------------------------------------------------------------------
(* A launch gets through: nothing is malformed or missing, and an            *)
(* organisation of that name is among the memberships or is the account's.   *)
Startable ==
    LET cred == NewClientFromEnv(config)
        list == IF cred = Refused THEN NotFound ELSE cloud.memberships[cred]
        listed == IF list = NotFound THEN {} ELSE ToSet(list)
        own == IF config.account THEN {cloud.own} \ {NotFound} ELSE {}
    IN /\ FlagsAccepted(config) /\ cred # Refused /\ config.organisation # Blank
       /\ \E o \in listed \cup own :
             o.identity # Blank /\ Matches(o, config.organisation)
       /\ \/ config.rbac = Cluster
          \/ /\ ~config.anywhere
             /\ ParseNamespaces(config) \in (SUBSET config.rbac) \ {{}}

(* However it starts, with whichever credential and whether or not the       *)
(* service answers, a manager works in the organisation its predecessors     *)
(* worked in: the identity is part of every principal in a bucket policy.    *)
SameOrganisation == [][used # Blank => used' = used]_startupVars

(* A deployment that can start does so, and reports ready for good.          *)
Readiness == <>[](Startable => CacheSyncCheck)
=============================================================================
