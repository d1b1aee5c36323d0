----------------------------- MODULE MCManager -----------------------------
(* A small instance of Manager for TLC: one Bucket, one BucketAccess and its *)
(* Secret; deployments with namespaced and with cluster-wide RBAC; an        *)
(* account whose memberships come and go.                                    *)
EXTENDS Manager, TLC

CONSTANTS bucket1, access1, secret1

acme == [identity |-> "o-1", slug |-> "acme"]
other == [identity |-> "o-2", slug |-> "other"]
MCOrganisations == {acme, other}
MCFold == [x \in {"o-1", "o-2", "acme", "Acme", "other", ""} |->
             IF x = "Acme" THEN "acme" ELSE x]

(* The chart's namespaced deployment with a service account; one with a      *)
(* token file, its namespaces forgotten; one without.                        *)
chart == [gates |-> << >>, namespaces |-> <<"n", "", "m">>, anywhere |-> FALSE,
          organisation |-> "Acme", account |-> TRUE, token |-> FALSE,
          tokenFile |-> "none", client |-> FALSE, secret |-> FALSE,
          secretFile |-> "none", rbac |-> {"n", "m"}]
forgotten == [chart EXCEPT !.namespaces = << >>, !.account = FALSE,
                           !.tokenFile = "filled"]
MCConfigs ==
    {chart, forgotten, [forgotten EXCEPT !.rbac = Cluster],
     [forgotten EXCEPT !.rbac = Cluster, !.tokenFile = "unreadable"],
     [chart EXCEPT !.gates = <<[name |-> "BucketAdoption", value |-> "yes"]>>]}

Cloud(list, own) == [memberships |-> [c \in Credentials |-> list], own |-> own]
MCClouds == {Cloud(<<other, acme>>, acme), Cloud(NotFound, acme),
             Cloud(NotFound, other)}

MCSecretOf == access1 :> secret1
MCNamespaceOf == secret1 :> "n"

(* Either an earlier manager has left its objects, or there are none yet and *)
(* anything may be configured.                                               *)
noObject == [o \in {access1, bucket1, secret1} |-> Absent]
access == NewAccess({bucket1})
kept == [access EXCEPT !.final = TRUE, !.suspended = TRUE]
MCStarts ==
    {noObject} \cup
    {[noObject EXCEPT ![bucket1] = NewBucket, ![access1] = left] :
        left \in {access, kept, [kept EXCEPT !.deleting = TRUE, !.gen = 2]}}

MCInit ==
    /\ Init
    /\ server # noObject =>
          config = chart /\ cloud = Cloud(<<other, acme>>, acme)
MCSpec == MCInit /\ [][Next]_vars /\ Fairness
=============================================================================
