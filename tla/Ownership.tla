------------------------------ MODULE Ownership ------------------------------
(***************************************************************************)
(* What one BucketAccess may own outside the cluster, and when: an         *)
(* abstract specification in single steps, without workers, caches, calls  *)
(* that fail or crashes. Module BucketAccess implements it (Implements,    *)
(* there in BucketAccessProperties).                                       *)
(*                                                                         *)
(* It says that the object never owns two service accounts, that a         *)
(* credential lives on its own account and nowhere else, that grants go to *)
(* a principal that exists (or to nobody), that the account is released    *)
(* only after the deletion was requested, that the object goes only when   *)
(* what it claims is released, and that it acquires nothing afterwards.    *)
(***************************************************************************)
CONSTANTS Buckets,        \* buckets a statement may be on
          AccountIDs,     \* identities of service accounts
          CredentialIDs,  \* identities of access credentials
          Externals,      \* principals that exist without us
          Nobody          \* the empty principal

VARIABLES phase,          \* of the object: live, deleting or gone
          claims,         \* the account and the buckets its status names
          accounts,       \* service accounts with our label
          creds,          \* live credentials: [id, sa]
          statements      \* policy statements with our Sid, but for those on
                          \* buckets whose policy others have rewritten

vars == <<phase, claims, accounts, creds, statements>>

Init ==
    /\ phase = "live" /\ claims = [account |-> Nobody, buckets |-> {}]
    /\ accounts = {} /\ creds = {} /\ statements = {}

(* Acquiring: only while the object is there.                                *)
Acquire ==
    /\ phase # "gone" /\ accounts = {}
    /\ \E a \in AccountIDs : accounts' = {a}
    /\ UNCHANGED <<phase, claims, creds, statements>>

Mint ==
    /\ phase # "gone"
    /\ \E a \in accounts, id \in CredentialIDs \ {c.id : c \in creds} :
          creds' = creds \cup {[id |-> id, sa |-> a]}
    /\ UNCHANGED <<phase, claims, accounts, statements>>

Without(b) == {s \in statements : s.bucket # b}

Grant ==
    /\ phase # "gone"
    /\ \E b \in Buckets, p \in accounts \cup Externals \cup {Nobody} :
          statements' = Without(b) \cup {[bucket |-> b, principal |-> p]}
    /\ UNCHANGED <<phase, claims, accounts, creds>>

(* Giving up: credentials and statements at any time, the account with all   *)
(* that is on it once the deletion was requested.                            *)
Retire ==
    /\ \E c \in creds : creds' = creds \ {c}
    /\ UNCHANGED <<phase, claims, accounts, statements>>

Revoke ==
    /\ \E b \in Buckets : statements' = Without(b)
    /\ UNCHANGED <<phase, claims, accounts, creds>>

Release ==
    /\ phase # "live" /\ accounts' = {} /\ creds' = {}
    /\ UNCHANGED <<phase, claims, statements>>

(* The status, or the mode the spec asks for, changes.                       *)
Claim ==
    /\ phase # "gone"
    /\ \E a \in AccountIDs \cup Externals \cup {Nobody}, B \in SUBSET Buckets :
          claims' = [account |-> a, buckets |-> B]
    /\ UNCHANGED <<phase, accounts, creds, statements>>

RequestDeletion ==
    /\ phase = "live" /\ phase' = "deleting"
    /\ UNCHANGED <<claims, accounts, creds, statements>>

Depart ==
    /\ phase # "gone" /\ phase' = "gone"
    /\ claims.account \notin accounts
    /\ \A s \in statements : s.bucket \notin claims.buckets
    /\ UNCHANGED <<claims, accounts, creds, statements>>

Next ==
    \/ Acquire \/ Mint \/ Grant \/ Retire \/ Revoke \/ Release
    \/ Claim \/ RequestDeletion \/ Depart

Spec == Init /\ [][Next]_vars
=============================================================================
