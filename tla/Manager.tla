------------------------------ MODULE Manager ------------------------------
(***************************************************************************)
(* The manager as a whole: the process of Startup hosts the informers and  *)
(* queues of Requests. Its settings decide which Secrets are watched, its  *)
(* workers begin once the caches are filled, its end loses what Requests   *)
(* keeps in memory.                                                        *)
(***************************************************************************)
EXTENDS Requests

vars == <<startupVars, requestVars, faults, edits>>

Init == StartupInit /\ RequestsInit /\ faults = 0 /\ edits = 0

(* The initial lists, as far as RBAC lets the informers read.                *)
CachesFilled == \A o \in Watched : server[o] # Absent => cache[o] # Absent

Boot == Starting /\ UNCHANGED <<requestVars, edits>>
Serve == Synced /\ CachesFilled /\ UNCHANGED <<requestVars, edits>>
Stop == Crash /\ Forget /\ UNCHANGED edits

Process ==
    \/ Boot \/ Serve \/ Stop
    \/ \E o \in Objects : Deliver(o)
    \/ \E b \in Buckets : Map(b)
    \/ \E o \in Primary : Begin(o) \/ End(o) \/ Elapse(o)

Users ==
    /\ edits < MaxEdits /\ edits' = edits + 1
    /\ \/ Rollout /\ Forget
       \/ Remount /\ UNCHANGED requestVars
       \/ (\E o \in Objects : Kubectl(o)) /\ UNCHANGED startupVars

Next == Process \/ Users

Spec == Init /\ [][Next]_vars

(* The process is scheduled and launched again, informers deliver, timers    *)
(* elapse, workers take every request in the end and finish their passes.    *)
Fairness ==
    /\ WF_vars(Boot) /\ WF_vars(Serve)
    /\ \A o \in Objects : WF_vars(Deliver(o))
    /\ \A b \in Buckets : WF_vars(Map(b))
    /\ \A o \in Primary : /\ WF_vars(Elapse(o)) /\ SF_vars(Begin(o))
                          /\ WF_vars(End(o) /\ UNCHANGED faults)
FairSpec == Spec /\ Fairness

-----------------------------------------------------------------------------
(* Every variable has its type, and a manager works in an organisation that  *)
(* bears the name its flags give (cmd/main.go refuses any other).            *)
TypeOK ==
    /\ process.pc \in {"down", "flags", "resolve", "sync", "serving"}
    /\ process.cred \in Credentials \cup {Blank}
    /\ process.pc \in {"sync", "serving"} =>
          \E o \in Organisations : /\ o.identity = process.org
                                   /\ Matches(o, config.organisation)
    /\ \A o \in Objects : server[o] \in Kind(o) \cup {Absent}
    /\ queue \cup timers \subseteq Primary /\ mapping \subseteq Buckets
    /\ running \in [Controllers -> Primary \cup {None}]
    /\ faults \in 0..MaxFaults /\ edits \in 0..MaxEdits

(* A manager that can start ends up serving: rotations are done, Secrets are *)
(* right and deletions are finished, whatever happened while it was down.    *)
Served == <>[](Startable => AllServed)
Finalized == <>[](Startable => AllFinalized)
=============================================================================
