--------------------------- MODULE WorkbenchLifecycle ---------------------------
(***************************************************************************)
(* What the operator promises of the life of one workbench, without saying *)
(* how: neither passes nor calls, neither caches nor queues nor failures.  *)
(* WorkbenchReconciler implements it.                                      *)
(*                                                                         *)
(*  - Whatever is made for a workbench is made under its guard (the        *)
(*    finalizer), so that a deletion cannot pass it by.                    *)
(*  - A deletion is never undone, and what is gone stays gone: nothing is  *)
(*    made for it again.                                                   *)
(*  - The guard goes only when neither the server nor an application is    *)
(*    left, unless the operator was not informed of one that is.           *)
(***************************************************************************)
CONSTANTS
    Apps         \* the applications that may be started

VARIABLES
    phase,       \* of the workbench: live, terminating, gone
    guarded,     \* it carries the finalizer
    server,      \* its server exists
    service,     \* the service of that server exists
    running,     \* the applications that have been started for it
    informed     \* FALSE: the operator has missed something that was there

\* Whether the operator is informed is nothing it promises: it may change at any
\* time, and is no part of what the steps below change.
made == <<server, service, running>>
vars == <<phase, guarded, made>>

Init ==
    /\ phase = "live" /\ ~guarded
    /\ ~server /\ ~service /\ running = {}

\* Reconcile adds the finalizer before it makes anything.
Guard ==
    /\ phase = "live"
    /\ guarded' = TRUE
    /\ UNCHANGED <<phase, made>>

\* Reconcile makes the server, its service, or the job of an application.  A pass
\* that began before a deletion may still do so after it.
Make ==
    /\ guarded
    /\ \/ server' = TRUE /\ UNCHANGED <<service, running>>
       \/ service' = TRUE /\ UNCHANGED <<server, running>>
       \/ \E a \in Apps : running' = running \cup {a} /\ UNCHANGED <<server, service>>
    /\ UNCHANGED <<phase, guarded>>

\* Things go: swept, torn down, lost, expired or collected.
Unmake ==
    /\ server' => server
    /\ service' => service
    /\ running' \subseteq running
    /\ UNCHANGED <<phase, guarded>>

\* The user deletes the workbench.
Delete ==
    /\ phase = "live"
    /\ phase' = IF guarded THEN "terminating" ELSE "gone"
    /\ UNCHANGED <<guarded, made>>

\* deleteExternalResources is done, and the finalizer goes.
Release ==
    /\ phase = "terminating" /\ guarded
    /\ informed => ~server /\ running = {}
    /\ phase' = "gone" /\ guarded' = FALSE
    /\ UNCHANGED made

Next == Guard \/ Make \/ Unmake \/ Delete \/ Release

Spec == Init /\ [][Next]_vars
=============================================================================
