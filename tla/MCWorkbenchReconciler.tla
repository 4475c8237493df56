----------------------- MODULE MCWorkbenchReconciler -----------------------
(* Small instances of WorkbenchReconciler. *)
EXTENDS WorkbenchReconciler, TLC

\* initJob's name, for uids and application names without a dash: one job per
\* pair.
MCJobNames == Uids \X AppNames
MCJobName == [p \in Uids \X AppNames |-> p]

\* The names of applications are alike, and so are the versions of the server.
MCSymmetry == Permutations(AppNames) \cup Permutations(Versions)

\* The calls whose failure ends the pass and queues it again.
MCLoudSites ==
    {"crash", "getWorkbench", "addFinalizer", "updateDeployment", "getService",
     "createService", "getJob", "createJob", "updateJob", "listJobs", "deleteJob",
     "deleteJobs", "listDeployments", "deleteDeployments", "removeFinalizer"}

\* All the calls, those whose failure is only logged included.
MCAllSites ==
    MCLoudSites \cup {"getDeployment", "createDeployment", "listPods",
                      "writeServerStatus", "writeAppStatus"}

\* All of them but the read of the deployment, whose failure is forgotten.
MCMostSites == MCAllSites \ {"getDeployment"}
=============================================================================
