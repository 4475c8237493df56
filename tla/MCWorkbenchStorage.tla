-------------------------- MODULE MCWorkbenchStorage --------------------------
(* Instances of WorkbenchStorage for TLC. *)
EXTENDS WorkbenchStorage

\* The default of spec.storage, with which the workbenches are created.
MCDefault == {{"s3", "nfs"}}

\* S3 and local storage, which mount one path twice, not together.
MCStorages == MCDefault \cup {{"nfs", "local"}}

\* The drivers are installed, the secrets are still to be made.
MCClusters == {[drivers |-> {"s3", "nfs"}, secrets |-> {}]}

\* The driver of NFS is missing, its secret is not.
MCDriverMissing == {[drivers |-> {"s3"}, secrets |-> {"s3", "nfs"}]}
=============================================================================
