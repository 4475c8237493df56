------------------------- MODULE MCWorkbenchTenancy -------------------------
(* Small instances of WorkbenchTenancy: two workbenches. *)
EXTENDS WorkbenchTenancy

\* Two names in one namespace; the names of the jobs tell them apart.
MCJobNames == Names \X Apps
MCJobName == [p \in Names \X Apps |-> p]
MCNameDistinct == [w \in Workbenches |-> IF w = "w1" THEN "n1" ELSE "n2"]
MCHomeShared == [w \in Workbenches |-> "x"]

\* One name in two namespaces.
MCNameShared == [w \in Workbenches |-> "n1"]
MCHomeDistinct == [w \in Workbenches |-> IF w = "w1" THEN "x" ELSE "y"]
=============================================================================
