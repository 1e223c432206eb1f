---------------------------- MODULE MCResources ----------------------------
(***************************************************************************)
(* Resources with two goroutines and one administrator. There is a cluster *)
(* of a control plane and a worker; requests are for both VMs "c-worker",  *)
(* the second of which then has the name of the cluster's worker. Quotas   *)
(* of three VMs, so that a second request passes the check as long as one  *)
(* VM or none is there, and of two addresses, so that both bite.           *)
(***************************************************************************)
EXTENDS Resources, TLC

MCVmNames == {"c-worker-0", "c-worker-1"}
MCNames == MCVmNames \cup {"c-cp"}
MCVmRequests == {<< "c-worker-0", "c-worker-1" >>}
MCNodes == [c \in {"c"} |-> << "c-cp", "c-worker-1" >>]
Symmetry == Permutations(Handlers)

\* What the invariants ask of the history of faults. It only grows, so that states
\* that differ in nothing else, and agree in these answers, have the same future.
Premises ==
  << faults \subseteq {"timeout", "stopped"},
     faults \cap {"overlap", "stopped", "disk"} = {},
     faults \cap {"overlap", "restart", "timeout", "orphan", "disk", "manifest"} = {},
     faults \cap {"overlap", "disk", "restart", "unleased"} = {},
     faults \subseteq {"destroy", "stopped", "unleased", "reuse"} >>
View == << pool, vms, clusters, users, pc, job, calls, Premises >>
=============================================================================
