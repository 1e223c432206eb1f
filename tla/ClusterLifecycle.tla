-------------------------- MODULE ClusterLifecycle --------------------------
(***************************************************************************)
(* Kubernetes clusters: POST and DELETE /api/v1/clusters (cluster.go) run  *)
(* create-cluster and delete-cluster. A cluster takes an address for its   *)
(* control plane and one for each worker, under names made from its own.   *)
(* The management cluster and Cluster API are external: the nodes use      *)
(* their addresses from the moment the manifest is applied until kubectl   *)
(* has deleted the Cluster object.                                         *)
(***************************************************************************)
EXTENDS Provisioner

CONSTANTS
  Clusters,
  Nodes,        \* the resource names of a cluster's nodes, control plane first
  MaxClusters   \* ClusterQuota.MaxClusters

ASSUME ClusterAssumption ==
  /\ Nodes \in [Clusters -> Seq(Names) \ {<< >>}]
  /\ Clusters \cap Names = {}
  /\ MaxClusters \in Nat

VARIABLES
  clusterDir,  \* the directories clusters/<user>/<name>
  nodeIps      \* the addresses the nodes of a cluster use

clusters == << clusterDir, nodeIps >>

ClusterRecord == [status : {"pending", "provisioning", "failed"}, ips : Seq(Nat)]
ASSUME ClusterDirAssumption == {NoDir, Bare} \cap ClusterRecord = {}

ClusterInit ==
  /\ clusterDir = [c \in Clusters |-> NoDir]
  /\ nodeIps = [c \in Clusters |-> << >>]

\* ListClusters, GetCluster and ClusterExists go by metadata.json.
ClusterRecords == {c \in Clusters : clusterDir[c] \notin {NoDir, Bare}}

SetClusterDir(c, d) == clusterDir' = [clusterDir EXCEPT ![c] = d]

-----------------------------------------------------------------------------
(* apiCreateCluster and create-cluster *)

ApiCreateCluster(h) ==
  /\ account
  /\ Cardinality(ClusterRecords) < MaxClusters
  /\ \E c \in Clusters \ ClusterRecords : Begin(h, "cl-test", << c >>)
  /\ UNCHANGED << pool, clusters >>

\* cluster_exists asks for the directory.
ClTest(h) ==
  /\ pc[h] = "cl-test"
  /\ IF clusterDir[Name(h)] = NoDir THEN Goto(h, "cl-mkdir") ELSE Finish(h)
  /\ UNCHANGED << pool, clusters, faults >>

\* The management cluster must answer first.
ClMkdir(h) ==
  /\ pc[h] = "cl-mkdir"
  /\ \/ Finish(h) /\ UNCHANGED clusterDir
     \/ /\ IF clusterDir[Name(h)] = NoDir THEN SetClusterDir(Name(h), Bare)
           ELSE UNCHANGED clusterDir
        /\ Goto(h, "cl-allocate")
  /\ UNCHANGED << pool, nodeIps, faults >>

\* One address after the other. What was taken before a failure is given back;
\* the directory stays.
ClAllocate(h) ==
  /\ pc[h] = "cl-allocate"
  /\ LET i == Len(job[h].ips) + 1
         node == Nodes[Name(h)][i]
     IN \/ /\ AllocateIp(node)
           /\ Hold(h, IF i = Len(Nodes[Name(h)]) THEN "cl-manifest" ELSE "cl-allocate",
                   Append(job[h].ips, AddressFor(node)))
        \/ i = 1 /\ Finish(h) /\ UNCHANGED << pool, faults >>
        \/ i > 1 /\ Goto(h, "cl-undo") /\ UNCHANGED << pool, faults >>
  /\ UNCHANGED clusters

\* The next of the job's addresses is released; after the last, `then`.
ClRelease(h, step, then) ==
  /\ pc[h] = step
  /\ ReleaseIp(Head(job[h].ips))
  /\ IF Len(job[h].ips) > 1 THEN Hold(h, step, Tail(job[h].ips)) ELSE then
  /\ UNCHANGED clusters

ClUndo(h) == ClRelease(h, "cl-undo", Finish(h))

\* generate_cluster_manifests ends with metadata.json, and does not ask whether it
\* could be written. Without vsphere.env, the template or the directory it fails,
\* and releases nothing.
ClManifest(h) ==
  /\ pc[h] = "cl-manifest"
  /\ \/ /\ clusterDir[Name(h)] # NoDir
        /\ SetClusterDir(Name(h), [status |-> "pending", ips |-> job[h].ips])
        /\ Goto(h, "cl-apply") /\ UNCHANGED faults
     \/ /\ clusterDir[Name(h)] # NoDir
        /\ SetClusterDir(Name(h), Bare)
        /\ Goto(h, "cl-apply") /\ Fault({"disk"})
     \/ Finish(h) /\ Fault({"manifest"}) /\ UNCHANGED clusterDir
  /\ UNCHANGED << pool, nodeIps >>

\* kubectl apply needs the manifest. It can fail when part of it is applied.
ClApply(h) ==
  /\ pc[h] = "cl-apply"
  /\ \/ /\ clusterDir[Name(h)] # NoDir
        /\ nodeIps' = [nodeIps EXCEPT ![Name(h)] = job[h].ips]
        /\ (Goto(h, "cl-applied") \/ Goto(h, "cl-failed"))
     \/ Goto(h, "cl-failed") /\ UNCHANGED nodeIps
  /\ UNCHANGED << pool, clusterDir, faults >>

\* set_cluster_metadata makes directory and file anew if they are gone.
ClMark(h) ==
  /\ pc[h] \in {"cl-applied", "cl-failed"}
  /\ \/ /\ SetClusterDir(Name(h),
             [status |-> IF pc[h] = "cl-applied" THEN "provisioning" ELSE "failed",
              ips |-> IF Name(h) \in ClusterRecords THEN clusterDir[Name(h)].ips ELSE << >>])
        /\ UNCHANGED faults
     \/ UNCHANGED clusterDir /\ Fault({"disk"})
  /\ Finish(h)
  /\ UNCHANGED << pool, nodeIps >>

-----------------------------------------------------------------------------
(* apiDeleteCluster and delete-cluster *)

ApiDeleteCluster(h) ==
  /\ account
  /\ \E c \in ClusterRecords : Begin(h, "cl-delete", << c >>)
  /\ UNCHANGED << pool, clusters >>

\* kubectl delete, whose failure or timeout is ignored, as is a management
\* cluster that does not answer.
ClDelete(h) ==
  /\ pc[h] = "cl-delete"
  /\ \/ /\ clusterDir[Name(h)] = NoDir
        /\ Finish(h) /\ UNCHANGED << nodeIps, faults >>
     \/ /\ clusterDir[Name(h)] # NoDir
        /\ nodeIps' = [nodeIps EXCEPT ![Name(h)] = << >>]
        /\ Goto(h, "cl-read") /\ UNCHANGED faults
     \/ /\ clusterDir[Name(h)] # NoDir /\ nodeIps[Name(h)] # << >>
        /\ Fault({"destroy"})
        /\ Goto(h, "cl-read") /\ UNCHANGED nodeIps
  /\ UNCHANGED << pool, clusterDir >>

\* The addresses are those metadata.json has now.
ClRead(h) ==
  /\ pc[h] = "cl-read"
  /\ LET ips == IF Name(h) \in ClusterRecords THEN clusterDir[Name(h)].ips ELSE << >>
     IN Hold(h, IF ips = << >> THEN "cl-remove" ELSE "cl-return", ips)
  /\ UNCHANGED << pool, clusters, faults >>

ClReturn(h) == ClRelease(h, "cl-return", Goto(h, "cl-remove"))

\* rm -rf, which a create-cluster that writes in the directory keeps from ending.
ClRemove(h) ==
  /\ pc[h] = "cl-remove"
  /\ \E d \in IF OtherAt(h, {"cl-manifest", "cl-applied", "cl-failed"})
             THEN CutShort(clusterDir[Name(h)]) ELSE {NoDir} : SetClusterDir(Name(h), d)
  /\ Finish(h)
  /\ UNCHANGED << pool, nodeIps, faults >>

\* The server dies with its scripts: rm -rf may have removed metadata.json only.
ClusterRestart ==
  \E torn \in SUBSET (AtStep("cl-remove") \cap ClusterRecords) :
    clusterDir' = [c \in Clusters |-> IF c \in torn THEN Bare ELSE clusterDir[c]]

ClusterStep(h) ==
  \/ ApiCreateCluster(h) \/ ClTest(h) \/ ClMkdir(h) \/ ClAllocate(h) \/ ClUndo(h)
  \/ ClManifest(h) \/ ClApply(h) \/ ClMark(h)
  \/ ApiDeleteCluster(h) \/ ClDelete(h) \/ ClRead(h) \/ ClReturn(h) \/ ClRemove(h)

ClusterSteps == {"cl-test", "cl-mkdir", "cl-allocate", "cl-undo", "cl-manifest",
                 "cl-apply", "cl-applied", "cl-failed", "cl-delete", "cl-read",
                 "cl-return", "cl-remove"}
ClusterTypeOK ==
  /\ clusterDir \in [Clusters -> ClusterRecord \cup {NoDir, Bare}]
  /\ nodeIps \in [Clusters -> Seq(Nat)]
=============================================================================
