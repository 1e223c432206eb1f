----------------------------- MODULE Resources -----------------------------
(***************************************************************************)
(* The machines, clusters and addresses of one user together: requests of  *)
(* both kinds overlap, scripts fail, and the API server is restarted at    *)
(* any point. VmLifecycle and ClusterLifecycle meet in the user's leases.  *)
(***************************************************************************)
EXTENDS UserLifecycle

vars == << pool, vms, clusters, users, pc, job, calls, faults >>

Init == PoolInit /\ VmInit /\ ClusterInit /\ UserInit

\* systemd stops the API server with all its children and starts it again.
Restart ==
  /\ VmRestart
  /\ ClusterRestart
  /\ pc' = [h \in Handlers |-> "idle"]
  /\ job' = [h \in Handlers |-> NoJob]
  /\ Fault(IF \E h \in Handlers : pc[h] # "idle" THEN {"restart"} ELSE {})
  /\ UNCHANGED << pool, nodeIps, users, calls >>

Next ==
  \/ \E h \in Handlers : VmStep(h) /\ UNCHANGED << clusters, users >>
  \/ \E h \in Handlers : ClusterStep(h) /\ UNCHANGED << vms, users >>
  \/ AdminStep
  \/ Restart

Spec == Init /\ [][Next]_vars

-----------------------------------------------------------------------------
\* What every goroutine holds fits the step it is at: names of the right kind, and
\* addresses of the user's block wherever a step uses the first of them.
TypeOK ==
  /\ hasBlock \in BOOLEAN
  /\ lease \in [Names -> IpsOf(FirstBlock) \cup {NoIp}]
  /\ VmTypeOK /\ ClusterTypeOK /\ UserTypeOK
  /\ pc \in [Handlers -> VmSteps \cup ClusterSteps \cup {"idle"}]
  /\ \A h \in Handlers :
       /\ pc[h] = "idle" <=> job[h] = NoJob
       /\ Range(job[h].ips) \subseteq IpsOf(FirstBlock)
       /\ pc[h] \in VmSteps => Range(job[h].names) \subseteq VmNames
       /\ pc[h] \in ClusterSteps => Range(job[h].names) \subseteq Clusters
       /\ pc[h] \in {"vm-mkdir", "vm-prepare", "vm-apply", "vm-running", "vm-failed",
                     "vm-return", "cl-undo", "cl-return"} => job[h].ips # << >>
  /\ calls \in 0 .. MaxCalls
  /\ faults \subseteq Kinds

\* The leases of all machines and clusters are those of an address pool that
\* serves one request at a time, but for a purge, which empties it.
Pool == INSTANCE IpPool
  WITH Users <- {"user"}, Resources <- Names, Types <- {"any"},
       allocations <- IF hasBlock THEN {[user |-> "user", block |-> FirstBlock]} ELSE {},
       leases <- {[ip |-> lease[n], user |-> "user", resource |-> n, type |-> "any"]
                    : n \in Leased}
LeasesFromPool ==
  Pool!PoolInit /\ [][pool' # pool => FreeBlock \/ FreeLeases \/ Pool!PoolNext]_pool

\* As long as nothing has gone wrong, a machine or node that is there uses an
\* address that is leased to its name: no other can be given it. This survives a
\* delete or purge that stops, but not a purge that has freed the leases and leaves
\* the records that name them; nor a failed or skipped destroy, requests that
\* overlap, a lease found again, a restart of the server, or the end of a user who
\* has clusters.
LiveHasLease ==
  faults \subseteq {"timeout", "stopped"} =>
    /\ \A n \in VmNames : vmMachine[n] # NoIp => lease[n] = vmMachine[n]
    /\ \A c \in Clusters : \A i \in 1 .. Len(nodeIps[c]) :
         lease[Nodes[c][i]] = nodeIps[c][i]

\* A VM that is reported as running is there with the address reported, even if
\* other VMs' machines could not be destroyed, leases were left behind or the server
\* was restarted. Only a purge destroys machines before it removes their records, and
\* on a full disk delete-vm destroys a machine it could not mark.
RunningIsLive ==
  faults \cap {"overlap", "stopped", "disk"} = {} /\ ~admin.purge =>
    \A n \in VmRecords :
      vmDir[n].status = "running" => vmMachine[n] = vmDir[n].ip

\* No address is lost: whatever has a lease has a record with that address, which a
\* delete gives back, or a request that still works on it. Exceptions are requests
\* that overlap, a restart, a timeout of release-ip, the end of a user with clusters, a
\* full disk, and a create-cluster that fails between addresses and record.
LeaseHasRecord ==
  faults \cap {"overlap", "restart", "timeout", "orphan", "disk", "manifest"} = {} =>
    \A n \in Leased :
      \/ n \in VmNames /\ (Busy(n) \/ (n \in VmRecords /\ vmDir[n].ip = lease[n]))
      \/ \E c \in Clusters : n \in Range(Nodes[c]) /\
           (Busy(c) \/ (c \in ClusterRecords /\ lease[n] \in Range(clusterDir[c].ips)))

\* Quota checks of requests that overlap do not see each other, but the excess is
\* bounded: VMs and those still to come are at most the quota and one largest
\* request for every other goroutine.
ToCome(h) == IF pc[h] \in {"vm-test", "vm-allocate", "vm-mkdir", "vm-prepare"}
             THEN Len(job[h].names)
             ELSE IF pc[h] \in VmSteps THEN Len(job[h].names) - 1 ELSE 0
Awaited == {x \in Handlers \X (1 .. MaxCount) : x[2] <= ToCome(x[1])}
QuotaOvershootBounded ==
  Cardinality(VmRecords) + Cardinality(Awaited) <=
    MaxVms + (Cardinality(Handlers) - 1) * MaxCount

\* A VM's name is never taken by a directory that no request can delete: create-vm
\* refuses a name with a directory, and apiDeleteVM one without metadata.json. That
\* is so whatever fails or times out, as long as requests for one name do not overlap
\* with each other or a purge, no disk is full, the server is not restarted, and no
\* purge stops among the directories.
NameNeverStuck ==
  faults \cap {"overlap", "disk", "restart", "unleased"} = {} =>
    \A n \in VmNames : vmDir[n] = Bare => Busy(n)

\* No VM outlives its user: whatever overlaps, fails or dies, a machine keeps the
\* folder, and the folder that cannot be removed keeps delete and purge from going
\* on to the account. (Not so when the folder had to be made by hand.)
NoMachineOutlivesUser ==
  ~account /\ folder # "manual" => \A n \in VmNames : vmMachine[n] = NoIp

\* A user who is deleted leaves no lease in the block the ledger keeps for the
\* name: user_delete looks only for VM directories, but those have all leases, also
\* after failed destroys and a delete or purge that stopped half way.
NoLeaseOutlivesUser ==
  ~account /\ faults \subseteq {"destroy", "stopped", "unleased", "reuse"} => Leased = {}

\* "User purge (including all resources)", says user_purge of itself: when it has
\* ended and nothing failed or overlapped, no machine and no node is left.
PurgeRemovesEverything ==
  ~account /\ ~hasBlock /\ faults \subseteq {"orphan"} =>
    /\ \A n \in VmNames : vmMachine[n] = NoIp
    /\ \A c \in Clusters : nodeIps[c] = << >>
=============================================================================
