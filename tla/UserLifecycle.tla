--------------------------- MODULE UserLifecycle ---------------------------
(***************************************************************************)
(* How a user ends: `basphere-admin user delete` and `user purge`, in a    *)
(* root shell beside the API server, whose requests they neither stop nor  *)
(* wait for. A delete wants no VM directory and keeps the user's block; a  *)
(* purge destroys the VMs and frees block and leases. What user_add does   *)
(* in between is one step here; Registration has its parts. IpamPurge has  *)
(* the rewrites of the ledgers in full; here each is one step.             *)
(***************************************************************************)
EXTENDS VmLifecycle, ClusterLifecycle

VARIABLES
  userDir  \* whether users/<user> exists: user_exists of the CLI

users == << account, userDir, folder, admin >>

AdminSteps == {"idle", "confirm", "destroy", "folder", "block", "leases",
               "users", "data", "userdel"}

UserInit ==
  /\ account = FALSE
  /\ userDir = FALSE
  /\ folder = "none"
  /\ admin = NoTask

-----------------------------------------------------------------------------
\* The script goes on with the next step, or ends.
AdminGoto(step) == admin' = [admin EXCEPT !.step = step]
AdminEnds == admin' = NoTask
At(step) == admin.step = step

\* Block and folder may fail, with a warning, and are then made by hand.
UserAdd ==
  /\ ~account /\ ~userDir
  /\ account' = TRUE /\ userDir' = TRUE
  /\ hasBlock' \in {hasBlock, TRUE}
  /\ folder' \in {folder, IF folder = "none" THEN "managed" ELSE folder}
  /\ UNCHANGED << lease, vms, clusters, admin, pc, job, calls, faults >>

\* allocate-block, by hand.
AllocateBlock ==
  /\ account /\ ~hasBlock
  /\ hasBlock' = TRUE
  /\ UNCHANGED << lease, vms, clusters, users, pc, job, calls, faults >>

\* A folder made by hand is in no Terraform state.
FolderByHand ==
  /\ At("idle") /\ account /\ folder = "none"
  /\ calls < MaxCalls
  /\ calls' = calls + 1
  /\ folder' = "manual"
  /\ UNCHANGED << pool, vms, clusters, account, userDir, admin, pc, job, faults >>

VmDirs == {n \in VmNames : vmDir[n] # NoDir}
HasClusters == \E c \in Clusters : clusterDir[c] # NoDir \/ nodeIps[c] # << >>

AdminBegins(step, purge, names) ==
  /\ At("idle") /\ userDir
  /\ calls < MaxCalls
  /\ calls' = calls + 1
  /\ admin' = [step |-> step, purge |-> purge, vms |-> names]
  /\ Fault((IF \E h \in Handlers : pc[h] # "idle" THEN {"overlap"} ELSE {})
           \cup (IF HasClusters THEN {"orphan"} ELSE {}))
  /\ UNCHANGED << pool, vms, clusters, account, userDir, folder, pc, job >>

\* user_delete refuses a user with VM directories; it does not ask for clusters.
UserDeleteAnyway == AdminBegins("folder", FALSE, {})
UserDelete == VmDirs = {} /\ AdminBegins("folder", FALSE, {})

\* user_purge lists the VMs, asks twice, and goes through the directories there
\* are then, unless there were none before.
UserPurge == AdminBegins("confirm", TRUE, VmDirs)
Confirmed ==
  /\ At("confirm")
  /\ LET names == IF admin.vms = {} THEN {} ELSE VmDirs IN
       admin' = [admin EXCEPT !.step = IF names = {} THEN "folder" ELSE "destroy",
                              !.vms = names]
  /\ UNCHANGED << pool, vms, clusters, account, userDir, folder, pc, job, calls, faults >>

\* terraform destroy, whose failure is logged. Neither directory nor lease goes.
PurgeVm ==
  /\ At("destroy")
  /\ \E n \in admin.vms :
       /\ admin' = [admin EXCEPT !.vms = @ \ {n},
                                 !.step = IF admin.vms = {n} THEN "folder" ELSE @]
       /\ IF vmDir[n] = NoDir THEN UNCHANGED << vmMachine, vmState, faults >> ELSE Destroy(n)
  /\ UNCHANGED << pool, vmDir, clusters, account, userDir, folder, pc, job, calls >>

\* delete_vsphere_user_folder: terraform destroys an empty folder only, and its
\* failure ends the script, which runs under set -e: AdminStops. A folder made by
\* hand is left alone.
FolderGone == AdminGoto(IF admin.purge THEN "block" ELSE "users")
DeleteFolderOrNot ==
  /\ At("folder")
  /\ FolderGone
  /\ folder' = IF folder = "managed" THEN "none" ELSE folder
  /\ UNCHANGED << pool, vms, clusters, account, userDir, pc, job, calls, faults >>
DeleteFolder ==
  /\ At("folder")
  /\ \/ /\ folder = "managed" /\ \A n \in VmNames : vmMachine[n] = NoIp
        /\ folder' = "none"
        /\ FolderGone
     \/ folder # "managed" /\ FolderGone /\ UNCHANGED folder
  /\ UNCHANGED << pool, vms, clusters, account, userDir, pc, job, calls, faults >>

\* A purge gives the block back, and then the leases.
FreeBlock ==
  /\ At("block")
  /\ hasBlock' = FALSE
  /\ AdminGoto("leases")
  /\ UNCHANGED << lease, vms, clusters, account, userDir, folder, pc, job, calls, faults >>
FreeLeases ==
  /\ At("leases")
  /\ lease' = [n \in Names |-> NoIp]
  /\ AdminGoto("users")
  /\ UNCHANGED << hasBlock, vms, clusters, account, userDir, folder, pc, job, calls, faults >>

\* rm -rf users/<user>, then terraform/<user> and clusters/<user>.
RemoveUserDir ==
  /\ At("users")
  /\ userDir' = FALSE
  /\ AdminGoto("data")
  /\ UNCHANGED << pool, vms, clusters, account, folder, pc, job, calls, faults >>
RemoveData ==
  /\ At("data")
  /\ vmDir' = [n \in VmNames |-> NoDir]
  /\ vmState' = {}
  /\ clusterDir' = [c \in Clusters |-> NoDir]
  /\ AdminGoto("userdel")
  /\ UNCHANGED << pool, vmMachine, nodeIps, account, userDir, folder, pc, job, calls, faults >>

\* rm -rf fails where a script still writes, or dies with the shell: set -e ends the
\* script, and of what is left any file may be gone.
RemoveDataFails ==
  /\ At("data")
  /\ vmDir' \in AllCutShort(vmDir)
  /\ vmState' \in SUBSET {n \in vmState : vmDir'[n] # NoDir}
  /\ clusterDir' \in IF \A n \in VmNames : vmDir'[n] = NoDir
                     THEN AllCutShort(clusterDir) ELSE {clusterDir}
  /\ AdminEnds
  /\ Fault({"stopped"} \cup (IF admin.purge THEN {"unleased"} ELSE {}))
  /\ UNCHANGED << pool, vmMachine, nodeIps, account, userDir, folder, pc, job, calls >>

Userdel ==
  /\ At("userdel")
  /\ account' = FALSE
  /\ AdminEnds
  /\ UNCHANGED << pool, vms, clusters, userDir, folder, pc, job, calls, faults >>

\* The administrator answers no, the folder or the account cannot be removed, or
\* the shell dies.
AdminStops ==
  /\ ~At("idle")
  /\ AdminEnds
  /\ Fault({"stopped"} \cup
           (IF admin.purge /\ (At("users") \/ At("data")) THEN {"unleased"} ELSE {}))
  /\ UNCHANGED << pool, vms, clusters, account, userDir, folder, pc, job, calls >>

AdminStep ==
  \/ UserAdd \/ AllocateBlock \/ FolderByHand \/ UserDelete \/ UserPurge
  \/ Confirmed \/ PurgeVm \/ DeleteFolder \/ FreeBlock \/ FreeLeases
  \/ RemoveUserDir \/ RemoveData \/ RemoveDataFails \/ Userdel \/ AdminStops

UserTypeOK ==
  /\ account \in BOOLEAN /\ userDir \in BOOLEAN
  /\ folder \in {"none", "managed", "manual"}
  /\ admin \in [step : AdminSteps, purge : BOOLEAN, vms : SUBSET VmNames]
  /\ At("destroy") <=> admin.vms # {} /\ ~At("confirm")
=============================================================================
