---------------------------- MODULE VmLifecycle ----------------------------
(***************************************************************************)
(* Virtual machines: POST and DELETE /api/v1/vms (vm.go) run create-vm and *)
(* delete-vm, one step per command that other requests can see. A machine  *)
(* has a directory with its Terraform files; the directory alone makes its *)
(* name taken for create-vm, and metadata.json in it makes it a VM for the *)
(* API. Terraform and vSphere are external: a run may fail, and may fail   *)
(* after the machine is made.                                              *)
(***************************************************************************)
EXTENDS Provisioner

CONSTANTS
  VmNames,
  VmRequests,  \* the sequences of names a request can ask for: one, or name-0, name-1, ...
  MaxCount,    \* how many VMs a request may ask for: Validate accepts up to 10
  MaxVms       \* Quota.MaxVMs

ASSUME VmAssumption ==
  /\ VmNames \subseteq Names
  /\ VmRequests \subseteq Seq(VmNames) \ {<< >>}
  /\ MaxCount \in Nat \ {0} /\ \A r \in VmRequests : Len(r) <= MaxCount
  /\ MaxVms \in Nat

VARIABLES
  vmDir,      \* the directories terraform/<user>/<name>
  vmMachine,  \* vSphere: the address of each machine
  folder,     \* vSphere: the user's folder: none, managed by Terraform, or manual
  vmState     \* the names whose terraform.tfstate has the machine

vms == << vmDir, vmMachine, vmState >>

VmStatus == {"creating", "running", "failed", "deleting"}
VmRecord == [status : VmStatus, ip : Nat]
ASSUME VmDirAssumption == {NoDir, Bare} \cap VmRecord = {}

VmInit ==
  /\ vmDir = [n \in VmNames |-> NoDir]
  /\ vmMachine = [n \in VmNames |-> NoIp]
  /\ vmState = {}

\* ListVMs, GetVM and VMExists know a VM by its metadata.json.
VmRecords == {n \in VmNames : vmDir[n] \notin {NoDir, Bare}}

SetVmDir(n, d) == vmDir' = [vmDir EXCEPT ![n] = d]

\* jq '.status = s' metadata.json > metadata.json.tmp && mv: it fails without a
\* record and on a full disk. Two that run at once share the temporary file, and the
\* mv of one can put the file that the other has just emptied in place: a
\* metadata.json that is no JSON counts as none for all readers of it below. So it
\* does when jq reads what create-vm has just begun to write, and finds nothing.
MarkSteps == {"vm-running", "vm-failed", "vm-mark"}
SetVmStatus(h, s) ==
  LET n == Name(h) IN
  \/ /\ n \in VmRecords
     /\ SetVmDir(n, [vmDir[n] EXCEPT !.status = s])
     /\ UNCHANGED faults
  \/ /\ n \in VmRecords /\ OtherAt(h, MarkSteps \cup {"vm-prepare"})
     /\ SetVmDir(n, Bare)
     /\ UNCHANGED faults
  \/ UNCHANGED vmDir /\ Fault(IF n \in VmRecords THEN {"disk"} ELSE {})

-----------------------------------------------------------------------------
(* apiCreateVM and create-vm *)

\* The quota is read once for the whole request; a single VM must not exist.
\* What comes between the two reads can as well come after them.
ApiCreateVMUnlimited(h) ==
  /\ account
  /\ \E r \in VmRequests :
       /\ ~(Len(r) = 1 /\ r[1] \in VmRecords)
       /\ Begin(h, "vm-test", r)
  /\ UNCHANGED << pool, vms >>
ApiCreateVM(h) ==
  /\ account
  /\ \E r \in VmRequests :
       /\ Cardinality(VmRecords) + Len(r) <= MaxVms
       /\ ~(Len(r) = 1 /\ r[1] \in VmRecords)
       /\ Begin(h, "vm-test", r)
  /\ UNCHANGED << pool, vms >>

\* The script ends, with or without success: on to the next name.
VmNext(h) ==
  IF Len(job[h].names) = 1 THEN Finish(h)
  ELSE /\ pc' = [pc EXCEPT ![h] = "vm-test"]
       /\ job' = [job EXCEPT ![h] = [names |-> Tail(job[h].names), ips |-> << >>]]
       /\ UNCHANGED calls

VmTest(h) ==
  /\ pc[h] = "vm-test"
  /\ IF vmDir[Name(h)] = NoDir THEN Goto(h, "vm-allocate") ELSE VmNext(h)
  /\ UNCHANGED << pool, vms, faults >>

VmAllocate(h) ==
  /\ pc[h] = "vm-allocate"
  /\ \/ AllocateIp(Name(h)) /\ Hold(h, "vm-mkdir", << AddressFor(Name(h)) >>)
     \/ VmNext(h) /\ UNCHANGED << pool, faults >>
  /\ UNCHANGED vms

VmMkdir(h) ==
  /\ pc[h] = "vm-mkdir"
  /\ IF vmDir[Name(h)] = NoDir THEN SetVmDir(Name(h), Bare) ELSE UNCHANGED vmDir
  /\ Goto(h, "vm-prepare")
  /\ UNCHANGED << pool, vmMachine, vmState, faults >>

\* main.tf is written. Without the template, or without the directory, that fails:
\* then address and directory are given back, as they are when vsphere.env is
\* missing. metadata.json comes in between, and whether it could be written is not
\* asked: on a full disk the script goes on without a record, as it does when the mv
\* of another script puts an empty file in its place.
WriteVmRecord(h) ==
  \/ /\ vmDir[Name(h)] # NoDir
     /\ SetVmDir(Name(h), [status |-> "creating", ip |-> job[h].ips[1]])
     /\ UNCHANGED faults
  \/ /\ vmDir[Name(h)] # NoDir
     /\ SetVmDir(Name(h), Bare)
     /\ Fault(IF OtherAt(h, MarkSteps) THEN {} ELSE {"disk"})
  \/ vmDir[Name(h)] = NoDir /\ UNCHANGED << vmDir, faults >>
VmPrepareKeepsIp(h) ==
  /\ pc[h] = "vm-prepare"
  /\ \/ WriteVmRecord(h) /\ (Goto(h, "vm-apply") \/ Goto(h, "vm-remove"))
     \/ Goto(h, "vm-remove") /\ UNCHANGED << vmDir, faults >>
  /\ UNCHANGED << pool, vmMachine, vmState >>
VmPrepareKeepsDir(h) ==
  /\ pc[h] = "vm-prepare"
  /\ \/ WriteVmRecord(h) /\ Goto(h, "vm-apply")
     \/ VmNext(h) /\ UNCHANGED << vmDir, faults >>
  /\ UNCHANGED << pool, vmMachine, vmState >>
VmPrepare(h) ==
  /\ pc[h] = "vm-prepare"
  /\ \/ WriteVmRecord(h) /\ (Goto(h, "vm-apply") \/ Goto(h, "vm-return"))
     \/ Goto(h, "vm-return") /\ UNCHANGED << vmDir, faults >>
  /\ UNCHANGED << pool, vmMachine, vmState >>

\* terraform apply makes the machine and records it in the directory, or fails
\* with or without that; a name is made only once, in the user's folder. When the
\* directory has been removed under it, or the disk is full, the machine may still
\* be made, but in no state file.
Make(n, ip) == folder # "none" /\ vmMachine' = [vmMachine EXCEPT ![n] = ip]
VmMakes(n, ip) ==
  /\ vmDir[n] # NoDir
  /\ vmMachine[n] = NoIp \/ n \in vmState
  /\ Make(n, ip)
  /\ vmState' = vmState \cup {n}
VmMakesUnrecorded(n, ip) ==
  /\ n \notin VmRecords
  /\ vmMachine[n] = NoIp
  /\ Make(n, ip)
  /\ UNCHANGED vmState

VmApplyUnchecked(h) ==
  /\ pc[h] = "vm-apply"
  /\ \/ VmMakes(Name(h), job[h].ips[1])
     \/ UNCHANGED << vmMachine, vmState >>
  /\ Goto(h, "vm-running")
  /\ UNCHANGED << pool, vmDir, faults >>
VmApply(h) ==
  /\ pc[h] = "vm-apply"
  /\ \/ VmMakes(Name(h), job[h].ips[1]) /\ (Goto(h, "vm-running") \/ Goto(h, "vm-failed"))
     \/ VmMakesUnrecorded(Name(h), job[h].ips[1]) /\ Goto(h, "vm-failed")
     \/ Goto(h, "vm-failed") /\ UNCHANGED << vmMachine, vmState >>
  /\ UNCHANGED << pool, vmDir, faults >>

\* The status is set, and the script ends.
VmReport(h) ==
  /\ \/ pc[h] = "vm-running" /\ SetVmStatus(h, "running")
     \/ pc[h] = "vm-failed" /\ SetVmStatus(h, "failed")
  /\ VmNext(h)
  /\ UNCHANGED << pool, vmMachine, vmState >>

-----------------------------------------------------------------------------
(* apiDeleteVM and delete-vm *)

ApiDeleteVM(h) ==
  /\ \E n \in VmRecords : Begin(h, "vm-find", << n >>)
  /\ UNCHANGED << pool, vms >>

\* The address is read before the VM is marked "deleting".
VmFind(h) ==
  /\ pc[h] = "vm-find"
  /\ LET n == Name(h) IN
     \/ n \in VmRecords /\ Hold(h, "vm-mark", << vmDir[n].ip >>)
     \/ /\ vmDir[n] = Bare \/ (n \in VmRecords /\ OtherAt(h, {"vm-prepare"}))
        /\ Goto(h, "vm-mark")
     \/ vmDir[n] = NoDir /\ Finish(h)
  /\ UNCHANGED << pool, vms, faults >>
VmMarkNoDestroy(h) ==
  /\ pc[h] = "vm-mark"
  /\ SetVmStatus(h, "deleting")
  /\ Goto(h, IF job[h].ips = << >> THEN "vm-remove" ELSE "vm-return")
  /\ UNCHANGED << pool, vmMachine, vmState >>
VmMark(h) ==
  /\ pc[h] = "vm-mark"
  /\ SetVmStatus(h, "deleting")
  /\ Goto(h, "vm-destroy")
  /\ UNCHANGED << pool, vmMachine, vmState >>

\* terraform destroy removes the machine its state file has, and nothing when it
\* has none. A failure is noted, and the script goes on.
Destroy(n) ==
  \/ /\ vmMachine' = [vmMachine EXCEPT ![n] = IF n \in vmState THEN NoIp ELSE vmMachine[n]]
     /\ vmState' = vmState \ {n}
     /\ UNCHANGED faults
  \/ vmMachine[n] # NoIp /\ Fault({"destroy"}) /\ UNCHANGED << vmMachine, vmState >>
VmDestroyThenReturn(h) ==
  /\ pc[h] = "vm-destroy"
  /\ Destroy(Name(h))
  /\ Goto(h, "vm-return")
  /\ UNCHANGED << pool, vmDir >>
VmDestroy(h) ==
  /\ pc[h] = "vm-destroy"
  /\ Destroy(Name(h))
  /\ Goto(h, IF job[h].ips = << >> THEN "vm-remove" ELSE "vm-return")
  /\ UNCHANGED << pool, vmDir >>

\* release-ip, in delete-vm and after a failure in create-vm.
VmReturn(h) ==
  /\ pc[h] = "vm-return"
  /\ ReleaseIp(job[h].ips[1])
  /\ Goto(h, "vm-remove")
  /\ UNCHANGED vms

\* rm -rf, and with the directory goes the state file. Whoever writes in the
\* directory at that time keeps it from being removed.
WriteSteps == MarkSteps \cup {"vm-prepare", "vm-apply", "vm-destroy"}
Written(h) == OtherAt(h, WriteSteps) \/ (admin.step = "destroy" /\ Name(h) \in admin.vms)
VmRemove(h) ==
  /\ pc[h] = "vm-remove"
  /\ \E d \in IF Written(h) THEN CutShort(vmDir[Name(h)]) ELSE {NoDir} : SetVmDir(Name(h), d)
  /\ vmState' = vmState \ {Name(h)}
  /\ VmNext(h)
  /\ UNCHANGED << pool, vmMachine, faults >>

\* The server dies with its scripts: terraform may have made a machine, and may
\* have recorded it; rm -rf may have removed either file or both.
VmRestart ==
  \E made \in SUBSET {h \in Handlers : pc[h] = "vm-apply" /\ vmMachine[Name(h)] = NoIp
                                     /\ folder # "none"} :
  \E kept \in SUBSET made, torn \in SUBSET (AtStep("vm-remove") \cap VmRecords),
     lost \in SUBSET (AtStep("vm-remove") \cap vmState) :
    /\ vmMachine' = [n \in VmNames |->
         IF \E h \in made : Name(h) = n
         THEN job[CHOOSE h \in made : Name(h) = n].ips[1] ELSE vmMachine[n]]
    /\ vmState' = (vmState \ lost) \cup {n \in {Name(h) : h \in kept} : vmDir[n] # NoDir}
    /\ vmDir' = [n \in VmNames |-> IF n \in torn THEN Bare ELSE vmDir[n]]

VmStep(h) ==
  \/ ApiCreateVM(h) \/ VmTest(h) \/ VmAllocate(h) \/ VmMkdir(h) \/ VmPrepare(h)
  \/ VmApply(h) \/ VmReport(h)
  \/ ApiDeleteVM(h) \/ VmFind(h) \/ VmMark(h) \/ VmDestroy(h) \/ VmReturn(h) \/ VmRemove(h)

VmSteps == {"vm-test", "vm-allocate", "vm-mkdir", "vm-prepare", "vm-apply",
            "vm-running", "vm-failed", "vm-find", "vm-mark", "vm-destroy",
            "vm-return", "vm-remove"}
VmTypeOK ==
  /\ vmDir \in [VmNames -> VmRecord \cup {NoDir, Bare}]
  /\ vmMachine \in [VmNames -> Nat \cup {NoIp}]
  /\ vmState \subseteq {n \in VmNames : vmDir[n] # NoDir /\ vmMachine[n] # NoIp}
=============================================================================
