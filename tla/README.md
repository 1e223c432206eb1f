# Verification of Basphere

Basphere is a self-service front end for VMs and Kubernetes clusters on vSphere.
A Go API server (`basphere-api`) and a set of bash scripts (`basphere-cli`) share
one host. There is no database: the state is files under `/var/lib/basphere`, the
accounts of the host and what Terraform and Cluster API keep. This directory holds
TLA+ models of that state and of the programs that change it, TLC runs, and proofs
checked by TLAPS. Paths below are relative to `src/`.

## 1. Inventory

| Component | State | Operations | Source |
|---|---|---|---|
| Address arithmetic and search | none (config.yaml) | `load_network_config`, `ip_to_int`, `int_to_ip`, `is_reserved_ip`, `find_next_available_block`, `find_next_available_ip` | `basphere-cli/scripts/internal/ipam-common.sh`, `lib/common.sh` |
| IPAM scripts | `ipam/allocations.tsv`, `ipam/leases.tsv`, the flock on `ipam/.lock` | `allocate-block`, `allocate-ip`, `release-ip` | `basphere-cli/scripts/internal/` |
| Registration requests | `pending/req-*.json`, the store's `RWMutex` | register, approve, reject (API); `user approve`, `user reject` (CLI) | `basphere-api/internal/{handler,store,provisioner}`, `basphere-admin` |
| Key change requests | `pending/key-changes/keychange-*.json`, `authorized_keys` | request, approve, reject (API and CLI), `UpdateUserKey` | `key_change_store.go`, `handler.go:576-754`, `basphere-admin:973-1099` |
| User lifecycle | accounts, `users/<u>/`, vSphere folder | `user add`, `user delete`, `user purge` | `basphere-admin` |
| VM lifecycle | `terraform/<u>/<vm>/` with `metadata.json`, the VM itself | `create-vm`, `delete-vm`; the API's quota check and loop | `scripts/user/{create,delete}-vm`, `handler/vm.go` |
| Cluster lifecycle | `clusters/<u>/<c>/`, several leases, Cluster API objects | `create-cluster`, `delete-cluster`, status | `scripts/user/{create,delete}-cluster`, `lib/cluster-common.sh`, `handler/cluster.go` |
| Read-only commands, validation, pages, installation, templates, deployment | none of their own | | see PROJECT.json |

How they interact. The API server is one process; each HTTP request is a goroutine.
It runs the scripts as child processes (`exec.Command`, some through `sudo`) and
waits for them, so the server's own mutex is never held over a script; they run on when
the request's 60 seconds are over, and the client may have sent it again by then. `create-vm`
and `create-cluster` call `allocate-ip`; `delete-*` and failing creations call
`release-ip`; `user_add` calls `allocate-block`. Administrators run `basphere-admin`
in root shells on the same files, and do not go through the server. systemd restarts
the server when it fails and kills its children with it.

What is hard here: three kinds of mutual exclusion cover different parts (flock for
the three IPAM scripts, a Go mutex for single reads and writes of requests, nothing
for `basphere-admin`); decisions are made on copies read before a lock, a prompt or a
child process; files are replaced by truncation in one place and by a temporary file
and `mv` in another, with fixed temporary names in a third; scripts die anywhere, and
`set -e` means different things depending on where a function is called from.

What makes each component correct:

- search: the lowest free block or address, never a reserved or taken one, failure only when none is left, termination;
- IPAM: exclusive blocks and addresses, addresses in their owner's block, the quota, answers that are recorded, no lost line, every call ends;
- purge: it removes its own user's lines and no others';
- registration: one pending request per user, a decision is final, an approved request has an account;
- key changes: one pending request per user, a decision is final, an approved request's key was installed, and without overlapping decisions the key in force is the one last approved;
- VMs and clusters: the leases are those of an address pool, a machine's address is leased to it as long as it exists, a lease is named by a record from which a delete gives it back, a reported VM runs, a name comes free, the excess over the quota is bounded;
- users: no machine and no lease outlives its user.

PROJECT.json lists the hazards with their lines.

## 2. Modules

1. `IpNetwork` – arithmetic and the set form of the two searches. `IpScan` – their loops, one iteration per step.
2. `IpPool` – the abstract specification: ledgers change by whole grants and returns. `Ipam` – the scripts as processes under the lock; it EXTENDS `IpPool` and implements `PoolSpec`.
3. `IpamPurge` – `Ipam` with the unlocked rewrites of `user purge`.
4. `Registration` – API goroutines and root shells on the request files, with `user_add`.
5. `KeyChange` – the second request store, with `UpdateUserKey`, `key_approve` and `authorized_keys`.
6. `Provisioner` – what creations and deletions share: goroutines, the scripts' jobs, and one user's leases, with `allocate-ip` and `release-ip` as single steps, which `Ipam`'s `Refinement` justifies.
7. `VmLifecycle`, `ClusterLifecycle` – `create-vm`/`delete-vm` and `create-cluster`/`delete-cluster` over 6, with Terraform, vSphere and the management cluster as environments that succeed, fail, or fail after the fact.
8. `UserLifecycle` – `user_delete` and `user_purge` step by step, over 7.
9. `Resources` – the composition of 6 to 8 with restarts of the server; its leases are shown to implement `IpPool` (`INSTANCE IpPool WITH ...`).

```
IpNetwork <- IpScan
          <- IpPool <- Ipam <- IpamPurge
          <- Provisioner <- VmLifecycle, ClusterLifecycle <- UserLifecycle <- Resources
                                          IpPool (INSTANCE, refinement) <------'
Registration      KeyChange
```

All of the plan's modules are written, and every safety property of the passing runs is proved.

### How the models correspond to the code

`IpNetwork`, `IpScan`. Addresses are the integers of the shell arithmetic; the ledgers
hold dotted addresses, so the loops compare `Octets(n)`, and `RoundTrip` shows that
this comparison is exact. Bash arithmetic is 64 bit and does not wrap here.
`FreeBlocks`/`FreeIps` with `IsLeast` are what a loop returns; `IpScan` with its
theorem is the reason `Ipam` may use them as one step.

`IpPool`, `Ipam`. A ledger is the set of its lines without timestamps: readers filter
by column and never use the order. `pc`, `job` and `output` are a script's position,
arguments and printed value. One action per command that reads or writes shared state:
`Acquire` (`flock -w 30`), the decision (`AllocateBlock`, `AllocateIp`, `ReleaseIp`),
the write (`AppendBlock`, `AppendLease`, `ReplaceLeases`) and `Exit`; `LockTimeout` and
`Crash` end a script early. A grep over a ledger, an append of one line and a `mv` are
one step each; `mktemp` puts its file in `/tmp`, and that `mv` is atomic only when it is
on the same file system, which the model assumes (listed as a hazard). The dots of an
address are wildcards in `grep -v "^$ip<TAB>"`, but the pattern still matches only that
address: the line's address must have the same length and the same digits, and so has its
three dots where the pattern has them.

`IpamPurge`. For each ledger a purge is four steps: the shell opens (and empties) the
output of `grep -v ... > X.tmp`, grep reads the ledger, grep writes, and `mv` puts the
file in the ledger's place. The temporary file of each ledger is one variable because its
name is fixed, and a purge remembers which file it has open: the temporary file, the
ledger (another purge has moved the file there since), or one without a name. A grep that
writes into a file which another grep has filled overwrites its beginning and leaves any
of the lines further on (`Overwrite`). So a second purge can empty the first one's copy,
and it can write lines it read earlier into what has become the ledger meanwhile: a block
that was freed is then back. `BlocksGrantedWhole` states this as its exception, in the
history variable `overwritten`, which is set by exactly that write into
`allocations.tsv`; up to then blocks are granted whole whatever the purges do, and
`LonePurgeGrantsWhole` shows that it never happens with one administrator. The disk is
not full there. Destroying VMs before and removing directories after do not touch the
ledgers; `UserLifecycle` has them.

`Registration`. `store` is the directory of request files by ID. A request's number
stands for its ID and its `created_at`. `os.WriteFile` is two steps, `Truncate` and
`Write`, since processes outside the server see the empty file; readers skip it.
`writer` is the store's write lock. `req` is the copy a handler or shell works on,
already carrying the status it will write. `keyFiles` are the temporary public key
files, named after the user, so that two approvals of a user share one. `CommandFails`
is the difference `set -e` makes: for the API's child it ends `user_add`, in
`user_approve` (called in an `if`) it does not. `Restart` kills the goroutines and
their children at any point; `Quit` is a root shell that dies or an administrator who
declines. `outcomes` is a history variable. Which key is installed, e-mail domains,
the team and all rendering are left out. `CheckAccount` includes `generateID`; two
requests never collide in ID or nanosecond.

`KeyChange`. `store`, `tmpFile`, `writer` and `req` are as in `Registration`; a request's
number also stands for the key it asks for. `authorizedKeys` is the content of the
user's file: a key, empty (between the truncation and the filling, or when `jq` printed
an empty key), or no file after `userdel -r`. One chain of actions, `FindHome`,
`OpenKey`, `FillKey`, `OwnKey`, stands for `UpdateUserKey` and for the same commands in
`key_approve`; the differences are explicit (`ReadKey`, `Marking`, no `mkdir` in the
CLI). `CheckUser` has the existence check; the e-mail check after it never has an
address to compare, because nothing writes the file `GetUserEmail` reads. `decided`,
`installed`, `last` and `trouble` are history variables.

`Provisioner`, `VmLifecycle`, `ClusterLifecycle`. One user, since the directories, the
block and the leases of different users have nothing in common once `Ipam` keeps the
ledgers apart. `pc` and `job` are what the scripts of a goroutine's request do next, the
names they still work on and the addresses they hold. A directory is `NoDir`, `Bare`
(no `metadata.json`) or a record of status and addresses: `create-vm` and
`cluster_exists` ask for the directory, the API for the record, and the models keep
these two questions apart. `vmState` is which `terraform.tfstate` files have their
machine, without which `terraform destroy` does nothing and succeeds. `set -e` is off in
all four scripts, whose functions are called in an `if`: a failing destroy is passed
over, and a creation goes on to mark its VM failed. A VM with `count` 1 keeps its name,
others are `name-0`, `name-1`, ...; nodes are `name-cp` and `name-worker-1`, ..., and
`allocate-ip` finds leases by such names, so that a VM can be given the address of a
node. What the scripts do to `metadata.json` is several commands,
and the models keep what comes of that. A status is changed by `jq > metadata.json.tmp &&
mv` (`create-vm:330,337`, `delete-vm:73`), without a check of its success: it is a step
of its own (`VmReport`, `VmMark`), it fails on a full disk, and when another script is at
such a step, or has just begun to write the record, it may leave a `metadata.json` that
is no JSON, which for all readers counts as none: the directory is `Bare` again
(`SetVmStatus`). The first `metadata.json` (`create-vm:286`) is written without asking
whether that succeeded, so Terraform may run without a record (`WriteVmRecord`).
`rm -rf` of a directory in which another script writes leaves the directory, with or
without its record (`CutShort` in `VmRemove` and `RemoveDataFails`), and so may one that is
killed (`VmRestart`, `ClusterRestart`). A reader that comes in the instant in which a
file is rewritten is modelled for the scripts (`VmFind`), not for the API, whose next
read has the new file.
Statuses of clusters beyond `provisioning` are never written to disk. External:
Terraform makes a machine only in an existing folder and refuses a second one of the
same name; it does not remove a folder that is not empty; the nodes of a cluster use
their addresses from `kubectl apply` until the Cluster object is deleted.
What the API reads before it starts a script (`UserExists`, the quota, existence) is one
step; a goroutine reads the two in a row, and whatever comes between could as well come
after.

`UserLifecycle`. `admin` is one root shell with one `user delete` or `user purge`;
`UserAdd` is one step, after which the block and the Terraform state of the folder may
be missing, since a failure of either is only a warning. `AdminStops` is a declined
prompt, a command that fails under `set -e`, or a shell that dies, at any step;
`RemoveDataFails` is an `rm -rf` that did not get to its end. `FolderByHand` makes a folder
no Terraform state knows, which no command removes. The rewrites of the ledgers are one
step each here.

`faults` in these modules is a history variable of what has gone wrong: `overlap` (two
requests work on one name, or a request beside the administrator), `reuse` (a lease was
found by name), `timeout` (`release-ip` did not get the lock), `destroy` (Terraform or
kubectl left something behind), `restart`, `orphan` (a delete or purge began for a user
with clusters), `stopped` (a delete or purge did not end), `unleased` (a purge stopped
after it had freed the leases, and left records that name them), `disk` (a write failed),
`manifest` (`create-cluster` failed between its addresses and its record). Each property
names in its premise the faults that break it: dropping one from a premise makes TLC find
the behaviour, in the run's bounds or, for `unleased` in `LiveHasLease`, with a fourth
request. Only `manifest` is excluded by `LiveHasLease` and `NoLeaseOutlivesUser` without
need, as every way from it to a violation goes through another excluded fault. What the
exceptions mean:

- `LeaseHasRecord`, `manifest`: when `generate_cluster_manifests` finds no `vsphere.env` or
  no template (`create-cluster:155`, `:200`), the addresses stay leased, the directory
  stays without `metadata.json`, the API answers 404 to a delete, and `create-cluster`
  refuses the name. No request can ever release these leases.
- `NameNeverStuck`, `overlap`: two creations of one name share directory and
  `metadata.json.tmp`, and a deletion removes the directory under a creation; either can
  leave a directory without a record that neither `create-vm` nor the API will touch.
  `disk`: so does the failing write of the record.
- `RunningIsLive`, `disk`: a `jq` that fails at `delete-vm:73` leaves the status at
  running, and `delete-vm` destroys the machine all the same; until the directory is gone
  the VM is reported as running.

## 3. Runs

| Run | Checks | Bounds |
|---|---|---|
| `ip_scan` | `TypeOK`, `ReturnsLowestFree`, `ScanEnds` | a /27 in blocks of 8 that crosses an octet boundary; every ledger content; reserved addresses inside and at the end of a block |
| `ipam` | types, exclusivity, blocks, quota, `AnswerRecorded`, `DecisionsStand`, `NoLineLost`, `RefinesPool` | 3 processes, 3 users, 2 blocks, 3 addresses per block, quota 2: blocks run out before users do, one block runs out before the quota, in the other the quota comes first |
| `ipam_liveness` | `EveryCallReturns`, `LockComesFree` | 2 processes, 2 users, 2 blocks |
| `purge` | `PurgeTypeOK`, `BlocksGrantedWhole` | 1 process, 2 purges at once, 2 users, one block of two addresses (one reserved), one resource that has a user's name |
| `registration` | `TypeOK`, `OnePendingPerUser`, `NeverReopened`, `ApiApprovalHasAccount` | 2 goroutines and a root shell, a user who asks twice, restarts and dying shells without limit |
| `key_change` | `TypeOK`, `OnePendingPerUser`, `NeverReopened`, `ApiApprovalInstalledKey`, `KeyMatchesDecisions` | 2 goroutines and a root shell, one user, 2 requests; restarts, dying shells, full disks and `userdel` |
| `resources` | `TypeOK`, `LiveHasLease`, `RunningIsLive`, `LeaseHasRecord`, `QuotaOvershootBounded`, `NameNeverStuck`, `NoMachineOutlivesUser`, `NoLeaseOutlivesUser`, `LeasesFromPool` | 2 goroutines, 2 VM names, requests for both VMs, a cluster of 2 nodes one of which has a VM's name, quotas of 3 VMs and 2 addresses, 3 requests or commands in all |
| `purge_loses_block` | `OnlyOwnBlockFreed` is violated | 1 process, 1 purge, 2 blocks |
| `purge_drops_leases` | `OnlyOwnLeasesDropped` is violated | 1 process, 1 purge, 2 blocks |
| `approve_without_account` | `ApprovalHasAccount` is violated | 1 goroutine, 1 shell |
| `decision_overwritten` | `DecisionIsFinal` is violated | 2 goroutines, no shell |
| `purge_leaves_clusters` | `PurgeRemovesEverything` is violated | as `resources` |

Why the bounds are enough to be interesting: every property about exclusion is broken
by two actors at one step each, and the third process of `ipam` lets a third script see
the damage. Requests of different users meet only in the e-mail check and in their
accounts, which no property of `registration` relates, so one user with two requests
(a rejection followed by a new request, or two at once) has all the conflicts; the
runs that show violations use two users. `MaxRequests` bounds `Register` and
`CheckAccount`, and in `key_change` `Submit`; nothing else is bounded there. In
`resources`, `MaxCalls` bounds requests and commands together: three are a creation and
two others that overlap with it or follow it, or a creation, a purge and a new start
under the same name; restarts, failures and administrators who stop do not count. Two
addresses and three resource names make the quota of addresses bite within a cluster and
within a request for two VMs. Requests for a single VM are left to the theorems, which
are about requests of every length: they differ only in a check of the name that
`create-vm` repeats (`VmTest`), and a second VM that finds its name taken or no address
left leaves the first alone. Goroutines are interchangeable, so both runs use symmetry
for their safety properties; `LeasesFromPool` is a property of single steps and does
not tell goroutines apart either. `resources` also has a VIEW: of the history `faults` it
keeps only the answers that the invariants ask for (`Premises`). Nothing the program does
depends on `faults`, it only grows, and each premise says that it avoids a set of faults,
so of two states that differ in it and agree in the answers, every continuation gives
the same answers again; merging them hides no violation. For `purge`, one block suffices:
the two copies of a ledger differ by the one line that is granted or freed between them. `CHECK_DEADLOCK FALSE` is set only in
`ip_scan`, whose loops end.

What the violated runs show:

- `purge_loses_block`: an `allocate-block` between a purge's grep and its `mv` loses the block it has just printed, which will be granted again.
- `purge_drops_leases`: `grep -v "<TAB>name<TAB>"` also matches the resource column.
- `approve_without_account`: a failing `useradd` is ignored in `user_approve`, which then marks the request approved.
- `decision_overwritten`: an approval and a rejection both pass the status check and the later write wins.
- `purge_leaves_clusters`: `user_purge` destroys VMs only, then frees the leases of the clusters' nodes and removes their directories.

## 4. Fairness

Only `Ipam` and `IpScan` state any. `WF_vars(Step(p))` says that a started script runs
on: the kernel schedules every process, `flock -w 30` returns within thirty seconds
either with the lock or without it, and no other command blocks. Which of the two it is
stays open, so no script is promised the lock; `Call` and `Crash` are not fair. In
`IpScan` it is one loop of one process.

## 5. Proofs

For every network and any sets of processes, users, resources, goroutines and shells:

- `IpPoolProofs`: `PoolInv` is inductive (`PoolStep`), so the abstract pool keeps its four safety properties (`PoolSafety`). It needs that blocks are disjoint (`BlocksDisjoint`), which is arithmetic on multiples of `BlockSize`, and counts leases with the library's cardinality facts.
- `IpamProofs`: `IInv` adds to the pool's invariant that a process is past `acquire_lock` exactly while it holds the lock, that it is in the branch of its arguments, and that its decision still stands (`DecisionStands`). This is what makes the invariant inductive: `allocate-ip` looks only at the user's own leases, so that the address it records is free of everybody follows from the decision and from the blocks being disjoint (`FreeOfAll`). With it each step is a `PoolNext` step or leaves the ledgers alone (`StepRefines`), which gives `Refinement`, and through `PoolStep` the ledger properties (`LedgerSafety`). `Decisions` and `LinesKept` follow from the same invariant.
- `IpScanProofs`: `IInv` says that everything between the start and the cursor was taken; `SearchExact` is type correctness and `ReturnsLowestFree`.
- `IpamPurgeProofs`: without the lock, `DecisionStands` fails (a purge changes the ledgers under a script). What survives, and suffices for `PurgeTypes` and `GrantsStayWhole`, is weaker: `GrantInv` keeps the block decision only, and until a grep has written into `allocations.tsv` itself, neither the shared temporary file nor what a grep is about to write into it has a line that the ledger does not have: the only step that removes lines, the `mv`, takes the file away from everybody who has it open. `LonePurgeGrantsWhole` adds that with one administrator the output of a grep is always the temporary file (`OutputStays`), so that the exception of `BlocksGrantedWhole` is empty.
- `KeyChangeProofs`: `IInv` has five parts. `TypeInv` ties the copy an actor holds to the step it is at (`HandlerAt`, `ShellAt`); `TypeOK` alone is not inductive, for it allows an approver at `Create`. `FreshInv`: the ID of a request still to be written is in no file, no `.tmp` file and nobody else's hands, so what others write never meets it. `PendingInv` adds to `OnePendingPerUser` and `NeverReopened` that the user of a request being created has nothing pending until `Write`, which the lock is held for. `InstallInv` follows the key of an approval from `FillKey` to `Update`. `KeyInv` holds until there is trouble: at most one actor decides about a user (`OneDecides`), and the file of its request still says what it read (`DecisionOK`). Since the files of two deciders differ (`DecidersApart`), a step of one leaves the other's part alone (`DeciderActs`), and a step of anybody else leaves all of them alone (`OthersAct`).
- `RegistrationProofs`: four parts. `TypeInv` says which copy an actor holds at which step (`HandlerAt`, `ShellAt`), and `FreshInv` that the ID of a request still to be written is in nobody else's hands. `PendingInv` is about the goroutine that creates: it holds the lock since it looked for a pending request, all other writers write decisions (`Copies`), so `OnePendingPerUser` and `NeverReopened` survive. `AccountInv` follows `user_add` of an approving goroutine: the account it made stays and is enrolled, since `set -e` lets it go on to `Update` only when every command succeeded.
- `ResourcesProofs`: `TypeInv` ties names and addresses to the step (`JobAt`), and says that the leases are one-to-one. `AdminInv` has the order of a delete or purge: the account outlives the directory, a managed folder is gone before anything after it, and no folder means no machine (`MachinesNeedFolder`); `NoMachineOutlivesUser` follows. `ResourcesLeases` shows every step to be a step of `IpPool` or none (`GrantsBlock`, `GrantsIp`, `ReturnsIp`), but for a purge; it needs that a least free address exists (`LeastExists`), shown with the library's facts about injections of finite sets. `ResourcesQuota` has an invariant of its own, `QuotaInv`: what is still to come (`Awaited`, one element for each VM a goroutine has yet to make) loses an element with each record that is made (`VmComes`), and what the other goroutines have to come is a subset of a product (`CreationKeeps`), so the library's facts about the cardinality of subsets, differences and products suffice.
- `ResourcesLeaseProofs`: what holds until something goes wrong, with a second invariant, `IInv2`, on top of the first. Its parts hold under different premises, and each part is kept by the steps that do not add a fault of its premise.
  - Without `overlap` and `disk` (`Tidy`): requests have their names for themselves (`AloneInv`), so the directory a script works on is as the script made or found it (`DirsInv`), and a VM is set to running only when its machine is there (`RunningInv`, from which `ResourcesRunning`). A failed destroy of one VM, a lost lease or a restart breaks none of this.
  - Without `restart` and `unleased` besides: a directory without `metadata.json` has a script at a step that will write the file or remove the directory (`StuckInv`, from which `ResourcesNeverStuck`).
  - Without `overlap`, `disk`, `restart`, `timeout`, `orphan` and `manifest`: every lease is tracked (`TrackedInv`), by a record with that address or by a request that holds it. A restart kills a script between `allocate-ip` and the record, a timed-out `release-ip` leaves the line, and the end of a user with clusters removes the records: each makes a lease that nobody can find, as does a record that could not be written, so the premise cannot be weaker. `ResourcesLeasesFound` and `ResourcesNoLeaseLeft` follow, the latter because a delete goes on only when no VM directory is left and a purge frees the leases first.
  - With `timeout` and `stopped` only: the converse (`LiveInv`). Whoever has an address (`VmHas`, `ClusterHas`: the record until its script begins to give back, and the request that holds it before and after) has it leased to its own name, and nobody else has it (`AddressInv`); what is there is recorded with that address, and the administrator is not past it (`MachinesInv`, `NodesInv`). The sequences of a cluster are followed element by element: the addresses a request holds match its first nodes (`Matches`) while it allocates, and lose their head while it returns them. `ResourcesLive` follows, and so does `ResourcesApart`: no two machines or nodes use one address (`AddressesApart`).

Assumptions: the network and one block past it are IPv4 addresses
(`NetworkAssumption`), quotas are natural numbers (`PoolAssumption`), the markers for
"nobody" and for a file that is missing or empty are not processes, users, keys or
requests, and no goroutine is a shell (`IpamAssumption`, `KeyChangeAssumption`,
`RegistrationAssumption`); the first block fits into the network, the goroutines are
finitely many, VM requests are not empty and no longer than the code allows
(`MaxCount`), every cluster has a node, clusters are not named like machines, and the markers
for a missing address, directory or file are no addresses or records
(`ProvisionerAssumption`, `VmAssumption`, `VmDirAssumption`, `ClusterAssumption`,
`ClusterDirAssumption`).

Only model-checked: liveness (`EveryCallReturns`, `LockComesFree`, `ScanEnds`), which
is out of the prover's reach. Every other property of a passing run is stated by a
theorem.

## 6. Not modelled

- `mv` across file systems and half-written appends; file permissions. A full disk in the scripts of `Ipam` and in the rewrites of `IpamPurge`; in `KeyChange` and the VM scripts it is modelled.
- An API read that meets a `metadata.json` in the instant it is rewritten.
- E-mail addresses of key changes, the validators, and the texts of answers: one of them is wrong in a way no state shows, since the first `create-cluster` of a user prints kubectl's line about the new namespace before its JSON, and `CreateCluster` then reports a failure.
- Users side by side in `Resources`: their machines share vSphere names and folders only by prefixes that contain the user's name.
- The status of clusters as Cluster API reports it, and kubeconfigs: read, never written by what is modelled.
- HTML pages, reCAPTCHA, configuration, nginx, installation: no state that other parts depend on.
- The read-only commands.
- The generic unlocked writes of `set_user_metadata`.

## 7. Files

`X.tla` is a model, `XProofs.tla` its theorems, `MCX.tla` its instance for TLC and
`MCX*.cfg` the configurations. Operators that stand right before the definition they
vary and are used nowhere else (`TakeLock` is the exception: `Acquire` uses it) are the
mutations listed in PROJECT.json: each breaks the property it is listed with.
