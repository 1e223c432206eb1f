-------------------------------- MODULE Ipam --------------------------------
(***************************************************************************)
(* The IP address manager as it runs: any number of allocate-block,        *)
(* allocate-ip and release-ip processes, started by the API server and by  *)
(* users at a shell, share allocations.tsv and leases.tsv. Each takes      *)
(* flock on ipam/.lock, reads, decides, writes and exits; each can be      *)
(* killed between any two of these steps, and the kernel then drops its    *)
(* lock. Nothing but the lock orders the processes.                        *)
(*                                                                         *)
(* A process reads its arguments before it asks for the lock but uses them *)
(* only under it, so Acquire is where the model chooses them. A search of  *)
(* the ledger is one step: IpScan shows what its loop returns.             *)
(*                                                                         *)
(* The module extends IpPool, whose variables are the two ledgers: what    *)
(* the scripts do to them implements PoolSpec with the ledgers mapped to   *)
(* themselves and the variables below hidden.                              *)
(***************************************************************************)
EXTENDS IpPool

CONSTANTS
  Procs,      \* process slots: at most this many scripts run at once
  Ips,        \* the addresses callers ask to release
  NoProc,     \* nobody holds the lock
  AnyUser     \* release-ip without its second argument

VARIABLES
  lock,         \* the process that holds flock on ipam/.lock, or NoProc
  pc,           \* what each process does next
  job,          \* its arguments, from Acquire to Exit
  output,       \* what it has printed, or is about to record: an address
  tmpFile       \* the mktemp file of release-ip: the lines that stay

vars == << allocations, leases, lock, pc, job, output, tmpFile >>

ASSUME IpamAssumption ==
  /\ NoProc \notin Procs
  /\ AnyUser \notin Users
  /\ Ips \subseteq Nat

NoOutput == -1  \* nothing on stdout: the script fails, or has not decided yet
NoJob == [op |-> "none"]
Jobs ==
  [op : {"allocate-block"}, user : Users] \cup
  [op : {"allocate-ip"}, user : Users, resource : Resources, type : Types] \cup
  [op : {"release-ip"}, ip : Ips, user : Users \cup {AnyUser}]

AllocationsOf(u) == {a \in allocations : a.user = u}
LinesOf(ip) == {l \in leases : l.ip = ip}

Init ==
  /\ PoolInit
  /\ lock = NoProc
  /\ pc = [p \in Procs |-> "idle"]
  /\ job = [p \in Procs |-> NoJob]
  /\ output = [p \in Procs |-> NoOutput]
  /\ tmpFile = [p \in Procs |-> {}]

-----------------------------------------------------------------------------
(* The lock: acquire_lock and the EXIT trap. *)

\* Somebody runs one of the three scripts.
Call(p) ==
  /\ pc[p] = "idle"
  /\ pc' = [pc EXCEPT ![p] = "waiting"]
  /\ UNCHANGED << allocations, leases, lock, job, output, tmpFile >>

\* The arguments of the script, and the branch of main they select.
TakeLock(p) ==
  /\ pc[p] = "waiting"
  /\ lock' = p
  /\ \E j \in Jobs : /\ job' = [job EXCEPT ![p] = j]
                     /\ pc' = [pc EXCEPT ![p] = j.op]
  /\ UNCHANGED << allocations, leases, output, tmpFile >>

\* flock -w 30 succeeds.
Acquire(p) == lock = NoProc /\ TakeLock(p)

Leave(p) ==
  /\ pc' = [pc EXCEPT ![p] = "idle"]
  /\ job' = [job EXCEPT ![p] = NoJob]
  /\ output' = [output EXCEPT ![p] = NoOutput]
  /\ tmpFile' = [tmpFile EXCEPT ![p] = {}]
  /\ UNCHANGED << allocations, leases >>

\* The 30 seconds pass while another process holds the lock: exit 1.
LockTimeoutNever(p) == FALSE /\ Leave(p) /\ UNCHANGED lock
LockTimeout(p) ==
  /\ pc[p] = "waiting"
  /\ lock # NoProc
  /\ Leave(p)
  /\ UNCHANGED lock

\* The descriptor of the lock file is closed, by the EXIT trap or by the kernel.
CloseNothing(p) == UNCHANGED lock
CloseLock(p) == lock' = IF lock = p THEN NoProc ELSE lock

\* The script ends, with or without an answer.
Exit(p) == pc[p] = "exit" /\ Leave(p) /\ CloseLock(p)

\* The script is killed; what it has written to the ledgers stays.
Crash(p) == pc[p] # "idle" /\ Leave(p) /\ CloseLock(p)

-----------------------------------------------------------------------------
(* The three scripts, from the lock to the exit. *)

\* A script goes on to its next command with out as its answer.
Proceed(p, next, out) ==
  /\ pc' = [pc EXCEPT ![p] = next]
  /\ output' = [output EXCEPT ![p] = out]
  /\ UNCHANGED << allocations, leases, lock, job >>
Answer(p, out) == Proceed(p, "exit", out) /\ UNCHANGED tmpFile
Fail(p) == Answer(p, NoOutput)

\* find_next_available_ip prints nothing and returns 1.
RecordNothing(p) == Proceed(p, "append-lease", NoOutput) /\ UNCHANGED tmpFile
NoFreeIp(p) == Fail(p)

\* current_usage -ge max_ips
QuotaExceeded(u) == Cardinality(LeasesOf(u)) > MaxIps
QuotaReached(u) == Cardinality(LeasesOf(u)) >= MaxIps

\* The awk filter of allocate-ip: the lease a resource of the user already has.
LeaseNamed(u, r) == {l \in leases : l.resource = r}
LeaseOfResource(u, r) == {l \in LeasesOf(u) : l.resource = r}

\* allocate-block: an existing block is printed again; otherwise the lowest
\* block no line of allocations.tsv names will be recorded.
AllocateBlock(p) ==
  /\ pc[p] = "allocate-block"
  /\ LET mine == AllocationsOf(job[p].user)
         free == FreeBlocks(BlocksTaken)
     IN  \/ \E a \in mine : Answer(p, a.block)
         \/ mine = {} /\ free = {} /\ Fail(p)
         \/ /\ mine = {}
            /\ \E b \in free : /\ IsLeast(b, free)
                               /\ Proceed(p, "append-block", b)
            /\ UNCHANGED tmpFile

\* echo ... >> allocations.tsv, then the block is printed.
AppendBlock(p) ==
  /\ pc[p] = "append-block"
  /\ allocations' = allocations \cup
       {[user |-> job[p].user, block |-> output[p]]}
  /\ pc' = [pc EXCEPT ![p] = "exit"]
  /\ UNCHANGED << leases, lock, job, output, tmpFile >>

\* allocate-ip: no block is an error; a lease of that name is printed again,
\* whatever its type; then the quota; then the lowest address of the block that
\* is not reserved and not leased to this user. Other users' leases are not
\* looked at: that blocks are disjoint is what keeps them apart.
AllocateIp(p) ==
  /\ pc[p] = "allocate-ip"
  /\ LET u == job[p].user
         same == LeaseOfResource(u, job[p].resource)
     IN  \/ AllocationsOf(u) = {} /\ Fail(p)
         \/ /\ AllocationsOf(u) # {}
            /\ \E l \in same : Answer(p, l.ip)
         \/ /\ AllocationsOf(u) # {} /\ same = {}
            /\ QuotaReached(u) /\ Fail(p)
         \/ /\ same = {} /\ ~QuotaReached(u)
            /\ \E a \in AllocationsOf(u) :
                 LET free == FreeIps(a.block, {l.ip : l \in LeasesOf(u)})
                 IN  \/ free = {} /\ NoFreeIp(p)
                     \/ /\ \E ip \in free : /\ IsLeast(ip, free)
                                            /\ Proceed(p, "append-lease", ip)
                        /\ UNCHANGED tmpFile

\* echo ... >> leases.tsv, then the address is printed.
AppendLease(p) ==
  /\ pc[p] = "append-lease"
  /\ leases' = leases \cup
       {[ip |-> output[p], user |-> job[p].user,
         resource |-> job[p].resource, type |-> job[p].type]}
  /\ pc' = [pc EXCEPT ![p] = "exit"]
  /\ UNCHANGED << allocations, lock, job, output, tmpFile >>

\* release-ip: an address without a lease is an error, and so is one whose
\* owner is not the user named. cut -f2 prints one owner per line, so two lines
\* for one address match no user name. The lines that stay go to a mktemp file.
IsLeased(ip, u) == LinesOf(ip) # {}
MayRelease(ip, u) ==
  /\ LinesOf(ip) # {}
  /\ u # AnyUser => \E l \in LinesOf(ip) : l.user = u /\ LinesOf(ip) = {l}
ReleaseIp(p) ==
  /\ pc[p] = "release-ip"
  /\ \/ ~MayRelease(job[p].ip, job[p].user) /\ Fail(p)
     \/ /\ MayRelease(job[p].ip, job[p].user)
        /\ tmpFile' = [tmpFile EXCEPT ![p] = {l \in leases : l.ip # job[p].ip}]
        /\ Proceed(p, "replace-leases", NoOutput)

\* mv of the mktemp file over leases.tsv.
ReplaceLeases(p) ==
  /\ pc[p] = "replace-leases"
  /\ leases' = tmpFile[p]
  /\ tmpFile' = [tmpFile EXCEPT ![p] = {}]
  /\ pc' = [pc EXCEPT ![p] = "exit"]
  /\ UNCHANGED << allocations, lock, job, output >>

-----------------------------------------------------------------------------
\* What a running script does by itself.
Step(p) ==
  \/ Acquire(p) \/ LockTimeout(p) \/ Exit(p)
  \/ AllocateBlock(p) \/ AppendBlock(p)
  \/ AllocateIp(p) \/ AppendLease(p)
  \/ ReleaseIp(p) \/ ReplaceLeases(p)

Next == \E p \in Procs : Call(p) \/ Step(p) \/ Crash(p)

\* The kernel runs every process, and flock waits at most 30 seconds: a script
\* that can go on does. Nobody has to call one, and none has to crash.
Fairness == \A p \in Procs : WF_vars(Step(p))

Spec == Init /\ [][Next]_vars /\ Fairness

-----------------------------------------------------------------------------
TypeOK ==
  /\ PoolTypeOK
  /\ lock \in Procs \cup {NoProc}
  /\ pc \in [Procs -> {"idle", "waiting", "exit", "allocate-block",
                       "append-block", "allocate-ip", "append-lease",
                       "release-ip", "replace-leases"}]
  /\ job \in [Procs -> Jobs \cup {NoJob}]
  /\ output \in [Procs -> Nat \cup {NoOutput}]
  /\ tmpFile \in [Procs -> SUBSET Lease]

\* A script that exits with an address exits with one that the ledger gives to
\* its arguments: the caller never builds on a block or address not recorded.
AnswerOk(p) ==
  pc[p] = "exit" /\ output[p] # NoOutput =>
    \/ /\ job[p].op = "allocate-block"
       /\ [user |-> job[p].user, block |-> output[p]] \in allocations
    \/ /\ job[p].op = "allocate-ip"
       /\ \E l \in leases : /\ l.ip = output[p]
                            /\ l.user = job[p].user
                            /\ l.resource = job[p].resource
AnswerRecorded == \A p \in Procs : AnswerOk(p)

\* What a script has decided under the lock is still true when it acts on it:
\* the block is still free, the address still unleased and within quota, the
\* copy still the whole file without the released address.
DecisionStands(p) ==
  /\ pc[p] = "append-block" =>
       ~HasBlock(job[p].user) /\ output[p] \in FreeBlocks(BlocksTaken)
  /\ pc[p] = "append-lease" =>
       /\ LeaseOfResource(job[p].user, job[p].resource) = {}
       /\ ~QuotaReached(job[p].user)
       /\ \E a \in AllocationsOf(job[p].user) :
            output[p] \in FreeIps(a.block, LeasedIps)
  /\ pc[p] = "replace-leases" =>
       /\ MayRelease(job[p].ip, job[p].user)
       /\ tmpFile[p] = {l \in leases : l.ip # job[p].ip}
DecisionsStand == \A p \in Procs : DecisionStands(p)

\* A line leaves leases.tsv only by a release-ip of its address whose caller
\* named its user or none: no rewrite of the file loses what another script
\* has appended since the copy was made. A line of allocations.tsv never leaves.
NoLineLost ==
  [][ /\ allocations \subseteq allocations'
      /\ \A l \in leases \ leases' :
           \E p \in Procs : /\ pc[p] = "replace-leases"
                            /\ job[p].ip = l.ip
                            /\ job[p].user \in {l.user, AnyUser} ]_vars

\* The scripts' many small steps amount to whole grants and returns.
RefinesPool == PoolSpec

\* Every script that is started ends, even when the lock is always contended.
EveryCallReturns == \A p \in Procs : pc[p] = "waiting" ~> pc[p] = "idle"

\* Whoever holds the lock, it becomes free: a killed script wedges nobody.
LockComesFree == lock # NoProc ~> lock = NoProc
=============================================================================
