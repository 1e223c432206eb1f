--------------------------- MODULE IpamPurgeProofs ---------------------------
(***************************************************************************)
(* What survives purges that do not take the lock, for any number of       *)
(* administrators and scripts: a block is still granted whole, as long as  *)
(* no grep writes into allocations.tsv itself. The reason is that until    *)
(* then only the mv of allocations.tsv.tmp ever takes a line out of        *)
(* allocations.tsv, and it takes the temporary file away from all who have *)
(* it open: what is in that file, or is about to be written to it, is      *)
(* never older than the last removal, and has no line that the ledger does *)
(* not have. With one administrator it is never otherwise.                 *)
(***************************************************************************)
EXTENDS IpamPurge, IpamProofs

\* What is left of ProcInv when the ledgers change under the lock.
GrantInv(p) ==
  /\ pc[p] \in Working <=> lock = p
  /\ pc[p] \in {"allocate-block", "append-block"} => job[p] \in BlockJobs
  /\ pc[p] \in {"allocate-ip", "append-lease"} => job[p] \in IpJobs
  /\ pc[p] = "append-block" => output[p] \in Blocks
  /\ ~overwritten /\ pc[p] = "append-block" =>
       ~HasBlock(job[p].user) /\ output[p] \in FreeBlocks(BlocksTaken)
  /\ pc[p] = "append-lease" => output[p] \in Nat

\* What a purge holds fits its command, and what it has open for writing is there.
HolderInv(a) ==
  LET s == admin[a] IN
  /\ s \in Purges \cup {Idle}
  /\ s.pc = "write-allocations" => s.copy \subseteq Allocation
  /\ s.pc = "write-leases" => s.copy \subseteq Lease
  /\ s # Idle => (s.output = "none" <=> s.pc \notin OnAllocations \cup OnLeases)
  /\ s.pc \in OnAllocations /\ s.output = "tmp" => allocationsTmp \subseteq Allocation
  /\ s.pc \in OnLeases /\ s.output = "tmp" => leasesTmp \subseteq Lease

CopyInv(a) ==
  ~overwritten /\ admin[a].pc \in OnAllocations /\ admin[a].output = "tmp" =>
    /\ allocationsTmp \subseteq allocations
    /\ admin[a].pc = "write-allocations" => admin[a].copy \subseteq allocations

NoStaleCopy ==
  ~overwritten => allocationsTmp = NoFile \/ allocationsTmp \subseteq allocations

FileTypes ==
  /\ allocationsTmp = NoFile \/ allocationsTmp \subseteq Allocation
  /\ leasesTmp = NoFile \/ leasesTmp \subseteq Lease
  /\ overwritten \in BOOLEAN

PInv ==
  /\ TypeOK /\ FileTypes /\ NoStaleCopy
  /\ admin = [a \in Admins |-> admin[a]]
  /\ \A a \in Admins : HolderInv(a) /\ CopyInv(a)
  /\ \A p \in Procs : GrantInv(p)

-----------------------------------------------------------------------------
LEMMA PurgeTypesOfParts == PInv => PurgeTypeOK
  BY DEF PInv, HolderInv, FileTypes, PurgeTypeOK

LEMMA PurgeInitial == InitWithAdmins => PInv
<1> SUFFICES ASSUME InitWithAdmins PROVE PInv
  OBVIOUS
<1>1. TypeOK
  BY IpamInitial DEF InitWithAdmins, IInv
<1>2. ASSUME NEW p \in Procs PROVE GrantInv(p)
  BY IpamAssumption DEF InitWithAdmins, Init, GrantInv, Working
<1>3. ASSUME NEW a \in Admins PROVE HolderInv(a) /\ CopyInv(a)
  BY DEF InitWithAdmins, HolderInv, CopyInv, Idle, OnAllocations, OnLeases
<1>4. QED
  BY <1>1, <1>2, <1>3 DEF InitWithAdmins, PInv, FileTypes, NoStaleCopy

\* A process keeps its part when it stands still and the ledger of blocks only
\* shrinks, or grows while another process holds the lock, or a grep has written
\* into it.
LEMMA GrantKept ==
  ASSUME NEW q \in Procs, GrantInv(q),
         pc'[q] = pc[q], job'[q] = job[q], output'[q] = output[q],
         lock' = q <=> lock = q,
         ~overwritten' => ~overwritten,
         ~overwritten' /\ lock = q => allocations' \subseteq allocations
  PROVE  GrantInv(q)'
<1>1. CASE lock = q /\ ~overwritten'
  BY <1>1 DEF GrantInv, HasBlock, FreeBlocks, BlocksTaken
<1>2. CASE lock # q \/ overwritten'
  BY <1>2 DEF GrantInv, Working
<1>3. QED
  BY <1>1, <1>2

-----------------------------------------------------------------------------
(* The scripts. *)

LEMMA DecidingKeeps ==
  ASSUME TypeOK, NEW p \in Procs, GrantInv(p),
         UNCHANGED overwritten,
         AllocateBlock(p) \/ AllocateIp(p) \/ ReleaseIp(p)
  PROVE  TypeOK' /\ GrantInv(p)'
<1>1. /\ lock = p /\ UNCHANGED << allocations, leases, lock, job >>
      /\ tmpFile' \in [Procs -> SUBSET Lease]
  BY DEF AllocateBlock, AllocateIp, ReleaseIp, GrantInv, Working, Answer, Fail,
         NoFreeIp, Proceed, TypeOK, PoolTypeOK
<1>2. SUFFICES ASSUME NEW next \in {"exit", "append-block", "append-lease",
                                    "replace-leases"},
                      NEW out \in Nat \cup {NoOutput},
                      Proceed(p, next, out),
                      /\ next = "append-block" =>
                           /\ pc[p] = "allocate-block"
                           /\ AllocationsOf(job[p].user) = {}
                           /\ out \in FreeBlocks(BlocksTaken)
                      /\ next = "append-lease" =>
                           pc[p] = "allocate-ip" /\ out \in Nat
               PROVE  TypeOK' /\ GrantInv(p)'
  <2>1. CASE AllocateBlock(p)
    <3>1. \A b \in Blocks : b \in Nat
      BY NetworkAssumption DEF Blocks, FirstBlock, NetworkEnd
    <3>2. \A a \in allocations : a.block \in Nat
      BY <3>1 DEF TypeOK, PoolTypeOK, Allocation
    <3>3. QED
      BY <1>2, <2>1, <3>1, <3>2
      DEF AllocateBlock, AllocationsOf, FreeBlocks, Answer, Fail
  <2>2. CASE AllocateIp(p)
    <3>1. \A a \in allocations : \A ip \in IpsOf(a.block) : ip \in Nat
      BY NetworkAssumption DEF TypeOK, PoolTypeOK, Allocation, Blocks,
         FirstBlock, NetworkEnd, IpsOf
    <3>2. \A l \in leases : l.ip \in Nat
      BY DEF TypeOK, PoolTypeOK, Lease
    <3>3. QED
      BY <1>2, <2>2, <3>1, <3>2 DEF AllocateIp, AllocationsOf, LeaseOfResource,
         LeasesOf, FreeIps, Answer, Fail, NoFreeIp
  <2>3. CASE ReleaseIp(p)
    BY <1>2, <2>3 DEF ReleaseIp, Answer, Fail
  <2>4. QED
    BY <2>1, <2>2, <2>3
<1>3. pc' = [pc EXCEPT ![p] = next] /\ output' = [output EXCEPT ![p] = out]
  BY <1>2 DEF Proceed
<1>4. TypeOK'
  BY <1>1, <1>3 DEF TypeOK, PoolTypeOK
<1>5. GrantInv(p)'
  BY <1>1, <1>2, <1>3 DEF GrantInv, Working, TypeOK, HasBlock, AllocationsOf,
     FreeBlocks, BlocksTaken
<1>6. QED
  BY <1>4, <1>5

LEMMA WritingKeeps ==
  ASSUME TypeOK, NEW p \in Procs, GrantInv(p),
         UNCHANGED overwritten,
         AppendBlock(p) \/ AppendLease(p) \/ ReplaceLeases(p)
  PROVE  TypeOK' /\ GrantInv(p)'
<1>1. /\ lock = p /\ UNCHANGED << lock, job, output >>
      /\ pc' = [pc EXCEPT ![p] = "exit"]
      /\ tmpFile' \in [Procs -> SUBSET Lease]
  BY DEF AppendBlock, AppendLease, ReplaceLeases, GrantInv, Working, TypeOK
<1>2. PoolTypeOK'
  <2>1. CASE AppendBlock(p)
    BY <2>1 DEF AppendBlock, GrantInv, BlockJobs, FreeBlocks, TypeOK,
       PoolTypeOK, Allocation
  <2>2. CASE AppendLease(p)
    BY <2>2 DEF AppendLease, GrantInv, IpJobs, TypeOK, PoolTypeOK, Lease
  <2>3. CASE ReplaceLeases(p)
    BY <2>3 DEF ReplaceLeases, TypeOK, PoolTypeOK
  <2>4. QED
    BY <2>1, <2>2, <2>3
<1>3. TypeOK'
  BY <1>1, <1>2 DEF TypeOK
<1>4. GrantInv(p)'
  BY <1>1 DEF GrantInv, Working, TypeOK
<1>5. QED
  BY <1>3, <1>4

LEMMA LockingKeeps ==
  ASSUME TypeOK, NEW p \in Procs, GrantInv(p),
         UNCHANGED overwritten,
         Call(p) \/ Acquire(p) \/ LockTimeout(p) \/ Exit(p) \/ Crash(p)
  PROVE  TypeOK' /\ GrantInv(p)'
<1>1. UNCHANGED << allocations, leases >>
  BY LedgersUntouched DEF poolVars
<1>2. CASE Call(p)
  BY <1>1, <1>2 DEF Call, TypeOK, PoolTypeOK, GrantInv, Working
<1>3. CASE Acquire(p)
  <2>1. PICK j \in Jobs : job' = [job EXCEPT ![p] = j] /\ pc' = [pc EXCEPT ![p] = j.op]
    BY <1>3 DEF Acquire, TakeLock
  <2>2. j \in BlockJobs \/ j \in IpJobs \/ j \in ReleaseJobs
    BY DEF Jobs, BlockJobs, IpJobs, ReleaseJobs
  <2>3. j.op \in {"allocate-block", "allocate-ip", "release-ip"}
    BY <2>2 DEF BlockJobs, IpJobs, ReleaseJobs
  <2>4. lock' = p /\ UNCHANGED << output, tmpFile >>
    BY <1>3 DEF Acquire, TakeLock
  <2>5. TypeOK'
    BY <1>1, <2>1, <2>3, <2>4 DEF TypeOK, PoolTypeOK
  <2>6. pc'[p] = j.op /\ job'[p] = j
    BY <2>1 DEF TypeOK
  <2>7. /\ pc'[p] = "allocate-block" => j \in BlockJobs
        /\ pc'[p] = "allocate-ip" => j \in IpJobs
    BY <2>2, <2>6 DEF BlockJobs, IpJobs, ReleaseJobs
  <2>8. GrantInv(p)'
    BY <2>3, <2>4, <2>6, <2>7 DEF GrantInv, Working
  <2>9. QED
    BY <2>5, <2>8
<1>4. CASE LockTimeout(p) \/ Exit(p) \/ Crash(p)
  <2>1. Leave(p) /\ lock' # p /\ lock' \in {lock, NoProc}
    BY <1>4, IpamAssumption
    DEF LockTimeout, Exit, Crash, CloseLock, GrantInv, Working
  <2>2. TypeOK'
    BY <1>1, <2>1 DEF Leave, TypeOK, PoolTypeOK
  <2>3. pc'[p] = "idle"
    BY <2>1 DEF Leave, TypeOK
  <2>4. GrantInv(p)'
    BY <2>1, <2>3 DEF GrantInv, Working
  <2>5. QED
    BY <2>2, <2>4
<1>5. QED
  BY <1>2, <1>3, <1>4

\* One script's step leaves the other scripts' part alone.
LEMMA OthersGrantKept ==
  ASSUME TypeOK, NEW p \in Procs, NEW q \in Procs, q # p,
         GrantInv(p), GrantInv(q), UNCHANGED overwritten,
         Call(p) \/ Step(p) \/ Crash(p)
  PROVE  GrantInv(q)'
<1>1. pc'[q] = pc[q] /\ job'[q] = job[q] /\ output'[q] = output[q]
  BY DEF TypeOK, Step, Call, Crash, Acquire, TakeLock, LockTimeout, Exit,
     Leave, AllocateBlock, AppendBlock, AllocateIp, AppendLease, ReleaseIp,
     ReplaceLeases, Answer, Fail, NoFreeIp, Proceed
<1>2. lock' = q <=> lock = q
  <2>1. CASE Acquire(p) \/ Exit(p) \/ Crash(p)
    BY <2>1, IpamAssumption DEF Acquire, TakeLock, Exit, Crash, CloseLock
  <2>2. CASE Call(p) \/ LockTimeout(p) \/ AppendBlock(p) \/ AppendLease(p)
             \/ ReplaceLeases(p)
    BY <2>2 DEF Call, LockTimeout, AppendBlock, AppendLease, ReplaceLeases
  <2>3. CASE AllocateBlock(p) \/ AllocateIp(p) \/ ReleaseIp(p)
    BY <2>3 DEF AllocateBlock, AllocateIp, ReleaseIp, Answer, Fail, NoFreeIp,
       Proceed
  <2>4. QED
    BY <2>1, <2>2, <2>3 DEF Step
<1>3. lock = q => allocations' \subseteq allocations
  <2>1. CASE AppendBlock(p)
    BY <2>1 DEF AppendBlock, GrantInv, Working
  <2>2. CASE ~AppendBlock(p)
    BY <2>2, LedgersUntouched DEF Step, AppendLease, ReplaceLeases, poolVars
  <2>3. QED
    BY <2>1, <2>2
<1>4. QED
  BY <1>1, <1>2, <1>3, GrantKept

-----------------------------------------------------------------------------
(* The purges. *)

\* A purge that stands still keeps its part when what it has open keeps it, and
\* the ledger does not shrink.
LEMMA HolderKept ==
  ASSUME NEW b \in Admins, HolderInv(b),
         admin'[b] = admin[b],
         allocationsTmp \subseteq Allocation => allocationsTmp' \subseteq Allocation,
         leasesTmp \subseteq Lease => leasesTmp' \subseteq Lease
  PROVE  HolderInv(b)'
BY DEF HolderInv

LEMMA CopyKept ==
  ASSUME NEW b \in Admins, CopyInv(b),
         admin'[b] = admin[b],
         ~overwritten' => ~overwritten /\ allocations \subseteq allocations',
         ~overwritten' /\ allocationsTmp \subseteq allocations =>
           allocationsTmp' \subseteq allocations'
  PROVE  CopyInv(b)'
BY DEF CopyInv

\* What a purge has open after a mv is in no temporary file any more.
LEMMA MovedHolder ==
  ASSUME NEW b \in Admins, HolderInv(b),
         \/ admin[b].pc \in OnAllocations /\ admin'[b] = Moved(b)
            /\ UNCHANGED leasesTmp
         \/ admin[b].pc \in OnLeases /\ admin'[b] = Moved(b)
            /\ UNCHANGED allocationsTmp
         \/ admin[b].pc \in OnLeases /\ admin'[b] = Unlinked(b)
            /\ UNCHANGED << allocationsTmp, leasesTmp >>
  PROVE  HolderInv(b)' /\ (admin[b].pc \in OnAllocations => CopyInv(b)')
         /\ (admin[b].pc \in OnLeases => CopyInv(b)')
<1>1. admin[b] \in Purges /\ admin[b].output # "none"
  BY DEF HolderInv, Idle, OnAllocations, OnLeases
<1>2. /\ Moved(b) \in Purges /\ Moved(b).pc = admin[b].pc
      /\ Moved(b).copy = admin[b].copy /\ Moved(b).output \in {"ledger", "gone"}
  BY <1>1 DEF Moved, Purges, Outputs
<1>3. /\ Unlinked(b) \in Purges /\ Unlinked(b).pc = admin[b].pc
      /\ Unlinked(b).copy = admin[b].copy
      /\ Unlinked(b).output \in {"tmp", "gone"}
      /\ Unlinked(b).output = "tmp" => admin[b].output = "tmp"
  BY <1>1 DEF Unlinked, Purges, Outputs
<1>4. CASE admin'[b] = Moved(b)
  BY <1>1, <1>2, <1>4 DEF HolderInv, CopyInv, OnAllocations, OnLeases, Idle, Purges
<1>5. CASE admin'[b] = Unlinked(b)
  <2>1. admin[b].pc \in OnLeases \/ admin'[b] = Moved(b)
    OBVIOUS
  <2>2. CASE admin'[b] # Moved(b)
    <3>1. /\ admin[b].pc \in OnLeases /\ UNCHANGED << allocationsTmp, leasesTmp >>
          /\ admin'[b].pc = admin[b].pc /\ admin'[b].copy = admin[b].copy
          /\ admin'[b].output # "none"
          /\ admin'[b].output = "tmp" => admin[b].output = "tmp"
      BY <1>3, <1>5, <2>1, <2>2
    <3>2. QED
      BY <1>3, <1>5, <3>1 DEF HolderInv, CopyInv, OnAllocations, OnLeases
  <2>3. QED
    BY <1>4, <2>2
<1>6. QED
  BY <1>4, <1>5

\* A purge goes on to its next command.
LEMMA GoesOn ==
  ASSUME PInv, NEW a \in Admins, ~At(a, "idle"),
         NEW step \in PurgeSteps, NEW out \in Outputs,
         NEW lines \in (SUBSET Allocation) \cup (SUBSET Lease),
         admin'[a] = Doing(a, step, out, lines),
         step = "write-allocations" => lines \subseteq Allocation,
         step = "write-leases" => lines \subseteq Lease,
         out = "none" <=> step \notin OnAllocations \cup OnLeases,
         step \in OnAllocations /\ out = "tmp" => allocationsTmp' \subseteq Allocation,
         step \in OnLeases /\ out = "tmp" => leasesTmp' \subseteq Lease,
         ~overwritten' /\ step \in OnAllocations /\ out = "tmp" =>
           /\ allocationsTmp' \subseteq allocations'
           /\ step = "write-allocations" => lines \subseteq allocations'
  PROVE  HolderInv(a)' /\ CopyInv(a)'
<1>1. admin[a] \in Purges
  BY DEF PInv, HolderInv, At, Idle
<1>2. /\ Doing(a, step, out, lines) \in Purges
      /\ Doing(a, step, out, lines).pc = step
      /\ Doing(a, step, out, lines).output = out
      /\ Doing(a, step, out, lines).copy = lines
  BY <1>1 DEF Doing, Purges
<1>3. QED
  BY <1>2 DEF HolderInv, CopyInv

LEMMA Stops ==
  ASSUME NEW a \in Admins, admin'[a] = Idle
  PROVE  HolderInv(a)' /\ CopyInv(a)'
BY DEF HolderInv, CopyInv, Idle, OnAllocations, OnLeases

\* GoTo and Stop change one purge.
LEMMA OnePurge ==
  ASSUME PInv, NEW a \in Admins, NEW s, admin' = [admin EXCEPT ![a] = s]
  PROVE  /\ admin' = [b \in Admins |-> admin'[b]]
         /\ admin'[a] = s
         /\ \A b \in Admins : b # a => admin'[b] = admin[b]
BY DEF PInv

-----------------------------------------------------------------------------
(* The purges. *)

\* What every step of a purge keeps; and it takes lines out of allocations.tsv
\* only, unless a grep writes into it.
PurgeKept ==
  /\ TypeOK' /\ FileTypes' /\ NoStaleCopy'
  /\ admin' = [b \in Admins |-> admin'[b]]
  /\ \A b \in Admins : HolderInv(b)' /\ CopyInv(b)'
  /\ ~overwritten' => ~overwritten /\ allocations' \subseteq allocations
  /\ UNCHANGED << lock, pc, job, output >>

\* The commands that read or write no ledger.
LEMMA QuietKeeps ==
  ASSUME PInv, NEW a \in Admins,
         \/ Purge(a) \/ AdminCrash(a) \/ OpenAllocations(a) \/ ReadAllocations(a)
         \/ OpenLeases(a) \/ ReadLeases(a)
  PROVE  PurgeKept
<1>1. UNCHANGED << vars, overwritten >>
  BY DEF Purge, AdminCrash, OpenAllocations, ReadAllocations, OpenLeases,
         ReadLeases, files
<1>2. UNCHANGED files \/ (OpenAllocations(a) /\ allocationsTmp' = {} /\ UNCHANGED leasesTmp)
      \/ (OpenLeases(a) /\ leasesTmp' = {} /\ UNCHANGED allocationsTmp)
  BY DEF Purge, AdminCrash, OpenAllocations, ReadAllocations, OpenLeases,
         ReadLeases, files
<1>3. TypeOK' /\ UNCHANGED << lock, pc, job, output, allocations >>
  BY <1>1 DEF PInv, vars, TypeOK, PoolTypeOK
<1>4. FileTypes' /\ NoStaleCopy'
  BY <1>1, <1>2, <1>3 DEF PInv, FileTypes, NoStaleCopy, files
<1>5. PICK s : admin' = [admin EXCEPT ![a] = s]
  BY DEF Purge, AdminCrash, OpenAllocations, ReadAllocations, OpenLeases,
         ReadLeases, GoTo, Stop
<1>6. /\ admin' = [b \in Admins |-> admin'[b]] /\ admin'[a] = s
      /\ \A b \in Admins : b # a => admin'[b] = admin[b]
  BY <1>5, OnePurge
<1>7. ASSUME NEW b \in Admins, b # a PROVE HolderInv(b)' /\ CopyInv(b)'
  <2>1. /\ allocationsTmp \subseteq Allocation => allocationsTmp' \subseteq Allocation
        /\ leasesTmp \subseteq Lease => leasesTmp' \subseteq Lease
        /\ allocationsTmp \subseteq allocations => allocationsTmp' \subseteq allocations'
    BY <1>2, <1>3 DEF files
  <2>2. HolderInv(b) /\ CopyInv(b) /\ admin'[b] = admin[b]
    BY <1>6, <1>7 DEF PInv
  <2>3. HolderInv(b)'
    BY <2>1, <2>2, HolderKept
  <2>4. CopyInv(b)'
    BY <1>1, <1>3, <2>1, <2>2, CopyKept
  <2>5. QED
    BY <2>3, <2>4
<1>8. HolderInv(a)' /\ CopyInv(a)'
  <2> USE DEF PurgeSteps, OnAllocations, OnLeases, Outputs
  <2>1. CASE Purge(a)
    <3>1. PICK u \in Users : s = [pc |-> "open-allocations", user |-> u,
                                  output |-> "none", copy |-> {}]
      BY <1>6, <2>1, OnePurge DEF Purge
    <3>2. admin'[a] \in Purges
      BY <1>6, <3>1 DEF Purges
    <3>3. QED
      BY <1>6, <3>1, <3>2 DEF HolderInv, CopyInv
  <2>2. CASE AdminCrash(a)
    BY <2>2, OnePurge, Stops DEF AdminCrash, Stop
  <2>3. CASE OpenAllocations(a)
    <3>1. /\ ~At(a, "idle") /\ allocationsTmp' = {}
          /\ admin'[a] = Doing(a, "read-allocations", "tmp", {})
      BY <2>3, OnePurge DEF OpenAllocations, GoTo, At
    <3>2. QED
      BY <3>1, GoesOn
  <2>4. CASE ReadAllocations(a)
    <3>1. admin[a] \in Purges
      BY <2>4 DEF PInv, HolderInv, ReadAllocations, At, Idle
    <3>2. ~At(a, "idle") /\ UNCHANGED << allocations, allocationsTmp, overwritten >>
      BY <1>1, <1>3, <2>4 DEF ReadAllocations, At, files
    <3>3. CASE admin[a].output = "ledger"
      <4>1. admin'[a] = Doing(a, "move-allocations", "none", {})
        BY <2>4, <3>3, OnePurge DEF ReadAllocations, GoTo
      <4>2. QED
        BY <3>2, <4>1, GoesOn
    <3>4. CASE admin[a].output # "ledger"
      <4>1. /\ admin'[a] = Doing(a, "write-allocations", admin[a].output,
                                 OthersAllocations(admin[a].user))
            /\ OthersAllocations(admin[a].user) \subseteq allocations
        BY <2>4, <3>4, OnePurge DEF ReadAllocations, GoTo, OthersAllocations
      <4>2. /\ admin[a].output \in Outputs /\ admin[a].output # "none"
            /\ admin[a].output = "tmp" => /\ allocationsTmp \subseteq Allocation
                                          /\ ~overwritten => allocationsTmp \subseteq allocations
        BY <2>4, <3>1 DEF PInv, HolderInv, CopyInv, ReadAllocations, At, Purges, Idle
      <4>3. allocations \subseteq Allocation
        BY DEF PInv, TypeOK, PoolTypeOK
      <4>4. QED
        BY <3>2, <4>1, <4>2, <4>3, GoesOn
    <3>5. QED
      BY <3>3, <3>4
  <2>5. CASE OpenLeases(a)
    <3>1. /\ ~At(a, "idle") /\ leasesTmp' = {}
          /\ admin'[a] = Doing(a, "read-leases", "tmp", {})
      BY <2>5, OnePurge DEF OpenLeases, GoTo, At
    <3>2. QED
      BY <3>1, GoesOn
  <2>6. CASE ReadLeases(a)
    <3>1. admin[a] \in Purges
      BY <2>6 DEF PInv, HolderInv, ReadLeases, At, Idle
    <3>2. ~At(a, "idle") /\ UNCHANGED leasesTmp
      BY <2>6 DEF ReadLeases, At, files
    <3>3. CASE admin[a].output = "ledger"
      <4>1. admin'[a] = Doing(a, "move-leases", "none", {})
        BY <2>6, <3>3, OnePurge DEF ReadLeases, GoTo
      <4>2. QED
        BY <3>2, <4>1, GoesOn
    <3>4. CASE admin[a].output # "ledger"
      <4>1. /\ admin'[a] = Doing(a, "write-leases", admin[a].output,
                                 OthersLeases(admin[a].user))
            /\ OthersLeases(admin[a].user) \subseteq leases
        BY <2>6, <3>4, OnePurge DEF ReadLeases, GoTo, OthersLeases
      <4>2. /\ admin[a].output \in Outputs /\ admin[a].output # "none"
            /\ admin[a].output = "tmp" => leasesTmp \subseteq Lease
        BY <2>6, <3>1 DEF PInv, HolderInv, ReadLeases, At, Purges, Idle
      <4>3. OthersLeases(admin[a].user) \in SUBSET Lease
        BY <4>1 DEF PInv, TypeOK, PoolTypeOK
      <4>4. /\ admin'[a] \in Purges /\ admin'[a].pc = "write-leases"
            /\ admin'[a].output = admin[a].output
            /\ admin'[a].copy \in SUBSET Lease
        BY <3>1, <4>1, <4>2, <4>3 DEF Doing, Purges
      <4>5. QED
        BY <3>2, <4>2, <4>4 DEF HolderInv, CopyInv
    <3>5. QED
      BY <3>3, <3>4
  <2>7. QED
    BY <2>1, <2>2, <2>3, <2>4, <2>5, <2>6
<1>9. \A b \in Admins : HolderInv(b)' /\ CopyInv(b)'
  BY <1>7, <1>8
<1>10. QED
  BY <1>1, <1>3, <1>4, <1>6, <1>9 DEF PurgeKept

LEMMA WritingPurgeKeeps ==
  ASSUME PInv, NEW a \in Admins, WriteAllocations(a) \/ WriteLeases(a)
  PROVE  PurgeKept
<1>1. /\ ~At(a, "idle") /\ UNCHANGED << lock, pc, job, output, tmpFile >>
      /\ \E step \in {"move-allocations", "move-leases"} : GoTo(a, step, "none", {})
  BY DEF WriteAllocations, WriteLeases, At
<1>2. PICK step \in {"move-allocations", "move-leases"} :
        admin' = [admin EXCEPT ![a] = Doing(a, step, "none", {})]
  BY <1>1 DEF GoTo
<1>3. /\ admin' = [b \in Admins |-> admin'[b]]
      /\ admin'[a] = Doing(a, step, "none", {})
      /\ \A b \in Admins : b # a => admin'[b] = admin[b]
  BY <1>2, OnePurge
<1>4. HolderInv(a)' /\ CopyInv(a)'
  BY <1>1, <1>3, GoesOn DEF PurgeSteps, Outputs, OnAllocations, OnLeases
<1>5. /\ HolderInv(a) /\ CopyInv(a)
      /\ allocations \subseteq Allocation /\ leases \subseteq Lease
  BY DEF PInv, TypeOK, PoolTypeOK
<1> DEFINE Rest ==
      /\ allocations' \subseteq Allocation /\ leases' \subseteq Lease
      /\ FileTypes' /\ NoStaleCopy'
      /\ \A b \in Admins : b # a => HolderInv(b)' /\ CopyInv(b)'
      /\ ~overwritten' => ~overwritten /\ allocations' \subseteq allocations
<1>6. ASSUME WriteAllocations(a) PROVE Rest
  <2>1. /\ admin[a].pc = "write-allocations" /\ UNCHANGED << leases, leasesTmp >>
        /\ admin[a].copy \subseteq Allocation
    BY <1>5, <1>6 DEF WriteAllocations, At, HolderInv
  <2>2. CASE admin[a].output = "tmp"
    <3>1. /\ allocationsTmp \subseteq Allocation
          /\ ~overwritten => /\ allocationsTmp \subseteq allocations
                             /\ admin[a].copy \subseteq allocations
      BY <1>5, <2>1, <2>2 DEF HolderInv, CopyInv, OnAllocations
    <3>2. PICK kept \in SUBSET allocationsTmp :
            allocationsTmp' = admin[a].copy \cup kept
            /\ UNCHANGED << allocations, overwritten >>
      BY <1>6, <2>2 DEF WriteAllocations, Overwrite
    <3>3. /\ allocationsTmp' \subseteq Allocation
          /\ ~overwritten => allocationsTmp' \subseteq allocations
      BY <2>1, <3>1, <3>2
    <3>4. FileTypes' /\ NoStaleCopy'
      BY <2>1, <3>2, <3>3 DEF PInv, FileTypes, NoStaleCopy
    <3>5. ASSUME NEW b \in Admins, b # a PROVE HolderInv(b)' /\ CopyInv(b)'
      <4>1. HolderInv(b)'
        BY <1>3, <2>1, <3>3, <3>5, HolderKept DEF PInv
      <4>2. CopyInv(b)'
        BY <1>3, <3>2, <3>3, <3>5, CopyKept DEF PInv
      <4>3. QED
        BY <4>1, <4>2
    <3>6. QED
      BY <1>5, <2>1, <3>2, <3>4, <3>5
  <2>3. CASE admin[a].output = "ledger"
    <3>1. PICK kept \in SUBSET allocations :
            allocations' = admin[a].copy \cup kept
            /\ overwritten' = TRUE /\ UNCHANGED allocationsTmp
      BY <1>6, <2>3 DEF WriteAllocations, Overwrite
    <3>2. FileTypes' /\ NoStaleCopy'
      BY <2>1, <3>1 DEF PInv, FileTypes, NoStaleCopy
    <3>3. ASSUME NEW b \in Admins, b # a PROVE HolderInv(b)' /\ CopyInv(b)'
      BY <1>3, <2>1, <3>1, <3>3, HolderKept DEF PInv, CopyInv
    <3>4. QED
      BY <1>5, <2>1, <3>1, <3>2, <3>3
  <2>4. CASE admin[a].output = "gone"
    <3>1. UNCHANGED << allocations, allocationsTmp, overwritten >>
      BY <1>6, <2>4 DEF WriteAllocations
    <3>2. FileTypes' /\ NoStaleCopy'
      BY <2>1, <3>1 DEF PInv, FileTypes, NoStaleCopy
    <3>3. ASSUME NEW b \in Admins, b # a PROVE HolderInv(b)' /\ CopyInv(b)'
      BY <1>3, <2>1, <3>1, <3>3, HolderKept, CopyKept DEF PInv
    <3>4. QED
      BY <1>5, <2>1, <3>1, <3>2, <3>3
  <2>5. QED
    BY <1>6, <2>2, <2>3, <2>4 DEF WriteAllocations
<1>7. ASSUME WriteLeases(a) PROVE Rest
  <2>1. /\ admin[a].pc = "write-leases"
        /\ UNCHANGED << allocations, allocationsTmp, overwritten >>
        /\ admin[a].copy \subseteq Lease
    BY <1>5, <1>7 DEF WriteLeases, At, HolderInv
  <2>2. /\ leases' \subseteq Lease
        /\ leasesTmp \subseteq Lease => leasesTmp' \subseteq Lease
        /\ leasesTmp' = leasesTmp \/ leasesTmp' \subseteq Lease
    <3>1. CASE admin[a].output = "tmp"
      <4>1. leasesTmp \subseteq Lease
        BY <1>5, <2>1, <3>1 DEF HolderInv, OnLeases
      <4>2. PICK kept \in SUBSET leasesTmp :
              leasesTmp' = admin[a].copy \cup kept /\ UNCHANGED leases
        BY <1>7, <3>1 DEF WriteLeases, Overwrite
      <4>3. QED
        BY <1>5, <2>1, <4>1, <4>2
    <3>2. CASE admin[a].output = "ledger"
      <4>1. PICK kept \in SUBSET leases :
              leases' = admin[a].copy \cup kept /\ UNCHANGED leasesTmp
        BY <1>7, <3>2 DEF WriteLeases, Overwrite
      <4>2. QED
        BY <1>5, <2>1, <4>1
    <3>3. CASE admin[a].output = "gone"
      BY <1>5, <1>7, <3>3 DEF WriteLeases
    <3>4. QED
      BY <1>7, <3>1, <3>2, <3>3 DEF WriteLeases
  <2>3. FileTypes' /\ NoStaleCopy'
    BY <2>1, <2>2 DEF PInv, FileTypes, NoStaleCopy
  <2>4. ASSUME NEW b \in Admins, b # a PROVE HolderInv(b)' /\ CopyInv(b)'
    BY <1>3, <2>1, <2>2, <2>4, HolderKept, CopyKept DEF PInv
  <2>5. QED
    BY <1>5, <2>1, <2>2, <2>3, <2>4
<1>8. Rest
  BY <1>6, <1>7
<1>9. TypeOK'
  BY <1>1, <1>8 DEF PInv, TypeOK, PoolTypeOK
<1>10. QED
  BY <1>1, <1>3, <1>4, <1>8, <1>9 DEF PurgeKept

\* A mv takes a copy that is no older than the last removal, and with it the
\* output of every grep that has the file open.
LEMMA MovingPurgeKeeps ==
  ASSUME PInv, NEW a \in Admins, MoveAllocations(a) \/ MoveLeases(a)
  PROVE  PurgeKept
<1>1. \A b \in Admins : HolderInv(b) /\ CopyInv(b)
  BY DEF PInv
<1>2. CASE admin' = [admin EXCEPT ![a] = Idle] /\ UNCHANGED << vars, files, overwritten >>
  <2>1. TypeOK' /\ FileTypes' /\ NoStaleCopy' /\ UNCHANGED << lock, pc, job, output >>
    BY <1>2 DEF PInv, vars, files, TypeOK, PoolTypeOK, FileTypes, NoStaleCopy
  <2>2. /\ admin' = [b \in Admins |-> admin'[b]] /\ admin'[a] = Idle
        /\ \A b \in Admins : b # a => admin'[b] = admin[b]
    BY <1>2, OnePurge
  <2>3. HolderInv(a)' /\ CopyInv(a)'
    BY <2>2, Stops
  <2>4. ASSUME NEW b \in Admins, b # a PROVE HolderInv(b)' /\ CopyInv(b)'
    BY <1>1, <1>2, <2>2, <2>4, HolderKept, CopyKept DEF vars, files
  <2>5. QED
    BY <1>2, <2>1, <2>2, <2>3, <2>4 DEF PurgeKept, vars, files
<1>3. CASE MoveAllocations(a) /\ allocationsTmp # NoFile
  <2>1. /\ ~At(a, "idle")
        /\ allocations' = allocationsTmp /\ allocationsTmp' = NoFile
        /\ admin' = [b \in Admins |->
             IF b = a THEN Doing(a, "open-leases", "none", {})
             ELSE IF admin[b].pc \in OnAllocations THEN Moved(b) ELSE admin[b]]
        /\ UNCHANGED << leases, lock, pc, job, output, tmpFile, leasesTmp, overwritten >>
    BY <1>3 DEF MoveAllocations, At
  <2>2. /\ allocations' \subseteq Allocation
        /\ ~overwritten => allocations' \subseteq allocations
    BY <1>3, <2>1 DEF PInv, FileTypes, NoStaleCopy
  <2>3. TypeOK' /\ FileTypes' /\ NoStaleCopy'
    BY <2>1, <2>2 DEF PInv, TypeOK, PoolTypeOK, FileTypes, NoStaleCopy
  <2>4. HolderInv(a)' /\ CopyInv(a)'
    BY <2>1, GoesOn DEF PurgeSteps, Outputs, OnAllocations, OnLeases
  <2>5. ASSUME NEW b \in Admins, b # a PROVE HolderInv(b)' /\ CopyInv(b)'
    <3>1. CASE admin[b].pc \in OnAllocations
      BY <1>1, <2>1, <2>5, <3>1, MovedHolder
    <3>2. CASE admin[b].pc \notin OnAllocations
      BY <1>1, <2>1, <2>5, <3>2 DEF HolderInv, CopyInv
    <3>3. QED
      BY <3>1, <3>2
  <2>6. QED
    BY <2>1, <2>2, <2>3, <2>4, <2>5 DEF PurgeKept
<1>4. CASE MoveLeases(a) /\ leasesTmp # NoFile
  <2>1. /\ leases' = leasesTmp /\ leasesTmp' = NoFile
        /\ admin' = [b \in Admins |->
             IF b = a THEN Idle
             ELSE IF admin[b].pc \in OnLeases THEN Moved(b) ELSE admin[b]]
        /\ UNCHANGED << allocations, lock, pc, job, output, tmpFile, allocationsTmp,
                        overwritten >>
    BY <1>4 DEF MoveLeases
  <2>2. TypeOK' /\ FileTypes' /\ NoStaleCopy'
    BY <1>4, <2>1 DEF PInv, TypeOK, PoolTypeOK, FileTypes, NoStaleCopy
  <2>3. HolderInv(a)' /\ CopyInv(a)'
    BY <2>1, Stops
  <2>4. ASSUME NEW b \in Admins, b # a PROVE HolderInv(b)' /\ CopyInv(b)'
    <3>1. CASE admin[b].pc \in OnLeases
      BY <1>1, <2>1, <2>4, <3>1, MovedHolder
    <3>2. CASE admin[b].pc \notin OnLeases
      BY <1>1, <2>1, <2>4, <3>2 DEF HolderInv, CopyInv
    <3>3. QED
      BY <3>1, <3>2
  <2>5. QED
    BY <2>1, <2>2, <2>3, <2>4 DEF PurgeKept
<1>5. QED
  BY <1>2, <1>3, <1>4 DEF MoveAllocations, MoveLeases, Stop, files

LEMMA PurgeKeeps == ASSUME PInv, NEW a \in Admins, PurgeStep(a) PROVE PurgeKept
  BY QuietKeeps, WritingPurgeKeeps, MovingPurgeKeeps DEF PurgeStep

\* The scripts leave the purges' part alone; release-ip's mv takes a file away.
LEMMA ScriptsKeepPurges ==
  ASSUME PInv, NEW p \in Procs, ScriptStep(p), allocations \subseteq allocations'
  PROVE  /\ FileTypes' /\ NoStaleCopy'
         /\ admin' = [b \in Admins |-> admin'[b]]
         /\ \A b \in Admins : HolderInv(b)' /\ CopyInv(b)'
<1>1. /\ admin' = IF ~Replaces(p) THEN admin
                  ELSE [b \in Admins |->
                         IF admin[b].pc \in OnLeases THEN Unlinked(b) ELSE admin[b]]
      /\ UNCHANGED << allocationsTmp, leasesTmp, overwritten >>
  BY DEF ScriptStep, files
<1>2. FileTypes' /\ NoStaleCopy'
  BY <1>1 DEF PInv, FileTypes, NoStaleCopy
<1>3. admin' = [b \in Admins |-> admin'[b]]
  BY <1>1 DEF PInv
<1>4. ASSUME NEW b \in Admins PROVE HolderInv(b)' /\ CopyInv(b)'
  <2>1. HolderInv(b) /\ CopyInv(b)
    BY DEF PInv
  <2>2. CASE admin'[b] = admin[b]
    BY <1>1, <2>1, <2>2, HolderKept, CopyKept
  <2>3. CASE admin[b].pc \in OnLeases /\ admin'[b] = Unlinked(b)
    BY <1>1, <2>1, <2>3, MovedHolder
  <2>4. QED
    BY <1>1, <2>2, <2>3
<1>5. QED
  BY <1>2, <1>3, <1>4

LEMMA PurgeInvKept == PInv /\ [NextWithAdmins]_allVars => PInv'
<1> SUFFICES ASSUME PInv, [NextWithAdmins]_allVars PROVE PInv'
  OBVIOUS
<1>1. ASSUME NEW p \in Procs, ScriptStep(p) PROVE PInv'
  <2>1. (Call(p) \/ Step(p) \/ Crash(p)) /\ UNCHANGED overwritten
    BY <1>1 DEF ScriptStep
  <2>2. TypeOK' /\ GrantInv(p)'
    BY <2>1, DecidingKeeps, WritingKeeps, LockingKeeps DEF Step, PInv
  <2>3. \A q \in Procs : GrantInv(q)'
    BY <2>1, <2>2, OthersGrantKept DEF PInv
  <2>4. allocations \subseteq allocations'
    BY <2>1, LedgersUntouched
    DEF Step, AppendBlock, AppendLease, ReplaceLeases, poolVars
  <2>5. QED
    BY <1>1, <2>2, <2>3, <2>4, ScriptsKeepPurges DEF PInv
<1>2. ASSUME NEW a \in Admins, PurgeStep(a) PROVE PInv'
  <2>1. PurgeKept
    BY <1>2, PurgeKeeps
  <2>2. \A q \in Procs : GrantInv(q)'
    BY <2>1, GrantKept DEF PInv, PurgeKept
  <2>3. QED
    BY <2>1, <2>2 DEF PInv, PurgeKept
<1>3. CASE UNCHANGED allVars
  <2>1. \A q \in Procs : GrantInv(q)'
    BY <1>3, GrantKept DEF allVars, vars, adminVars, PInv
  <2>2. \A b \in Admins : HolderInv(b)' /\ CopyInv(b)'
    BY <1>3, HolderKept, CopyKept DEF allVars, vars, adminVars, PInv
  <2>3. QED
    BY <1>3, <2>1, <2>2 DEF allVars, vars, adminVars, PInv, FileTypes, NoStaleCopy,
       TypeOK, PoolTypeOK
<1>4. QED
  BY <1>1, <1>2, <1>3 DEF NextWithAdmins

-----------------------------------------------------------------------------
\* With any number of concurrent, killed and resumed purges, allocations.tsv
\* and the scripts' arguments stay well formed, and what a purge has read and has
\* open fits the command it is at.
THEOREM PurgeTypes == SpecWithAdmins => []PurgeTypeOK
<1>1. PInv => PurgeTypeOK
  BY PurgeTypesOfParts
<1>2. QED
  BY <1>1, PurgeInitial, PurgeInvKept, PTL DEF SpecWithAdmins

\* Every line that allocations.tsv gains is a grant of IpPool, until a grep writes
\* into the ledger itself.
LEMMA StepGrantsWhole ==
  ASSUME PInv, NextWithAdmins
  PROVE  \/ allocations' \subseteq allocations
         \/ \E u \in Users : GrantBlock(u)
         \/ overwritten'
<1> DEFINE Whole == \/ allocations' \subseteq allocations
                    \/ \E u \in Users : GrantBlock(u)
                    \/ overwritten'
<1>1. ASSUME NEW p \in Procs, ScriptStep(p), AppendBlock(p) PROVE Whole
  <2>1. GrantInv(p) /\ pc[p] = "append-block" /\ UNCHANGED overwritten
    BY <1>1 DEF PInv, AppendBlock, ScriptStep
  <2>2. CASE ~overwritten
    <3>1. GrantBlock(job[p].user) /\ job[p].user \in Users
      BY <1>1, <2>1, <2>2 DEF AppendBlock, GrantBlock, GrantInv, BlockJobs
    <3>2. QED
      BY <3>1
  <2>3. QED
    BY <2>1, <2>2 DEF PInv, FileTypes
<1>2. ASSUME NEW p \in Procs, ScriptStep(p), ~AppendBlock(p) PROVE Whole
  BY <1>2, LedgersUntouched
  DEF ScriptStep, Step, AppendLease, ReplaceLeases, poolVars
<1>3. ASSUME NEW a \in Admins, PurgeStep(a) PROVE Whole
  BY <1>3, PurgeKeeps DEF PurgeKept
<1>4. QED
  BY <1>1, <1>2, <1>3 DEF NextWithAdmins

\* However many purges rewrite allocations.tsv without the lock, they cannot make
\* two users share a block before one of them has written into the ledger itself.
THEOREM GrantsStayWhole == SpecWithAdmins => BlocksGrantedWhole
<1>1. PInv /\ [NextWithAdmins]_allVars =>
        [\/ allocations' \subseteq allocations
         \/ \E u \in Users : GrantBlock(u)
         \/ overwritten']_allVars
  BY StepGrantsWhole
<1>2. QED
  BY <1>1, PurgeInitial, PurgeInvKept, PTL DEF SpecWithAdmins, BlocksGrantedWhole

\* It takes two: where only one administrator purges, no grep ever writes into
\* the ledger, so blocks are granted whole without exception.
OutputStays ==
  /\ ~overwritten
  /\ \A a \in Admins : admin[a].pc \in OnAllocations => admin[a].output = "tmp"

THEOREM LonePurgeGrantsWhole ==
  ASSUME \A a, b \in Admins : a = b
  PROVE  SpecWithAdmins =>
           [][\/ allocations' \subseteq allocations
              \/ \E u \in Users : GrantBlock(u)]_allVars
<1>1. InitWithAdmins => OutputStays
  BY DEF InitWithAdmins, OutputStays, Idle, OnAllocations
<1>2. PInv /\ OutputStays /\ [NextWithAdmins]_allVars => OutputStays'
  <2> SUFFICES ASSUME PInv, OutputStays, [NextWithAdmins]_allVars PROVE OutputStays'
    OBVIOUS
  <2>1. ASSUME NEW p \in Procs, ScriptStep(p) PROVE OutputStays'
    <3>1. /\ UNCHANGED overwritten
          /\ \A b \in Admins : \/ admin'[b] = admin[b]
                               \/ admin[b].pc \in OnLeases /\ admin'[b] = Unlinked(b)
      BY <2>1 DEF ScriptStep
    <3>2. \A b \in Admins : admin[b].pc \in OnLeases => Unlinked(b).pc = admin[b].pc
      BY DEF PInv, HolderInv, Idle, OnLeases, Unlinked, Purges
    <3>3. QED
      BY <3>1, <3>2 DEF OutputStays, OnAllocations, OnLeases
  <2>2. ASSUME NEW a \in Admins, PurgeStep(a) PROVE OutputStays'
    <3>1. admin = [b \in Admins |-> admin[b]] /\ HolderInv(a)
      BY DEF PInv
    <3>2. overwritten' = overwritten
      <4>1. ~WriteAllocations(a) \/ UNCHANGED overwritten
        BY DEF OutputStays, WriteAllocations, At, OnAllocations
      <4>2. QED
        BY <2>2, <4>1 DEF PurgeStep, Purge, AdminCrash, OpenAllocations,
           ReadAllocations, MoveAllocations, OpenLeases, ReadLeases, WriteLeases,
           MoveLeases
    <3>3. admin'[a].pc \in OnAllocations => admin'[a].output = "tmp"
      <4> USE <3>1 DEF OutputStays, OnAllocations, GoTo, Doing, At, Stop, Idle
      <4>1. CASE ReadAllocations(a)
        BY <4>1 DEF ReadAllocations
      <4>2. CASE Purge(a) \/ AdminCrash(a) \/ OpenAllocations(a) \/ WriteAllocations(a)
                 \/ OpenLeases(a) \/ WriteLeases(a)
        BY <4>2 DEF Purge, AdminCrash, OpenAllocations, WriteAllocations, OpenLeases,
           WriteLeases
      <4>3. CASE ReadLeases(a)
        BY <4>3 DEF ReadLeases
      <4>4. CASE MoveAllocations(a) \/ MoveLeases(a)
        BY <4>4 DEF MoveAllocations, MoveLeases
      <4>5. QED
        BY <2>2, <4>1, <4>2, <4>3, <4>4 DEF PurgeStep
    <3>4. QED
      BY <3>2, <3>3 DEF OutputStays
  <2>3. CASE UNCHANGED allVars
    BY <2>3 DEF allVars, adminVars, OutputStays
  <2>4. QED
    BY <2>1, <2>2, <2>3 DEF NextWithAdmins
<1>3. PInv /\ OutputStays /\ OutputStays' /\ [NextWithAdmins]_allVars =>
        [\/ allocations' \subseteq allocations
         \/ \E u \in Users : GrantBlock(u)]_allVars
  BY StepGrantsWhole DEF OutputStays
<1>4. QED
  BY <1>1, <1>2, <1>3, PurgeInitial, PurgeInvKept, PTL DEF SpecWithAdmins
=============================================================================
