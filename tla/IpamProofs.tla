----------------------------- MODULE IpamProofs -----------------------------
(***************************************************************************)
(* The scripts keep the promises of IpPool for any number of processes,    *)
(* users and resources and any network. The inductive invariant says who   *)
(* may be past acquire_lock, and that what this one process has decided    *)
(* still stands; with it every step is a step of IpPool or leaves the      *)
(* ledgers alone, and PoolStep does the rest.                              *)
(***************************************************************************)
EXTENDS Ipam, IpPoolProofs

Working == {"exit", "allocate-block", "append-block", "allocate-ip",
            "append-lease", "release-ip", "replace-leases"}

BlockJobs == [op : {"allocate-block"}, user : Users]
IpJobs == [op : {"allocate-ip"}, user : Users, resource : Resources, type : Types]
ReleaseJobs == [op : {"release-ip"}, ip : Ips, user : Users \cup {AnyUser}]

\* A process is past acquire_lock exactly while it holds the lock, and the
\* branch it is in is the one of its arguments.
ProcInv(p) ==
  /\ pc[p] \in Working <=> lock = p
  /\ pc[p] \in {"allocate-block", "append-block"} => job[p] \in BlockJobs
  /\ pc[p] \in {"allocate-ip", "append-lease"} => job[p] \in IpJobs
  /\ pc[p] \in {"release-ip", "replace-leases"} => job[p] \in ReleaseJobs
  /\ pc[p] = "replace-leases" => output[p] = NoOutput
  /\ DecisionStands(p)

IInv == TypeOK /\ PoolInv /\ \A p \in Procs : ProcInv(p) /\ AnswerOk(p)

-----------------------------------------------------------------------------
LEMMA IpamInitial == Init => IInv
<1> SUFFICES ASSUME Init PROVE IInv
  OBVIOUS
<1>1. PoolInv
  BY PoolInitial DEF Init
<1>2. TypeOK
  BY <1>1 DEF Init, TypeOK, PoolInv
<1>3. ASSUME NEW p \in Procs PROVE ProcInv(p) /\ AnswerOk(p)
  BY IpamAssumption DEF Init, ProcInv, AnswerOk, DecisionStands, Working
<1>4. QED
  BY <1>1, <1>2, <1>3 DEF IInv

\* A process that another one's step leaves where it is, with the same
\* arguments, keeps its part of the invariant as long as nobody touches the
\* lock or the ledgers while it holds the lock.
LEMMA OthersKeep ==
  ASSUME NEW q \in Procs, ProcInv(q), AnswerOk(q),
         pc'[q] = pc[q], job'[q] = job[q], output'[q] = output[q],
         tmpFile'[q] = tmpFile[q],
         lock' = q <=> lock = q,
         lock = q => UNCHANGED << allocations, leases >>
  PROVE  ProcInv(q)' /\ AnswerOk(q)'
<1>1. CASE lock = q
  <2>1. DecisionStands(q)'
    BY <1>1 DEF ProcInv, DecisionStands, HasBlock, BlocksTaken, LeaseOfResource,
                LeasesOf, QuotaReached, AllocationsOf, LeasedIps, MayRelease,
                LinesOf
  <2>2. AnswerOk(q)'
    BY <1>1 DEF AnswerOk
  <2>3. QED
    BY <1>1, <2>1, <2>2 DEF ProcInv
<1>2. CASE lock # q
  BY <1>2 DEF ProcInv, AnswerOk, DecisionStands, Working
<1>3. QED
  BY <1>1, <1>2

-----------------------------------------------------------------------------
(* What each action does to the ledgers. *)

\* A block that is recorded is one IpPool may grant.
LEMMA AppendBlockGrants ==
  ASSUME IInv, NEW p \in Procs, AppendBlock(p)
  PROVE  GrantBlock(job[p].user) /\ job[p].user \in Users
<1>1. DecisionStands(p) /\ job[p] \in BlockJobs /\ pc[p] = "append-block"
  BY DEF IInv, ProcInv, AppendBlock
<1>2. QED
  BY <1>1 DEF AppendBlock, GrantBlock, DecisionStands, BlockJobs

\* An address that is recorded is one IpPool may grant.
LEMMA AppendLeaseGrants ==
  ASSUME IInv, NEW p \in Procs, AppendLease(p)
  PROVE  /\ GrantIp(job[p].user, job[p].resource, job[p].type)
         /\ job[p] \in IpJobs
<1> DEFINE u == job[p].user
           r == job[p].resource
<1>1. DecisionStands(p) /\ job[p] \in IpJobs /\ pc[p] = "append-lease"
  BY DEF IInv, ProcInv, AppendLease
<1>2. Cardinality(LeasesOf(u)) < MaxIps
  <2>1. IsFiniteSet(LeasesOf(u))
    BY FS_Subset DEF IInv, PoolInv, LeasesOf
  <2>2. Cardinality(LeasesOf(u)) \in Nat
    BY <2>1, FS_CardinalityType
  <2>3. QED
    BY <1>1, <2>2, PoolAssumption DEF DecisionStands, QuotaReached
<1>3. ~ \E l \in leases : l.user = u /\ l.resource = r
  BY <1>1 DEF DecisionStands, LeaseOfResource, LeasesOf
<1>4. \E a \in allocations : a.user = u /\ output[p] \in FreeIps(a.block, LeasedIps)
  BY <1>1 DEF DecisionStands, AllocationsOf
<1>5. QED
  BY <1>1, <1>2, <1>3, <1>4 DEF AppendLease, GrantIp

\* The file that is moved into place lacks exactly the released address.
LEMMA ReplaceLeasesReturns ==
  ASSUME IInv, NEW p \in Procs, ReplaceLeases(p)
  PROVE  ReturnIp(job[p].ip) /\ job[p].ip \in LeasedIps
<1>1. DecisionStands(p) /\ pc[p] = "replace-leases"
  BY DEF IInv, ProcInv, ReplaceLeases
<1>2. QED
  BY <1>1 DEF ReplaceLeases, ReturnIp, DecisionStands, MayRelease, LinesOf,
              LeasedIps

\* Every other step leaves both ledgers as they are.
LEMMA LedgersUntouched ==
  ASSUME NEW p \in Procs,
         \/ Call(p) \/ Acquire(p) \/ LockTimeout(p) \/ Exit(p) \/ Crash(p)
         \/ AllocateBlock(p) \/ AllocateIp(p) \/ ReleaseIp(p)
  PROVE  UNCHANGED poolVars
BY DEF Call, Acquire, TakeLock, LockTimeout, Exit, Crash, Leave, AllocateBlock,
       AllocateIp, ReleaseIp, Answer, Fail, Proceed, NoFreeIp, poolVars

\* A step of Ipam is a step of IpPool or invisible to it.
LEMMA StepRefines == IInv /\ [Next]_vars => [PoolNext]_poolVars
<1> SUFFICES ASSUME IInv, [Next]_vars PROVE [PoolNext]_poolVars
  OBVIOUS
<1>1. ASSUME NEW p \in Procs, AppendBlock(p) PROVE PoolNext
  BY <1>1, AppendBlockGrants DEF PoolNext
<1>2. ASSUME NEW p \in Procs, AppendLease(p) PROVE PoolNext
  BY <1>2, AppendLeaseGrants DEF PoolNext, IpJobs
<1>3. ASSUME NEW p \in Procs, ReplaceLeases(p) PROVE PoolNext
  BY <1>3, ReplaceLeasesReturns DEF PoolNext
<1>4. CASE UNCHANGED vars
  BY <1>4 DEF vars, poolVars
<1>5. QED
  BY <1>1, <1>2, <1>3, <1>4, LedgersUntouched DEF Next, Step

-----------------------------------------------------------------------------
(* The invariant of the process that takes the step. *)

LEMMA AllocateBlockKeeps ==
  ASSUME IInv, NEW p \in Procs, AllocateBlock(p)
  PROVE  TypeOK' /\ ProcInv(p)' /\ AnswerOk(p)'
<1> DEFINE u == job[p].user
           mine == AllocationsOf(u)
           free == FreeBlocks(BlocksTaken)
<1>1. /\ TypeOK /\ lock = p /\ job[p] \in BlockJobs /\ pc[p] = "allocate-block"
      /\ UNCHANGED << allocations, leases, lock, job, tmpFile >>
  BY DEF IInv, ProcInv, AllocateBlock, Working, Answer, Fail, Proceed
<1>2. CASE \E a \in mine : Answer(p, a.block)
  <2>1. PICK a \in mine : Answer(p, a.block)
    BY <1>2
  <2>2. a \in allocations /\ a.user = u /\ a.block \in Nat
        /\ a = [user |-> u, block |-> a.block]
    BY <1>1, NetworkAssumption DEF AllocationsOf, TypeOK, PoolTypeOK, Allocation,
       Blocks, FirstBlock, NetworkEnd
  <2>3. pc' = [pc EXCEPT ![p] = "exit"] /\ output' = [output EXCEPT ![p] = a.block]
    BY <2>1 DEF Answer, Proceed
  <2>4. TypeOK'
    BY <1>1, <2>2, <2>3 DEF TypeOK, PoolTypeOK
  <2>5. ProcInv(p)'
    BY <1>1, <2>3 DEF ProcInv, DecisionStands, TypeOK, Working
  <2>6. AnswerOk(p)'
    BY <1>1, <2>2, <2>3 DEF AnswerOk, TypeOK, BlockJobs
  <2>7. QED
    BY <2>4, <2>5, <2>6
<1>3. CASE Fail(p)
  BY <1>1, <1>3 DEF Fail, Answer, Proceed, TypeOK, PoolTypeOK, ProcInv,
     DecisionStands, AnswerOk, Working
<1>4. CASE mine = {} /\ \E b \in free : Proceed(p, "append-block", b)
  <2>1. PICK b \in free : Proceed(p, "append-block", b)
    BY <1>4
  <2>2. pc' = [pc EXCEPT ![p] = "append-block"] /\ output' = [output EXCEPT ![p] = b]
    BY <2>1 DEF Proceed
  <2>3. b \in Nat
    BY NetworkAssumption DEF FreeBlocks, Blocks, FirstBlock, NetworkEnd
  <2>4. TypeOK'
    BY <1>1, <2>2, <2>3 DEF TypeOK, PoolTypeOK
  <2>5. ~HasBlock(u)' /\ free' = free
    BY <1>1, <1>4 DEF HasBlock, AllocationsOf, BlocksTaken
  <2>6. ProcInv(p)' /\ AnswerOk(p)'
    BY <1>1, <2>2, <2>5 DEF ProcInv, DecisionStands, AnswerOk, TypeOK, Working
  <2>7. QED
    BY <2>4, <2>6
<1>5. QED
  BY <1>2, <1>3, <1>4 DEF AllocateBlock

\* An address that is free of its own user's leases is free of all: a lease of
\* another user lies in that user's block.
LEMMA FreeOfAll ==
  ASSUME PoolInv, NEW a \in allocations,
         NEW ip \in FreeIps(a.block, {l.ip : l \in LeasesOf(a.user)})
  PROVE  ip \in FreeIps(a.block, LeasedIps)
<1>1. SUFFICES ASSUME NEW k \in leases, k.ip = ip PROVE FALSE
  BY DEF FreeIps, LeasedIps
<1>2. PICK c \in allocations : c.user = k.user /\ k.ip \in IpsOf(c.block)
  BY DEF PoolInv, LeasesInOwnBlock
<1>3. k.user # a.user
  BY <1>1 DEF FreeIps, LeasesOf
<1>4. ip \in IpsOf(a.block) \cap IpsOf(c.block)
  BY <1>1, <1>2 DEF FreeIps
<1>5. QED
  BY <1>2, <1>3, <1>4 DEF PoolInv, BlocksExclusive

LEMMA AllocateIpKeeps ==
  ASSUME IInv, NEW p \in Procs, AllocateIp(p)
  PROVE  TypeOK' /\ ProcInv(p)' /\ AnswerOk(p)'
<1> DEFINE u == job[p].user
           r == job[p].resource
           same == LeaseOfResource(u, r)
           free(a) == FreeIps(a.block, {l.ip : l \in LeasesOf(u)})
<1>1. /\ TypeOK /\ lock = p /\ job[p] \in IpJobs /\ pc[p] = "allocate-ip"
      /\ UNCHANGED << allocations, leases, lock, job, tmpFile >>
  BY DEF IInv, ProcInv, AllocateIp, Working, Answer, Fail, NoFreeIp, Proceed
<1>2. CASE \E l \in same : Answer(p, l.ip)
  <2>1. PICK l \in same : Answer(p, l.ip)
    BY <1>2
  <2>2. l.ip \in Nat
    BY <1>1 DEF LeaseOfResource, LeasesOf, TypeOK, PoolTypeOK, Lease
  <2>3. pc' = [pc EXCEPT ![p] = "exit"] /\ output' = [output EXCEPT ![p] = l.ip]
    BY <2>1 DEF Answer, Proceed
  <2>4. TypeOK'
    BY <1>1, <2>2, <2>3 DEF TypeOK, PoolTypeOK
  <2>5. ProcInv(p)'
    BY <1>1, <2>3 DEF ProcInv, DecisionStands, TypeOK, Working
  <2>6. l \in leases /\ l.user = u /\ l.resource = r
    BY DEF LeaseOfResource, LeasesOf
  <2>7. AnswerOk(p)'
    BY <1>1, <2>3, <2>6 DEF AnswerOk, TypeOK, IpJobs
  <2>8. QED
    BY <2>4, <2>5, <2>7
<1>3. CASE Fail(p) \/ NoFreeIp(p)
  BY <1>1, <1>3 DEF NoFreeIp, Fail, Answer, Proceed, TypeOK, PoolTypeOK, ProcInv,
     DecisionStands, AnswerOk, Working
<1>4. CASE /\ same = {} /\ ~QuotaReached(u)
           /\ \E a \in AllocationsOf(u) :
                \E ip \in free(a) : Proceed(p, "append-lease", ip)
  <2> PICK a \in AllocationsOf(u) :
           \E ip \in free(a) : Proceed(p, "append-lease", ip)
    BY <1>4
  <2>1. PICK ip \in free(a) : Proceed(p, "append-lease", ip)
    OBVIOUS
  <2>2. a \in allocations /\ a.user = u /\ a.block \in Nat
    BY <1>1, NetworkAssumption DEF AllocationsOf, TypeOK, PoolTypeOK, Allocation,
       Blocks, FirstBlock, NetworkEnd
  <2>3. pc' = [pc EXCEPT ![p] = "append-lease"] /\ output' = [output EXCEPT ![p] = ip]
    BY <2>1 DEF Proceed
  <2>4. ip \in Nat
    BY <2>2, NetworkAssumption DEF FreeIps, IpsOf
  <2>5. TypeOK'
    BY <1>1, <2>3, <2>4 DEF TypeOK, PoolTypeOK
  <2>6. ip \in FreeIps(a.block, LeasedIps)
    BY <2>2, FreeOfAll DEF IInv
  <2>7. /\ same' = same /\ LeasedIps' = LeasedIps
        /\ AllocationsOf(u)' = AllocationsOf(u)
        /\ QuotaReached(u)' = QuotaReached(u)
    BY <1>1 DEF LeaseOfResource, LeasesOf, LeasedIps, AllocationsOf, QuotaReached
  <2>8. DecisionStands(p)'
    BY <1>1, <1>4, <2>1, <2>3, <2>6, <2>7 DEF DecisionStands, TypeOK
  <2>9. ProcInv(p)' /\ AnswerOk(p)'
    BY <1>1, <2>3, <2>8 DEF ProcInv, AnswerOk, TypeOK, Working
  <2>10. QED
    BY <2>5, <2>9
<1>5. QED
  BY <1>2, <1>3, <1>4 DEF AllocateIp

LEMMA ReleaseIpKeeps ==
  ASSUME IInv, NEW p \in Procs, ReleaseIp(p)
  PROVE  TypeOK' /\ ProcInv(p)' /\ AnswerOk(p)'
<1>1. /\ TypeOK /\ lock = p /\ job[p] \in ReleaseJobs /\ pc[p] = "release-ip"
      /\ UNCHANGED << allocations, leases, lock, job >>
  BY DEF IInv, ProcInv, ReleaseIp, Working, Answer, Fail, Proceed
<1>2. CASE Fail(p)
  BY <1>1, <1>2 DEF Fail, Answer, Proceed, TypeOK, PoolTypeOK, ProcInv,
     DecisionStands, AnswerOk, Working
<1>3. CASE /\ MayRelease(job[p].ip, job[p].user)
           /\ tmpFile' = [tmpFile EXCEPT ![p] = {l \in leases : l.ip # job[p].ip}]
           /\ Proceed(p, "replace-leases", NoOutput)
  <2>1. /\ pc' = [pc EXCEPT ![p] = "replace-leases"]
        /\ output' = [output EXCEPT ![p] = NoOutput]
    BY <1>3 DEF Proceed
  <2>2. TypeOK'
    BY <1>1, <1>3, <2>1 DEF TypeOK, PoolTypeOK
  <2>3. MayRelease(job[p].ip, job[p].user)'
    BY <1>1, <1>3 DEF MayRelease, LinesOf
  <2>4. DecisionStands(p)'
    BY <1>1, <1>3, <2>1, <2>3 DEF DecisionStands, TypeOK
  <2>5. ProcInv(p)' /\ AnswerOk(p)'
    BY <1>1, <2>1, <2>4 DEF ProcInv, AnswerOk, TypeOK, Working
  <2>6. QED
    BY <2>2, <2>5
<1>4. QED
  BY <1>2, <1>3 DEF ReleaseIp

LEMMA WritesKeep ==
  ASSUME IInv, NEW p \in Procs,
         AppendBlock(p) \/ AppendLease(p) \/ ReplaceLeases(p)
  PROVE  TypeOK' /\ ProcInv(p)' /\ AnswerOk(p)'
<1>1. PoolTypeOK'
  <2>1. PoolNext
    BY AppendBlockGrants, AppendLeaseGrants, ReplaceLeasesReturns
    DEF PoolNext, IpJobs
  <2>2. QED
    BY <2>1, PoolStep DEF IInv, PoolInv
<1>2. /\ TypeOK /\ ProcInv(p) /\ lock = p /\ UNCHANGED << lock, job, output >>
      /\ pc' = [pc EXCEPT ![p] = "exit"]
      /\ tmpFile' \in [Procs -> SUBSET Lease]
  BY DEF IInv, ProcInv, AppendBlock, AppendLease, ReplaceLeases, Working, TypeOK
<1>3. TypeOK'
  BY <1>1, <1>2 DEF TypeOK
<1>4. ProcInv(p)'
  BY <1>2 DEF ProcInv, DecisionStands, TypeOK, Working
<1>5. AnswerOk(p)'
  <2>1. CASE AppendBlock(p)
    BY <1>2, <2>1 DEF AppendBlock, AnswerOk, ProcInv, BlockJobs
  <2>2. CASE AppendLease(p)
    <3> DEFINE new == [ip |-> output[p], user |-> job[p].user,
                       resource |-> job[p].resource, type |-> job[p].type]
    <3>1. job[p] \in IpJobs /\ new \in leases'
      BY <1>2, <2>2 DEF AppendLease, ProcInv
    <3>2. /\ new.ip = output[p] /\ new.user = job[p].user
          /\ new.resource = job[p].resource
      OBVIOUS
    <3>3. job[p].op = "allocate-ip"
      BY <3>1 DEF IpJobs
    <3> HIDE DEF new
    <3>4. QED
      BY <1>2, <3>1, <3>2, <3>3 DEF AnswerOk
  <2>3. CASE ReplaceLeases(p)
    <3>1. output[p] = NoOutput
      BY <1>2, <2>3 DEF ProcInv, ReplaceLeases
    <3>2. QED
      BY <1>2, <3>1 DEF AnswerOk
  <2>4. QED
    BY <2>1, <2>2, <2>3
<1>6. QED
  BY <1>3, <1>4, <1>5

LEMMA LockStepKeeps ==
  ASSUME IInv, NEW p \in Procs,
         Call(p) \/ Acquire(p) \/ LockTimeout(p) \/ Exit(p) \/ Crash(p)
  PROVE  TypeOK' /\ ProcInv(p)' /\ AnswerOk(p)'
<1>1. TypeOK /\ ProcInv(p) /\ UNCHANGED << allocations, leases >>
  BY LedgersUntouched DEF IInv, poolVars
<1>2. CASE Call(p)
  BY <1>1, <1>2 DEF Call, TypeOK, PoolTypeOK, ProcInv, DecisionStands, AnswerOk,
     Working
<1>3. CASE Acquire(p)
  <2>1. PICK j \in Jobs : job' = [job EXCEPT ![p] = j] /\ pc' = [pc EXCEPT ![p] = j.op]
    BY <1>3 DEF Acquire, TakeLock
  <2>2. j \in BlockJobs \/ j \in IpJobs \/ j \in ReleaseJobs
    BY DEF Jobs, BlockJobs, IpJobs, ReleaseJobs
  <2>3. j.op \in {"allocate-block", "allocate-ip", "release-ip"}
    BY <2>2 DEF BlockJobs, IpJobs, ReleaseJobs
  <2>4. lock' = p /\ UNCHANGED << output, tmpFile >>
    BY <1>3 DEF Acquire, TakeLock
  <2>5. TypeOK'
    BY <1>1, <2>1, <2>3, <2>4 DEF TypeOK, PoolTypeOK
  <2>6. pc'[p] = j.op /\ job'[p] = j
    BY <1>1, <2>1 DEF TypeOK
  <2>7. DecisionStands(p)' /\ AnswerOk(p)'
    BY <2>3, <2>6 DEF DecisionStands, AnswerOk
  <2>8. /\ pc'[p] = "allocate-block" => j \in BlockJobs
        /\ pc'[p] = "allocate-ip" => j \in IpJobs
        /\ pc'[p] = "release-ip" => j \in ReleaseJobs
    BY <2>2, <2>6 DEF BlockJobs, IpJobs, ReleaseJobs
  <2>9. ProcInv(p)'
    BY <2>3, <2>4, <2>6, <2>7, <2>8 DEF ProcInv, Working
  <2>10. QED
    BY <2>5, <2>7, <2>9
<1>4. CASE LockTimeout(p) \/ Exit(p) \/ Crash(p)
  <2>1. Leave(p) /\ lock' # p /\ lock' \in {lock, NoProc}
    BY <1>1, <1>4, IpamAssumption
    DEF LockTimeout, Exit, Crash, CloseLock, ProcInv, Working
  <2>2. TypeOK'
    BY <1>1, <2>1 DEF Leave, TypeOK, PoolTypeOK
  <2>3. pc'[p] = "idle"
    BY <1>1, <2>1 DEF Leave, TypeOK
  <2>4. ProcInv(p)' /\ AnswerOk(p)'
    BY <2>1, <2>3 DEF ProcInv, AnswerOk, DecisionStands, Working
  <2>5. QED
    BY <2>2, <2>4
<1>5. QED
  BY <1>2, <1>3, <1>4

-----------------------------------------------------------------------------
\* One process's step leaves every other process alone.
LEMMA Apart ==
  ASSUME IInv, NEW p \in Procs, NEW q \in Procs, q # p,
         Call(p) \/ Step(p) \/ Crash(p)
  PROVE  ProcInv(q)' /\ AnswerOk(q)'
<1>1. TypeOK /\ ProcInv(p) /\ ProcInv(q) /\ AnswerOk(q)
  BY DEF IInv
<1>2. /\ pc'[q] = pc[q] /\ job'[q] = job[q]
      /\ output'[q] = output[q] /\ tmpFile'[q] = tmpFile[q]
  BY <1>1 DEF TypeOK, Step, Call, Crash, Acquire, TakeLock, LockTimeout, Exit,
     Leave, AllocateBlock, AppendBlock, AllocateIp, AppendLease, ReleaseIp,
     ReplaceLeases, Answer, Fail, NoFreeIp, Proceed
<1>3. lock' = q <=> lock = q
  <2>1. CASE Acquire(p) \/ Exit(p) \/ Crash(p)
    BY <2>1, IpamAssumption DEF Acquire, TakeLock, Exit, Crash, CloseLock
  <2>2. CASE Call(p) \/ LockTimeout(p) \/ AppendBlock(p) \/ AppendLease(p)
             \/ ReplaceLeases(p)
    BY <2>2 DEF Call, LockTimeout, AppendBlock, AppendLease, ReplaceLeases
  <2>3. CASE AllocateBlock(p) \/ AllocateIp(p) \/ ReleaseIp(p)
    BY <2>3 DEF AllocateBlock, AllocateIp, ReleaseIp, Answer, Fail, NoFreeIp,
       Proceed
  <2>4. QED
    BY <2>1, <2>2, <2>3 DEF Step
<1>4. lock = q => UNCHANGED << allocations, leases >>
  <2>1. lock = q => ~ (AppendBlock(p) \/ AppendLease(p) \/ ReplaceLeases(p))
    BY <1>1 DEF ProcInv, AppendBlock, AppendLease, ReplaceLeases, Working
  <2>2. QED
    BY <2>1, LedgersUntouched DEF Step, poolVars
<1>5. QED
  BY <1>1, <1>2, <1>3, <1>4, OthersKeep

LEMMA StepKeeps == IInv /\ [Next]_vars => IInv'
<1> SUFFICES ASSUME IInv, [Next]_vars PROVE IInv'
  OBVIOUS
<1>1. PoolInv'
  BY StepRefines, PoolStep DEF IInv
<1>2. ASSUME NEW p \in Procs, Call(p) \/ Step(p) \/ Crash(p)
      PROVE  TypeOK' /\ \A q \in Procs : ProcInv(q)' /\ AnswerOk(q)'
  <2>1. TypeOK' /\ ProcInv(p)' /\ AnswerOk(p)'
    BY <1>2, AllocateBlockKeeps, AllocateIpKeeps, ReleaseIpKeeps, WritesKeep,
       LockStepKeeps DEF Step
  <2>2. QED
    BY <1>2, <2>1, Apart
<1>3. CASE UNCHANGED vars
  <2>1. TypeOK'
    BY <1>3 DEF vars, IInv, TypeOK, PoolTypeOK
  <2>2. \A q \in Procs : ProcInv(q)' /\ AnswerOk(q)'
    <3> TAKE q \in Procs
    <3>1. UNCHANGED << allocations, leases, lock, pc[q], job[q], output[q],
                       tmpFile[q] >>
      BY <1>3 DEF vars
    <3>2. QED
      BY <3>1, OthersKeep DEF IInv
  <2>3. QED
    BY <1>1, <2>1, <2>2 DEF IInv
<1>4. QED
  BY <1>1, <1>2, <1>3 DEF Next, IInv

-----------------------------------------------------------------------------
THEOREM IpamInvariant == Spec => []IInv
BY IpamInitial, StepKeeps, PTL DEF Spec

\* The scripts implement the pool of whole grants and returns: what the lock
\* is for. Every promise of IpPool is one of Ipam.
THEOREM Refinement == Spec => RefinesPool
<1>1. Init => PoolInit
  BY DEF Init
<1>2. IInv /\ [Next]_vars => [PoolNext]_poolVars
  BY StepRefines
<1>3. QED
  BY <1>1, <1>2, IpamInvariant, PTL DEF Spec, RefinesPool, PoolSpec

\* Each decision stands, and each answer is recorded, in every reachable state.
THEOREM Decisions == Spec => [](DecisionsStand /\ AnswerRecorded)
<1>1. IInv => DecisionsStand /\ AnswerRecorded
  BY DEF IInv, ProcInv, DecisionsStand, AnswerRecorded
<1>2. QED
  BY <1>1, IpamInvariant, PTL

\* The two ledgers, at every moment, for every network and any number of
\* concurrent and killed scripts.
THEOREM LedgerSafety ==
  Spec => [](/\ TypeOK /\ BlocksExclusive /\ LeasesExclusive
             /\ LeasesInOwnBlock /\ WithinQuota)
<1>1. IInv => /\ TypeOK /\ BlocksExclusive /\ LeasesExclusive
              /\ LeasesInOwnBlock /\ WithinQuota
  BY DEF IInv, PoolInv
<1>2. QED
  BY <1>1, IpamInvariant, PTL

\* No line is lost to a concurrent rewrite of the ledger.
THEOREM LinesKept == Spec => NoLineLost
<1> DEFINE Kept ==
      /\ allocations \subseteq allocations'
      /\ \A l \in leases \ leases' :
           \E p \in Procs : /\ pc[p] = "replace-leases"
                            /\ job[p].ip = l.ip
                            /\ job[p].user \in {l.user, AnyUser}
<1>1. IInv /\ [Next]_vars => [Kept]_vars
  <2> SUFFICES ASSUME IInv, NEW p \in Procs, Call(p) \/ Step(p) \/ Crash(p)
               PROVE  Kept
    BY DEF Next
  <2>1. CASE ReplaceLeases(p)
    <3>1. /\ pc[p] = "replace-leases" /\ MayRelease(job[p].ip, job[p].user)
          /\ leases' = {l \in leases : l.ip # job[p].ip}
          /\ allocations' = allocations
      BY <2>1 DEF IInv, ProcInv, DecisionStands, ReplaceLeases
    <3>2. ASSUME NEW l \in leases \ leases'
          PROVE  job[p].ip = l.ip /\ job[p].user \in {l.user, AnyUser}
      BY <3>1 DEF MayRelease, LinesOf
    <3>3. QED
      BY <3>1, <3>2
  <2>2. CASE AppendBlock(p) \/ AppendLease(p)
    BY <2>2 DEF AppendBlock, AppendLease
  <2>3. CASE ~ (AppendBlock(p) \/ AppendLease(p) \/ ReplaceLeases(p))
    BY <2>3, LedgersUntouched DEF Step, poolVars
  <2>4. QED
    BY <2>1, <2>2, <2>3
<1>2. QED
  BY <1>1, IpamInvariant, PTL DEF Spec, NoLineLost
=============================================================================
