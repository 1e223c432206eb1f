-------------------------- MODULE ResourcesProofs --------------------------
(***************************************************************************)
(* What Resources promises whatever overlaps, fails or dies, for any       *)
(* number of goroutines and any names, quotas and network: what each       *)
(* goroutine and each record holds, that the leases are those of an        *)
(* address pool, how far requests that overlap exceed the quota of VMs,    *)
(* and what a user's end leaves behind. The inductive invariant has the    *)
(* types, and the order in which an administrator's command removes things.*)
(***************************************************************************)
EXTENDS Resources, FiniteSetTheorems, SequenceTheorems, TLAPS

BlockIps == IpsOf(FirstBlock)

\* What a goroutine works on fits the step it is at.
VmJobs == [names : Seq(VmNames) \ {<< >>}, ips : Seq(BlockIps)]
ClusterJobs == [names : {<< c >> : c \in Clusters}, ips : Seq(BlockIps)]
HasIps == {"vm-mkdir", "vm-prepare", "vm-apply", "vm-running", "vm-failed",
           "vm-return", "cl-undo", "cl-return"}
NoIpsYet == {"vm-test", "vm-allocate", "vm-find", "cl-test", "cl-mkdir", "cl-delete"}
JobAt(step, j) ==
  \/ step = "idle" /\ j = NoJob
  \/ /\ \/ step \in VmSteps /\ j \in VmJobs
        \/ step \in ClusterSteps /\ j \in ClusterJobs
     /\ step \in HasIps => j.ips # << >>
     /\ step \in NoIpsYet => j.ips = << >>
     /\ step = "cl-allocate" => Len(j.ips) < Len(Nodes[Head(j.names)])

\* The records of VMs and clusters have addresses of the user's block.
BlockVm == [status : VmStatus, ip : BlockIps]
BlockCluster == [status : {"pending", "provisioning", "failed"}, ips : Seq(BlockIps)]

JobsInv ==
  /\ pc \in [Handlers -> VmSteps \cup ClusterSteps \cup {"idle"}]
  /\ job \in [Handlers -> VmJobs \cup ClusterJobs \cup {NoJob}]
  /\ \A h \in Handlers : JobAt(pc[h], job[h])
PoolInv ==
  /\ hasBlock \in BOOLEAN
  /\ lease \in [Names -> BlockIps \cup {NoIp}]
  /\ IsFiniteSet(Leased)
  /\ \A m, n \in Leased : lease[m] = lease[n] => m = n
VmInv ==
  /\ vmDir \in [VmNames -> BlockVm \cup {NoDir, Bare}]
  /\ vmMachine \in [VmNames -> BlockIps \cup {NoIp}]
  /\ vmState \subseteq {n \in VmNames : vmDir[n] # NoDir /\ vmMachine[n] # NoIp}
ClusterInv ==
  /\ clusterDir \in [Clusters -> BlockCluster \cup {NoDir, Bare}]
  /\ nodeIps \in [Clusters -> Seq(BlockIps)]
HistoryInv ==
  /\ calls \in 0 .. MaxCalls
  /\ faults \subseteq Kinds
TypeInv == JobsInv /\ PoolInv /\ VmInv /\ ClusterInv /\ UserTypeOK /\ HistoryInv

\* The account outlives the user's directory and every command about the user; a
\* folder that Terraform manages outlives no command that went past it, and a
\* folder of either kind outlives the machines.
AdminInv ==
  /\ At("idle") <=> admin = NoTask
  /\ userDir \/ ~At("idle") => account
  /\ At("data") \/ At("userdel") => ~userDir
  /\ ~account \/ admin.step \in {"block", "leases", "users", "data", "userdel"} => folder # "managed"
  /\ folder = "none" => \A n \in VmNames : vmMachine[n] = NoIp

IInv == TypeInv /\ AdminInv

-----------------------------------------------------------------------------
(* Sequences and least elements. *)

\* What a sequence that is not empty is made of.
LEMMA Parts ==
  ASSUME NEW S, NEW s \in Seq(S), s # << >>
  PROVE  /\ Head(s) = s[1] /\ Head(s) \in S /\ Head(s) \in Range(s)
         /\ Len(s) \in Nat /\ Len(s) >= 1
         /\ Tail(s) \in Seq(S)
         /\ Len(s) # 1 => Tail(s) # << >>
         /\ Len(s) > 1 => Tail(s) # << >>
<1>1. Len(s) \in Nat /\ Len(s) # 0
  BY EmptySeq
<1>2. Head(s) = s[1] /\ DOMAIN s = 1 .. Len(s)
  BY LenProperties
<1>3. 1 \in 1 .. Len(s)
  BY <1>1
<1>4. Tail(s) \in Seq(S) /\ Len(Tail(s)) = Len(s) - 1
  BY HeadTailProperties
<1>5. Len(s) # 1 => Len(Tail(s)) # 0
  BY <1>1, <1>4
<1>6. \A n \in Nat : n > 1 => n # 1
  OBVIOUS
<1>7. Head(s) \in S /\ Head(s) \in Range(s) /\ Len(s) >= 1
  BY <1>1, <1>2, <1>3, HeadTailProperties DEF Range
<1>8. QED
  BY <1>1, <1>2, <1>4, <1>5, <1>6, <1>7, EmptySeq

LEMMA RangeIn == ASSUME NEW S, NEW s \in Seq(S) PROVE Range(s) \subseteq S
  BY LenProperties, ElementOfSeq DEF Range

\* A set of numbers in an interval that is not empty has a least member: otherwise
\* the predecessor would map what is above it into itself.
LEMMA LeastExists ==
  ASSUME NEW a \in Int, NEW b \in Int, NEW S \in SUBSET (a .. b), S # {}
  PROVE  \E x \in S : IsLeast(x, S)
<1> SUFFICES ASSUME \A x \in S : \E y \in S : y < x PROVE FALSE
  BY DEF IsLeast
<1> DEFINE U == {x \in a .. b : \E y \in S : y <= x}
           f == [x \in U |-> x - 1]
<1>1. IsFiniteSet(U)
  <2>1. IsFiniteSet(a .. b)
    BY FS_Interval
  <2>2. QED
    BY <2>1, FS_Subset
<1>2. ASSUME NEW x \in U PROVE x - 1 \in U
  <2>1. PICK y \in S : y <= x
    OBVIOUS
  <2>2. PICK z \in S : z < y
    OBVIOUS
  <2>3. z \in a .. b /\ y \in a .. b /\ x \in a .. b
    OBVIOUS
  <2>4. z <= x - 1 /\ x - 1 \in a .. b
    BY <2>1, <2>2, <2>3
  <2>5. QED
    BY <2>4
<1>3. f \in [U -> U]
  BY <1>2
<1>4. \A x \in U, y \in U : f[x] = f[y] => x = y
  OBVIOUS
<1>5. f \in Injection(U, U)
  BY <1>3, <1>4 DEF Injection, IsInjective
<1>6. f \in Surjection(U, U)
  BY <1>1, <1>5, FS_Injection
<1>7. b \in U
  <2>1. PICK y \in S : TRUE
    OBVIOUS
  <2>2. y \in a .. b
    OBVIOUS
  <2>3. b \in a .. b /\ y <= b
    BY <2>2
  <2>4. QED
    BY <2>3
<1>8. PICK x \in U : f[x] = b
  BY <1>6, <1>7 DEF Surjection
<1>9. QED
  BY <1>8

-----------------------------------------------------------------------------
(* The pool. *)

LEMMA BlockNumbers ==
  /\ BlockIps \subseteq Nat /\ NoIp \notin BlockIps
  /\ FirstBlock \in Int /\ FirstBlock + BlockSize - 1 \in Int
<1>1. NetworkStart \in Nat /\ BlockSize \in Nat
  BY NetworkAssumption
<1>2. FirstBlock \in Nat
  BY <1>1 DEF FirstBlock
<1>3. BlockIps \subseteq Nat
  BY <1>1, <1>2 DEF BlockIps, IpsOf
<1>4. NoIp \notin BlockIps
  <2>1. NoIp \notin Nat
    BY ProvisionerAssumption
  <2>2. QED
    BY <1>3, <2>1
<1>5. FirstBlock \in Int /\ FirstBlock + BlockSize - 1 \in Int
  BY <1>1, <1>2
<1>6. QED
  BY <1>3, <1>4, <1>5

\* What allocate-ip answers: the resource's address, or one that nobody has.
LEMMA AddressForIs ==
  ASSUME PoolInv, NEW n \in Names, CanLease(n)
  PROVE  /\ AddressFor(n) \in BlockIps
         /\ n \in Leased => AddressFor(n) = lease[n]
         /\ n \notin Leased =>
              AddressFor(n) \in FreeNow /\ \A m \in Leased : lease[m] # AddressFor(n)
<1>1. CASE n \in Leased
  BY <1>1 DEF PoolInv, Leased, AddressFor
<1>2. CASE n \notin Leased
  <2>1. FreeNow \subseteq BlockIps /\ FreeNow # {}
    BY <1>2 DEF CanLease, FreeNow, FreeIps, BlockIps
  <2>2. \E x \in FreeNow : IsLeast(x, FreeNow)
    BY <2>1, BlockNumbers, LeastExists DEF BlockIps, IpsOf
  <2>3. AddressFor(n) \in FreeNow
    BY <1>2, <2>2 DEF AddressFor, IsLeast
  <2>4. QED
    BY <1>2, <2>1, <2>3 DEF FreeNow, FreeIps
<1>3. QED
  BY <1>1, <1>2

LEMMA AllocateIpKeeps ==
  ASSUME PoolInv, NEW n \in Names, AllocateIp(n)
  PROVE  /\ PoolInv' /\ AddressFor(n) \in BlockIps
         /\ lease' = [lease EXCEPT ![n] = AddressFor(n)] /\ lease'[n] = AddressFor(n)
         /\ Leased' = Leased \cup {n}
         /\ \A m \in Leased : lease'[m] = lease[m]
<1>1. CanLease(n) /\ lease' = [lease EXCEPT ![n] = AddressFor(n)] /\ hasBlock' = hasBlock
  BY DEF AllocateIp
<1> DEFINE a == AddressFor(n)
<1>2. /\ a \in BlockIps /\ a # NoIp
      /\ n \in Leased => a = lease[n]
      /\ n \notin Leased => \A m \in Leased : lease[m] # a
  BY <1>1, AddressForIs, BlockNumbers
<1>3. lease' = [lease EXCEPT ![n] = a]
  BY <1>1
<1> HIDE DEF a
<1>4. Leased' = Leased \cup {n}
  BY <1>2, <1>3 DEF PoolInv, Leased
<1>5. IsFiniteSet(Leased')
  BY <1>4, FS_AddElement DEF PoolInv
<1>6. \A m \in Leased : lease'[m] = lease[m]
  BY <1>2, <1>3 DEF PoolInv, Leased
<1>7. \A k, m \in Leased' : lease'[k] = lease'[m] => k = m
  BY <1>2, <1>3, <1>4 DEF PoolInv, Leased
<1>8. PoolInv'
  <2>1. lease' \in [Names -> BlockIps \cup {NoIp}] /\ hasBlock' \in BOOLEAN
    BY <1>1, <1>2, <1>3 DEF PoolInv
  <2>2. QED
    BY <1>5, <1>7, <2>1 DEF PoolInv
<1>9. QED
  BY <1>2, <1>3, <1>4, <1>6, <1>8 DEF a, PoolInv

LEMMA ReleaseIpKeeps ==
  ASSUME PoolInv, NEW x \in BlockIps, ReleaseIp(x)
  PROVE  /\ PoolInv' /\ Leased' \subseteq Leased
         /\ \A m \in Leased' : lease'[m] = lease[m]
         /\ \A m \in Leased : lease[m] # x => m \in Leased'
<1>1. \/ lease' = [n \in Names |-> IF lease[n] = x THEN NoIp ELSE lease[n]]
      \/ lease' = lease
  BY DEF ReleaseIp
<1>2. /\ lease' \in [Names -> BlockIps \cup {NoIp}] /\ Leased' \subseteq Leased
      /\ \A m \in Leased' : lease'[m] = lease[m]
      /\ \A m \in Leased : lease[m] # x => m \in Leased'
  BY <1>1 DEF PoolInv, Leased
<1>3. IsFiniteSet(Leased')
  BY <1>2, FS_Subset DEF PoolInv
<1>4. QED
  BY <1>2, <1>3 DEF PoolInv, ReleaseIp

-----------------------------------------------------------------------------
(* What a goroutine holds. *)

LEMMA Holds ==
  ASSUME JobsInv, NEW h \in Handlers, pc[h] # "idle"
  PROVE  /\ JobAt(pc[h], job[h])
         /\ job[h].names \in Seq(VmNames \cup Clusters) /\ job[h].names # << >>
         /\ Name(h) = Head(job[h].names) /\ Name(h) \in Range(job[h].names)
         /\ job[h].ips \in Seq(BlockIps)
         /\ pc[h] \in HasIps => job[h].ips # << >>
         /\ pc[h] \in NoIpsYet => job[h].ips = << >>
         /\ job[h].ips # << >> => job[h].ips[1] \in BlockIps /\ Head(job[h].ips) \in BlockIps
         /\ pc[h] \in VmSteps => job[h] \in VmJobs /\ Name(h) \in VmNames
         /\ pc[h] \in ClusterSteps =>
              job[h] \in ClusterJobs /\ Name(h) \in Clusters /\ job[h].names = << Name(h) >>
<1>1. JobAt(pc[h], job[h])
  BY DEF JobsInv
<1>2. VmSteps \cap ClusterSteps = {}
  BY DEF VmSteps, ClusterSteps
<1>3. \/ pc[h] \in VmSteps /\ pc[h] \notin ClusterSteps /\ job[h] \in VmJobs
      \/ pc[h] \in ClusterSteps /\ pc[h] \notin VmSteps /\ job[h] \in ClusterJobs
  BY <1>1, <1>2 DEF JobAt
<1>4. ASSUME job[h] \in VmJobs
      PROVE  /\ job[h].names \in Seq(VmNames \cup Clusters) /\ job[h].names # << >>
             /\ Name(h) = Head(job[h].names) /\ Name(h) \in Range(job[h].names)
             /\ job[h].ips \in Seq(BlockIps)
             /\ Name(h) \in VmNames
  <2>1. job[h].names \in Seq(VmNames) /\ job[h].names # << >>
    BY <1>4 DEF VmJobs
  <2>2. Head(job[h].names) \in VmNames /\ Head(job[h].names) \in Range(job[h].names)
    BY <2>1, Parts
  <2>3. job[h].names \in Seq(VmNames \cup Clusters)
    BY <2>1, SeqMonotonic
  <2>4. QED
    BY <1>4, <2>1, <2>2, <2>3 DEF Name, VmJobs
<1>5. ASSUME job[h] \in ClusterJobs
      PROVE  /\ job[h].names \in Seq(VmNames \cup Clusters) /\ job[h].names # << >>
             /\ Name(h) = Head(job[h].names) /\ Name(h) \in Range(job[h].names)
             /\ job[h].ips \in Seq(BlockIps)
             /\ Name(h) \in Clusters /\ job[h].names = << Name(h) >>
  <2>1. PICK c \in Clusters : job[h].names = << c >>
    BY <1>5 DEF ClusterJobs
  <2>2. << c >> # << >> /\ Head(<< c >>) = c /\ << c >> \in Seq(Clusters)
    OBVIOUS
  <2>3. << c >> \in Seq(VmNames \cup Clusters)
    OBVIOUS
  <2>4. c \in Range(<< c >>)
    BY <2>2, Parts
  <2>5. QED
    BY <1>5, <2>1, <2>2, <2>3, <2>4 DEF Name, ClusterJobs
<1>6. /\ job[h].names \in Seq(VmNames \cup Clusters) /\ job[h].names # << >>
      /\ Name(h) = Head(job[h].names) /\ Name(h) \in Range(job[h].names)
      /\ job[h].ips \in Seq(BlockIps)
  BY <1>3, <1>4, <1>5
<1>7. job[h].ips # << >> => job[h].ips[1] \in BlockIps /\ Head(job[h].ips) \in BlockIps
  BY <1>6, Parts
<1>8. /\ pc[h] \in HasIps => job[h].ips # << >>
      /\ pc[h] \in NoIpsYet => job[h].ips = << >>
  <2>1. "idle" \notin HasIps \cup NoIpsYet
    BY DEF HasIps, NoIpsYet
  <2>2. QED
    BY <1>1, <2>1 DEF JobAt
<1>9. QED
  BY <1>1, <1>3, <1>4, <1>5, <1>6, <1>7, <1>8

\* A goroutine that takes a step leaves the others where they are.
LEMMA OneWorks ==
  ASSUME JobsInv, NEW h \in Handlers, NEW step, NEW j, JobAt(step, j),
         pc' = [pc EXCEPT ![h] = step], job' = [job EXCEPT ![h] = j]
  PROVE  JobsInv'
<1>1. step \in VmSteps \cup ClusterSteps \cup {"idle"}
      /\ j \in VmJobs \cup ClusterJobs \cup {NoJob}
  BY DEF JobAt
<1>2. QED
  BY <1>1 DEF JobsInv

LEMMA FinishKeeps == ASSUME JobsInv, NEW h \in Handlers, Finish(h) PROVE JobsInv'
  BY OneWorks DEF Finish, JobAt

LEMMA GotoKeeps ==
  ASSUME JobsInv, NEW h \in Handlers, NEW step, Goto(h, step), JobAt(step, job[h])
  PROVE  JobsInv'
<1>1. job' = [job EXCEPT ![h] = job[h]]
  BY DEF JobsInv, Goto
<1>2. QED
  BY <1>1, OneWorks DEF Goto

LEMMA HoldKeeps ==
  ASSUME JobsInv, NEW h \in Handlers, NEW step, NEW ips, Hold(h, step, ips),
         JobAt(step, [names |-> job[h].names, ips |-> ips])
  PROVE  JobsInv'
  BY OneWorks DEF Hold

LEMMA BeginKeeps ==
  ASSUME JobsInv, NEW h \in Handlers, NEW step \in {"vm-test", "vm-find", "cl-test", "cl-delete"},
         NEW names, Begin(h, step, names),
         \/ step \in VmSteps /\ names \in Seq(VmNames) \ {<< >>}
         \/ step \in ClusterSteps /\ \E c \in Clusters : names = << c >>
  PROVE  JobsInv'
<1> DEFINE j == [names |-> names, ips |-> << >>]
<1>1. << >> \in Seq(BlockIps)
  BY EmptySeq
<1>2. j.ips = << >> /\ (j \in VmJobs \/ j \in ClusterJobs)
  BY <1>1 DEF VmJobs, ClusterJobs, VmSteps, ClusterSteps
<1>3. step \notin HasIps /\ step # "cl-allocate"
  BY DEF HasIps
<1>4. (step \in VmSteps /\ j \in VmJobs) \/ (step \in ClusterSteps /\ j \in ClusterJobs)
  BY <1>1 DEF VmJobs, ClusterJobs
<1>5. pc' = [pc EXCEPT ![h] = step] /\ job' = [job EXCEPT ![h] = j]
  BY DEF Begin
<1> HIDE DEF j
<1>6. QED
  BY <1>2, <1>3, <1>4, <1>5, OneWorks DEF JobAt

\* A VM's script that ends goes on with the rest of the names, at the beginning.
LEMMA VmNextKeeps ==
  ASSUME JobsInv, NEW h \in Handlers, pc[h] \in VmSteps, VmNext(h)
  PROVE  JobsInv'
<1>1. job[h].names \in Seq(VmNames) /\ job[h].names # << >>
  <2>1. pc[h] # "idle"
    BY DEF VmSteps
  <2>2. QED
    BY <2>1, Holds DEF VmJobs
<1>2. CASE Len(job[h].names) = 1
  BY <1>2, FinishKeeps DEF VmNext
<1>3. CASE Len(job[h].names) # 1
  <2> DEFINE j == [names |-> Tail(job[h].names), ips |-> << >>]
  <2>1. Tail(job[h].names) \in Seq(VmNames) \ {<< >>} /\ << >> \in Seq(BlockIps)
    BY <1>1, <1>3, Parts, EmptySeq
  <2>2. j \in VmJobs /\ j.ips = << >>
    BY <2>1 DEF VmJobs
  <2>3. pc' = [pc EXCEPT ![h] = "vm-test"] /\ job' = [job EXCEPT ![h] = j]
    BY <1>3 DEF VmNext
  <2> HIDE DEF j
  <2>4. JobAt("vm-test", j)
    BY <2>2 DEF JobAt, VmSteps, HasIps, NoIpsYet
  <2>5. QED
    BY <2>3, <2>4, OneWorks
<1>4. QED
  BY <1>2, <1>3

LEMMA VmJobsKeep ==
  ASSUME TypeInv, NEW h \in Handlers, VmStep(h)
  PROVE  JobsInv'
<1>0. JobsInv /\ PoolInv /\ VmInv
  BY DEF TypeInv
<1>1. ASSUME NEW step \in VmSteps, pc[h] \in VmSteps, Goto(h, step),
             step \in HasIps => job[h].ips # << >>,
             step \in NoIpsYet => job[h].ips = << >>
      PROVE  JobsInv'
  <2>1. job[h] \in VmJobs
    BY <1>0, <1>1, Holds DEF VmSteps
  <2>2. step # "cl-allocate"
    BY DEF VmSteps
  <2>3. QED
    BY <1>0, <1>1, <2>1, <2>2, GotoKeeps DEF JobAt
<1>2. ASSUME NEW step \in VmSteps \ NoIpsYet, pc[h] \in VmSteps, NEW x \in BlockIps,
             Hold(h, step, << x >>)
      PROVE  JobsInv'
  <2> DEFINE j == [names |-> job[h].names, ips |-> << x >>]
  <2>1. job[h] \in VmJobs
    BY <1>0, <1>2, Holds DEF VmSteps
  <2>2. << x >> \in Seq(BlockIps) /\ << x >> # << >>
    OBVIOUS
  <2>3. j \in VmJobs /\ j.ips # << >>
    BY <2>1, <2>2 DEF VmJobs
  <2> HIDE DEF j
  <2>4. JobAt(step, j)
    BY <1>2, <2>3 DEF JobAt, VmSteps
  <2>5. QED
    BY <1>0, <1>2, <2>4, HoldKeeps DEF j
<1>3. CASE ApiCreateVM(h)
  <2>1. PICK r \in VmRequests : Begin(h, "vm-test", r)
    BY <1>3 DEF ApiCreateVM
  <2>2. r \in Seq(VmNames) \ {<< >>} /\ "vm-test" \in VmSteps
    BY VmAssumption DEF VmSteps
  <2>3. QED
    BY <1>0, <2>1, <2>2, BeginKeeps
<1>4. CASE VmTest(h)
  <2>1. pc[h] = "vm-test" /\ (Goto(h, "vm-allocate") \/ VmNext(h))
    BY <1>4 DEF VmTest
  <2>2. job[h].ips = << >>
    BY <1>0, <2>1, Holds DEF NoIpsYet
  <2>3. QED
    BY <1>0, <1>1, <2>1, <2>2, VmNextKeeps DEF VmSteps, HasIps
<1>5. CASE VmAllocate(h)
  <2>0. pc[h] = "vm-allocate" /\ pc[h] \in VmSteps
    BY <1>5 DEF VmAllocate, VmSteps
  <2>1. CASE AllocateIp(Name(h)) /\ Hold(h, "vm-mkdir", << AddressFor(Name(h)) >>)
    <3>1. Name(h) \in Names
      BY <1>0, <2>0, Holds, VmAssumption
    <3>2. AddressFor(Name(h)) \in BlockIps
      BY <1>0, <2>1, <3>1, AllocateIpKeeps
    <3>3. "vm-mkdir" \in VmSteps \ NoIpsYet
      BY DEF VmSteps, NoIpsYet
    <3>4. QED
      BY <1>2, <2>0, <2>1, <3>2, <3>3
  <2>2. CASE VmNext(h)
    BY <1>0, <2>0, <2>2, VmNextKeeps
  <2>3. QED
    BY <1>5, <2>1, <2>2 DEF VmAllocate
<1>6. CASE VmMkdir(h)
  <2>1. pc[h] = "vm-mkdir" /\ Goto(h, "vm-prepare")
    BY <1>6 DEF VmMkdir
  <2>2. job[h].ips # << >>
    BY <1>0, <2>1, Holds DEF HasIps
  <2>3. QED
    BY <1>1, <2>1, <2>2 DEF VmSteps, NoIpsYet
<1>7. CASE VmPrepare(h)
  <2>1. pc[h] = "vm-prepare" /\ (Goto(h, "vm-apply") \/ Goto(h, "vm-return"))
    BY <1>7 DEF VmPrepare
  <2>2. job[h].ips # << >>
    BY <1>0, <2>1, Holds DEF HasIps
  <2>3. QED
    BY <1>1, <2>1, <2>2 DEF VmSteps, NoIpsYet
<1>8. CASE VmApply(h)
  <2>1. pc[h] = "vm-apply" /\ (Goto(h, "vm-running") \/ Goto(h, "vm-failed"))
    BY <1>8 DEF VmApply
  <2>2. job[h].ips # << >>
    BY <1>0, <2>1, Holds DEF HasIps
  <2>3. QED
    BY <1>1, <2>1, <2>2 DEF VmSteps, NoIpsYet
<1>14. CASE VmReport(h) \/ VmRemove(h)
  BY <1>0, <1>14, VmNextKeeps DEF VmReport, VmRemove, VmSteps
<1>9. CASE ApiDeleteVM(h)
  <2>1. PICK n \in VmRecords : Begin(h, "vm-find", << n >>)
    BY <1>9 DEF ApiDeleteVM
  <2>2. n \in VmNames
    BY DEF VmRecords
  <2>3. << n >> \in Seq(VmNames) \ {<< >>} /\ "vm-find" \in VmSteps
    BY <2>2 DEF VmSteps
  <2>4. QED
    BY <1>0, <2>1, <2>3, BeginKeeps
<1>10. CASE VmFind(h)
  <2>0. pc[h] = "vm-find" /\ pc[h] \in VmSteps
    BY <1>10 DEF VmFind, VmSteps
  <2>1. CASE Name(h) \in VmRecords /\ Hold(h, "vm-mark", << vmDir[Name(h)].ip >>)
    <3>1. Name(h) \in VmNames /\ vmDir[Name(h)] \in BlockVm
      BY <1>0, <2>1 DEF VmInv, VmRecords
    <3>2. vmDir[Name(h)].ip \in BlockIps
      BY <3>1 DEF BlockVm
    <3>3. "vm-mark" \in VmSteps \ NoIpsYet
      BY DEF VmSteps, NoIpsYet
    <3>4. QED
      BY <1>2, <2>0, <2>1, <3>2, <3>3
  <2>2. CASE Goto(h, "vm-mark")
    BY <1>1, <2>0, <2>2 DEF VmSteps, HasIps, NoIpsYet
  <2>3. CASE Finish(h)
    BY <1>0, <2>3, FinishKeeps
  <2>4. QED
    BY <1>10, <2>1, <2>2, <2>3 DEF VmFind
<1>11. CASE VmDestroy(h)
  <2>1. pc[h] = "vm-destroy" /\ Goto(h, IF job[h].ips = << >> THEN "vm-remove" ELSE "vm-return")
    BY <1>11 DEF VmDestroy
  <2>2. QED
    BY <1>1, <2>1 DEF VmSteps, HasIps, NoIpsYet
<1>12. CASE VmReturn(h)
  BY <1>1, <1>12 DEF VmReturn, VmSteps, HasIps, NoIpsYet
<1>15. CASE VmMark(h)
  BY <1>1, <1>15 DEF VmMark, VmSteps, HasIps, NoIpsYet
<1>13. QED
  BY <1>3, <1>4, <1>5, <1>6, <1>7, <1>8, <1>9, <1>10, <1>11, <1>12, <1>14, <1>15 DEF VmStep

\* A cluster that still allocates has a node without an address.
LEMMA NextNode ==
  ASSUME JobsInv, NEW h \in Handlers, pc[h] = "cl-allocate"
  PROVE  /\ Name(h) \in Clusters /\ job[h].ips \in Seq(BlockIps)
         /\ Len(job[h].ips) \in Nat /\ Len(Nodes[Name(h)]) \in Nat
         /\ Len(job[h].ips) < Len(Nodes[Name(h)])
         /\ Len(job[h].ips) + 1 \in 1 .. Len(Nodes[Name(h)])
         /\ Nodes[Name(h)][Len(job[h].ips) + 1] \in Names
<1>1. /\ Name(h) \in Clusters /\ job[h].ips \in Seq(BlockIps)
      /\ Len(job[h].ips) < Len(Nodes[Name(h)])
  BY Holds DEF JobAt, ClusterSteps
<1>2. Nodes[Name(h)] \in Seq(Names) /\ Len(Nodes[Name(h)]) \in Nat /\ Len(job[h].ips) \in Nat
  BY <1>1, ClusterAssumption, LenProperties
<1>3. Len(job[h].ips) + 1 \in 1 .. Len(Nodes[Name(h)])
  BY <1>1, <1>2
<1>4. Nodes[Name(h)][Len(job[h].ips) + 1] \in Names
  BY <1>2, <1>3, ElementOfSeq
<1>5. QED
  BY <1>1, <1>2, <1>3, <1>4

LEMMA ClusterJobsKeep ==
  ASSUME TypeInv, NEW h \in Handlers, ClusterStep(h)
  PROVE  JobsInv'
<1>0. JobsInv /\ PoolInv /\ ClusterInv
  BY DEF TypeInv
<1>1. ASSUME NEW step \in ClusterSteps, pc[h] \in ClusterSteps, Goto(h, step),
             step \in HasIps => job[h].ips # << >>,
             step \in NoIpsYet => job[h].ips = << >>,
             step = "cl-allocate" => Len(job[h].ips) < Len(Nodes[Name(h)])
      PROVE  JobsInv'
  <2>1. job[h] \in ClusterJobs
    BY <1>0, <1>1, Holds DEF ClusterSteps
  <2>2. QED
    BY <1>0, <1>1, <2>1, GotoKeeps DEF JobAt, Name
<1>2. ASSUME NEW step \in ClusterSteps \ NoIpsYet, pc[h] \in ClusterSteps,
             NEW ips \in Seq(BlockIps), Hold(h, step, ips),
             step \in HasIps => ips # << >>,
             step = "cl-allocate" => Len(ips) < Len(Nodes[Name(h)])
      PROVE  JobsInv'
  <2> DEFINE j == [names |-> job[h].names, ips |-> ips]
  <2>1. job[h] \in ClusterJobs
    BY <1>0, <1>2, Holds DEF ClusterSteps
  <2>2. j \in ClusterJobs /\ j.ips = ips /\ j.names = job[h].names
    BY <2>1 DEF ClusterJobs
  <2> HIDE DEF j
  <2>3. JobAt(step, j)
    BY <1>2, <2>2 DEF JobAt, Name
  <2>4. QED
    BY <1>0, <1>2, <2>3, HoldKeeps DEF j
<1>3. CASE ApiCreateCluster(h) \/ ApiDeleteCluster(h)
  <2>1. PICK c \in Clusters : Begin(h, "cl-test", << c >>) \/ Begin(h, "cl-delete", << c >>)
    BY <1>3 DEF ApiCreateCluster, ApiDeleteCluster, ClusterRecords
  <2>2. "cl-test" \in ClusterSteps /\ "cl-delete" \in ClusterSteps
    BY DEF ClusterSteps
  <2>3. QED
    BY <1>0, <2>1, <2>2, BeginKeeps
<1>4. CASE ClTest(h)
  <2>1. pc[h] = "cl-test" /\ (Goto(h, "cl-mkdir") \/ Finish(h))
    BY <1>4 DEF ClTest
  <2>2. job[h].ips = << >>
    BY <1>0, <2>1, Holds DEF NoIpsYet
  <2>3. QED
    BY <1>0, <1>1, <2>1, <2>2, FinishKeeps DEF ClusterSteps, HasIps
<1>5. CASE ClMkdir(h)
  <2>1. pc[h] = "cl-mkdir" /\ (Goto(h, "cl-allocate") \/ Finish(h))
    BY <1>5 DEF ClMkdir
  <2>2. job[h].ips = << >> /\ Name(h) \in Clusters
    BY <1>0, <2>1, Holds DEF NoIpsYet, ClusterSteps
  <2>3. Len(job[h].ips) < Len(Nodes[Name(h)])
    <3>1. Nodes[Name(h)] \in Seq(Names) /\ Nodes[Name(h)] # << >>
      BY <2>2, ClusterAssumption
    <3>2. Len(Nodes[Name(h)]) \in Nat /\ Len(Nodes[Name(h)]) >= 1
      BY <3>1, Parts
    <3>3. QED
      BY <2>2, <3>2
  <2>4. QED
    BY <1>0, <1>1, <2>1, <2>2, <2>3, FinishKeeps DEF ClusterSteps, HasIps, NoIpsYet
<1>6. CASE ClAllocate(h)
  <2> DEFINE i == Len(job[h].ips) + 1
             node == Nodes[Name(h)][i]
             ips == Append(job[h].ips, AddressFor(node))
  <2>1. /\ pc[h] = "cl-allocate" /\ pc[h] \in ClusterSteps
        /\ \/ /\ AllocateIp(node)
              /\ Hold(h, IF i = Len(Nodes[Name(h)]) THEN "cl-manifest" ELSE "cl-allocate", ips)
           \/ Finish(h)
           \/ i > 1 /\ Goto(h, "cl-undo")
    BY <1>6 DEF ClAllocate, ClusterSteps
  <2>2. /\ job[h].ips \in Seq(BlockIps)
        /\ Len(job[h].ips) < Len(Nodes[Name(h)])
    BY <1>0, <2>1, NextNode
  <2>3. Len(Nodes[Name(h)]) \in Nat /\ Len(job[h].ips) \in Nat
    BY <1>0, <2>1, NextNode
  <2>4. node \in Names
    BY <1>0, <2>1, NextNode
  <2>5. CASE /\ AllocateIp(node)
             /\ Hold(h, IF i = Len(Nodes[Name(h)]) THEN "cl-manifest" ELSE "cl-allocate", ips)
    <3>1. AddressFor(node) \in BlockIps
      BY <1>0, <2>4, <2>5, AllocateIpKeeps
    <3>2. ips \in Seq(BlockIps) /\ Len(ips) = i
      BY <2>2, <3>1
    <3>3. i # Len(Nodes[Name(h)]) => i < Len(Nodes[Name(h)])
      BY <2>2, <2>3
    <3> HIDE DEF i, ips
    <3>4. QED
      BY <1>2, <2>1, <2>5, <3>2, <3>3 DEF ClusterSteps, NoIpsYet, HasIps
  <2>6. CASE i > 1 /\ Goto(h, "cl-undo")
    <3>1. job[h].ips # << >>
      BY <2>2, <2>3, <2>6
    <3>2. QED
      BY <1>1, <2>1, <2>6, <3>1 DEF ClusterSteps, NoIpsYet
  <2>7. QED
    BY <1>0, <2>1, <2>5, <2>6, FinishKeeps
<1>7. ASSUME NEW step \in {"cl-undo", "cl-return"}, pc[h] = step,
             Len(job[h].ips) > 1, Hold(h, step, Tail(job[h].ips))
      PROVE  JobsInv'
  <2>1. job[h].ips # << >> /\ job[h].ips \in Seq(BlockIps)
    BY <1>0, <1>7, Holds DEF HasIps
  <2>2. Tail(job[h].ips) \in Seq(BlockIps) /\ Tail(job[h].ips) # << >>
    BY <1>7, <2>1, Parts
  <2>3. step \in ClusterSteps \ NoIpsYet /\ pc[h] \in ClusterSteps /\ step # "cl-allocate"
    BY <1>7 DEF ClusterSteps, NoIpsYet
  <2> DEFINE ips == Tail(job[h].ips)
  <2>4. ips \in Seq(BlockIps) /\ ips # << >> /\ Hold(h, step, ips)
    BY <1>7, <2>2
  <2> HIDE DEF ips
  <2>5. QED
    BY <1>2, <2>3, <2>4
<1>8. CASE ClUndo(h)
  BY <1>0, <1>7, <1>8, FinishKeeps DEF ClUndo, ClRelease
<1>9. CASE ClReturn(h)
  <2>1. /\ pc[h] = "cl-return"
        /\ \/ Len(job[h].ips) > 1 /\ Hold(h, "cl-return", Tail(job[h].ips))
           \/ Goto(h, "cl-remove")
    BY <1>9 DEF ClReturn, ClRelease
  <2>2. Goto(h, "cl-remove") => JobsInv'
    BY <1>1, <2>1 DEF ClusterSteps, HasIps, NoIpsYet
  <2>3. QED
    BY <1>7, <2>1, <2>2
<1>10. CASE ClManifest(h)
  BY <1>0, <1>1, <1>10, FinishKeeps DEF ClManifest, ClusterSteps, HasIps, NoIpsYet
<1>11. CASE ClApply(h)
  BY <1>1, <1>11 DEF ClApply, ClusterSteps, HasIps, NoIpsYet
<1>12. CASE ClDelete(h)
  BY <1>0, <1>1, <1>12, FinishKeeps DEF ClDelete, ClusterSteps, HasIps, NoIpsYet
<1>13. CASE ClMark(h) \/ ClRemove(h)
  BY <1>0, <1>13, FinishKeeps DEF ClMark, ClRemove
<1>14. CASE ClRead(h)
  <2> DEFINE ips == IF Name(h) \in ClusterRecords THEN clusterDir[Name(h)].ips ELSE << >>
  <2>1. pc[h] = "cl-read" /\ Hold(h, IF ips = << >> THEN "cl-remove" ELSE "cl-return", ips)
    BY <1>14 DEF ClRead
  <2>2. ips \in Seq(BlockIps)
    <3>1. Name(h) \in ClusterRecords => clusterDir[Name(h)] \in BlockCluster
      BY <1>0 DEF ClusterInv, ClusterRecords
    <3>2. Name(h) \in ClusterRecords => clusterDir[Name(h)].ips \in Seq(BlockIps)
      BY <3>1 DEF BlockCluster
    <3>3. QED
      BY <3>2, EmptySeq
  <2> HIDE DEF ips
  <2>3. QED
    BY <1>2, <2>1, <2>2 DEF ClusterSteps, NoIpsYet, HasIps
<1>15. QED
  BY <1>3, <1>4, <1>5, <1>6, <1>8, <1>9, <1>10, <1>11, <1>12, <1>13, <1>14 DEF ClusterStep

-----------------------------------------------------------------------------
(* What the pool, the records and the histories hold. *)

\* The steps that touch the pool.
LEMMA PoolSteps ==
  ASSUME TypeInv, [Next]_vars
  PROVE  \/ UNCHANGED pool
         \/ \E n \in Names : AllocateIp(n)
         \/ \E x \in BlockIps : ReleaseIp(x)
         \/ hasBlock' \in {hasBlock, TRUE} /\ UNCHANGED lease
         \/ FreeBlock \/ FreeLeases
<1>0. JobsInv /\ PoolInv
  BY DEF TypeInv
<1>1. ASSUME NEW h \in Handlers, VmStep(h)
      PROVE  \/ UNCHANGED pool
             \/ \E n \in Names : AllocateIp(n)
             \/ \E x \in BlockIps : ReleaseIp(x)
  <2>1. CASE VmAllocate(h)
    <3>1. pc[h] = "vm-allocate" /\ (AllocateIp(Name(h)) \/ UNCHANGED pool)
      BY <2>1 DEF VmAllocate
    <3>2. Name(h) \in Names
      BY <1>0, <3>1, Holds, VmAssumption DEF VmSteps
    <3>3. QED
      BY <3>1, <3>2
  <2>2. CASE VmReturn(h)
    <3>1. pc[h] = "vm-return" /\ ReleaseIp(job[h].ips[1])
      BY <2>2 DEF VmReturn
    <3>2. job[h].ips[1] \in BlockIps
      BY <1>0, <3>1, Holds DEF HasIps
    <3>3. QED
      BY <3>1, <3>2
  <2>3. QED
    BY <1>1, <2>1, <2>2 DEF VmStep, ApiCreateVM, VmTest, VmMkdir, VmPrepare, VmApply, VmReport,
                            ApiDeleteVM, VmFind, VmMark, VmDestroy, VmRemove
<1>2. ASSUME NEW h \in Handlers, ClusterStep(h)
      PROVE  \/ UNCHANGED pool
             \/ \E n \in Names : AllocateIp(n)
             \/ \E x \in BlockIps : ReleaseIp(x)
  <2>1. CASE ClAllocate(h)
    <3> DEFINE i == Len(job[h].ips) + 1
               node == Nodes[Name(h)][i]
    <3>1. pc[h] = "cl-allocate" /\ (AllocateIp(node) \/ UNCHANGED pool)
      BY <2>1 DEF ClAllocate
    <3>2. node \in Names
      BY <1>0, <3>1, NextNode
    <3>3. QED
      BY <3>1, <3>2
  <2>2. CASE ClUndo(h) \/ ClReturn(h)
    <3>1. pc[h] \in {"cl-undo", "cl-return"} /\ ReleaseIp(Head(job[h].ips))
      BY <2>2 DEF ClUndo, ClReturn, ClRelease
    <3>2. Head(job[h].ips) \in BlockIps
      BY <1>0, <3>1, Holds DEF HasIps
    <3>3. QED
      BY <3>1, <3>2
  <2>3. QED
    BY <1>2, <2>1, <2>2 DEF ClusterStep, ApiCreateCluster, ClTest, ClMkdir, ClManifest, ClApply,
                            ClMark, ApiDeleteCluster, ClDelete, ClRead, ClRemove
<1>3. ASSUME AdminStep
      PROVE  \/ UNCHANGED pool
             \/ hasBlock' \in {hasBlock, TRUE} /\ UNCHANGED lease
             \/ FreeBlock \/ FreeLeases
  BY <1>3 DEF AdminStep, UserAdd, AllocateBlock, FolderByHand, UserDelete, UserPurge, AdminBegins,
              Confirmed, PurgeVm, DeleteFolder, RemoveUserDir, RemoveData, RemoveDataFails, Userdel,
              AdminStops
<1>4. QED
  BY <1>1, <1>2, <1>3 DEF Next, Restart, vars

LEMMA PoolKeeps == ASSUME TypeInv, [Next]_vars PROVE PoolInv'
<1>0. PoolInv
  BY DEF TypeInv
<1>1. CASE UNCHANGED pool
  BY <1>0, <1>1 DEF PoolInv, pool, Leased
<1>2. ASSUME NEW n \in Names, AllocateIp(n) PROVE PoolInv'
  BY <1>0, <1>2, AllocateIpKeeps
<1>3. ASSUME NEW x \in BlockIps, ReleaseIp(x) PROVE PoolInv'
  BY <1>0, <1>3, ReleaseIpKeeps
<1>4. CASE hasBlock' \in BOOLEAN /\ UNCHANGED lease
  BY <1>0, <1>4 DEF PoolInv, Leased
<1>5. CASE FreeLeases
  <2>1. lease' = [n \in Names |-> NoIp] /\ hasBlock' = hasBlock
    BY <1>5 DEF FreeLeases
  <2>2. Leased' = {}
    BY <2>1 DEF Leased
  <2>3. QED
    BY <1>0, <2>1, <2>2, FS_EmptySet DEF PoolInv
<1>6. hasBlock \in BOOLEAN /\ (FreeBlock => hasBlock' = FALSE /\ UNCHANGED lease)
  BY <1>0 DEF PoolInv, FreeBlock
<1>7. hasBlock' \in {hasBlock, TRUE} => hasBlock' \in BOOLEAN
  BY <1>6
<1>8. FreeBlock => hasBlock' \in BOOLEAN /\ UNCHANGED lease
  BY <1>6
<1>9. QED
  BY <1>1, <1>2, <1>3, <1>4, <1>5, <1>7, <1>8, PoolSteps

\* A record is a directory of its own kind.
LEMMA Records ==
  ASSUME VmInv
  PROVE  /\ \A d \in BlockVm : d # NoDir /\ d # Bare
         /\ \A n \in VmRecords : n \in VmNames /\ vmDir[n] \in BlockVm
         /\ \A n \in VmNames \ VmRecords : vmDir[n] \in {NoDir, Bare}
         /\ NoDir # Bare
<1>1. BlockVm \subseteq VmRecord
  BY BlockNumbers DEF BlockVm, VmRecord
<1>2. QED
  BY <1>1, VmDirAssumption, ProvisionerAssumption DEF VmInv, VmRecords

LEMMA ClusterRecordsAre ==
  ASSUME ClusterInv
  PROVE  /\ \A d \in BlockCluster : d # NoDir /\ d # Bare
         /\ \A c \in ClusterRecords : c \in Clusters /\ clusterDir[c] \in BlockCluster
         /\ \A c \in Clusters \ ClusterRecords : clusterDir[c] \in {NoDir, Bare}
<1>1. Seq(BlockIps) \subseteq Seq(Nat)
  BY BlockNumbers, SeqMonotonic
<1>2. BlockCluster \subseteq ClusterRecord
  BY <1>1 DEF BlockCluster, ClusterRecord
<1>3. QED
  BY <1>2, ClusterDirAssumption DEF ClusterInv, ClusterRecords

\* What get_cluster_metadata finds of a cluster's addresses.
LEMMA RecordIps ==
  ASSUME ClusterInv, NEW c
  PROVE  (IF c \in ClusterRecords THEN clusterDir[c].ips ELSE << >>) \in Seq(BlockIps)
<1>1. c \in ClusterRecords => clusterDir[c] \in BlockCluster
  BY ClusterRecordsAre
<1>2. c \in ClusterRecords => clusterDir[c].ips \in Seq(BlockIps)
  BY <1>1 DEF BlockCluster
<1>3. QED
  BY <1>2, EmptySeq

\* How one directory changes, and what a status can become.
LEMMA VmDirSet ==
  ASSUME VmInv, NEW n \in VmNames, NEW d \in BlockVm \cup {NoDir, Bare}, SetVmDir(n, d),
         UNCHANGED vmMachine, vmState' \subseteq vmState, n \in vmState' => d # NoDir
  PROVE  VmInv'
  BY DEF VmInv, SetVmDir

LEMMA VmStatusSet ==
  ASSUME VmInv, NEW h \in Handlers, Name(h) \in VmNames, NEW s \in VmStatus, SetVmStatus(h, s)
  PROVE  /\ vmDir' \in [VmNames -> BlockVm \cup {NoDir, Bare}]
         /\ \A m \in VmNames : m # Name(h) \/ Name(h) \notin VmRecords => vmDir'[m] = vmDir[m]
         /\ Name(h) \in VmRecords =>
              \/ /\ vmDir'[Name(h)] \in BlockVm
                 /\ vmDir'[Name(h)].ip = vmDir[Name(h)].ip /\ vmDir'[Name(h)].status = s
              \/ vmDir'[Name(h)] = Bare /\ OtherAt(h, MarkSteps \cup {"vm-prepare"})
              \/ vmDir' = vmDir /\ "disk" \in faults'
         /\ \A m \in VmNames : vmDir'[m] = NoDir <=> vmDir[m] = NoDir
         /\ VmRecords' \subseteq VmRecords
<1> DEFINE n == Name(h)
           d == [vmDir[n] EXCEPT !.status = s]
<1>1. CASE n \in VmRecords /\ SetVmDir(n, d)
  <2>1. vmDir[n] \in BlockVm
    BY <1>1, Records
  <2>2. d \in BlockVm /\ d.ip = vmDir[n].ip /\ d.status = s
    BY <2>1 DEF BlockVm
  <2>3. vmDir' = [vmDir EXCEPT ![n] = d]
    BY <1>1 DEF SetVmDir
  <2> HIDE DEF d
  <2>4. QED
    BY <1>1, <2>1, <2>2, <2>3, Records DEF VmInv, VmRecords
<1>2. CASE /\ n \in VmRecords /\ OtherAt(h, MarkSteps \cup {"vm-prepare"})
           /\ SetVmDir(n, Bare)
  BY <1>2, Records DEF VmInv, SetVmDir, VmRecords
<1>3. CASE UNCHANGED vmDir /\ Fault(IF n \in VmRecords THEN {"disk"} ELSE {})
  BY <1>3 DEF VmInv, VmRecords, Fault
<1>4. QED
  BY <1>1, <1>2, <1>3 DEF SetVmStatus

LEMMA VmAppliesKeeps ==
  ASSUME VmInv, NEW n \in VmNames, NEW x \in BlockIps, UNCHANGED vmDir,
         \/ VmMakes(n, x)
         \/ VmMakesUnrecorded(n, x)
  PROVE  VmInv'
  BY BlockNumbers DEF VmMakes, VmMakesUnrecorded, Make, VmInv

LEMMA DestroyKeeps ==
  ASSUME VmInv, NEW n \in VmNames, Destroy(n), UNCHANGED vmDir
  PROVE  /\ VmInv'
         /\ \A m \in VmNames : vmMachine'[m] \in {vmMachine[m], NoIp}
  BY DEF Destroy, VmInv, VmRecords

LEMMA VmRestartKeeps ==
  ASSUME JobsInv, VmInv, VmRestart
  PROVE  /\ VmInv'
         /\ folder = "none" => UNCHANGED vmMachine
<1>1. PICK made \in SUBSET {h \in Handlers : pc[h] = "vm-apply" /\ vmMachine[Name(h)] = NoIp
                                           /\ folder # "none"} :
      \E kept \in SUBSET made, torn \in SUBSET (AtStep("vm-remove") \cap VmRecords),
         lost \in SUBSET (AtStep("vm-remove") \cap vmState) :
        /\ vmMachine' = [n \in VmNames |->
             IF \E h \in made : Name(h) = n
             THEN job[CHOOSE h \in made : Name(h) = n].ips[1] ELSE vmMachine[n]]
        /\ vmState' = (vmState \ lost) \cup {n \in {Name(h) : h \in kept} : vmDir[n] # NoDir}
        /\ vmDir' = [n \in VmNames |-> IF n \in torn THEN Bare ELSE vmDir[n]]
  BY DEF VmRestart
<1>2. PICK kept \in SUBSET made, torn \in SUBSET (AtStep("vm-remove") \cap VmRecords),
           lost \in SUBSET (AtStep("vm-remove") \cap vmState) :
      /\ vmMachine' = [n \in VmNames |->
             IF \E h \in made : Name(h) = n
             THEN job[CHOOSE h \in made : Name(h) = n].ips[1] ELSE vmMachine[n]]
      /\ vmState' = (vmState \ lost) \cup {n \in {Name(h) : h \in kept} : vmDir[n] # NoDir}
      /\ vmDir' = [n \in VmNames |-> IF n \in torn THEN Bare ELSE vmDir[n]]
  BY <1>1
<1>3. ASSUME NEW h \in made PROVE Name(h) \in VmNames /\ job[h].ips[1] \in BlockIps
  <2>1. h \in Handlers /\ pc[h] = "vm-apply"
    OBVIOUS
  <2>2. QED
    BY <2>1, Holds DEF VmSteps, HasIps
<1>4. ASSUME NEW n \in VmNames, \E h \in made : Name(h) = n
      PROVE  vmMachine'[n] \in BlockIps
  <2> DEFINE g == CHOOSE h \in made : Name(h) = n
  <2>1. g \in made
    BY <1>4
  <2>2. vmMachine'[n] = job[g].ips[1]
    BY <1>2, <1>4
  <2> HIDE DEF g
  <2>3. QED
    BY <1>3, <2>1, <2>2
<1>5. ASSUME NEW n \in VmNames, ~ \E h \in made : Name(h) = n
      PROVE  vmMachine'[n] = vmMachine[n]
  BY <1>2, <1>5
<1>6. \A n \in VmNames : vmMachine'[n] \in BlockIps \/ vmMachine'[n] = vmMachine[n]
  BY <1>4, <1>5
<1>7. vmMachine' \in [VmNames -> BlockIps \cup {NoIp}]
  <2>1. vmMachine' = [n \in VmNames |-> vmMachine'[n]]
    BY <1>2
  <2>2. QED
    BY <1>6, <2>1 DEF VmInv
<1>8. /\ vmDir' \in [VmNames -> BlockVm \cup {NoDir, Bare}]
      /\ \A n \in VmNames : vmDir[n] # NoDir => vmDir'[n] # NoDir
  BY <1>2, Records DEF VmInv
<1>9. ASSUME NEW n \in vmState' PROVE n \in VmNames /\ vmDir'[n] # NoDir /\ vmMachine'[n] # NoIp
  <2>1. CASE n \in vmState
    <3>1. n \in VmNames /\ vmDir[n] # NoDir /\ vmMachine[n] # NoIp
      BY <2>1 DEF VmInv
    <3>2. QED
      BY <1>6, <1>8, <3>1, BlockNumbers
  <2>2. CASE n \notin vmState
    <3>1. PICK k \in kept : n = Name(k) /\ vmDir[n] # NoDir
      BY <1>2, <1>9, <2>2
    <3>2. n \in VmNames /\ \E h \in made : Name(h) = n
      BY <1>3, <3>1
    <3>3. QED
      BY <1>4, <1>8, <3>1, <3>2, BlockNumbers
  <2>3. QED
    BY <2>1, <2>2
<1>10. folder = "none" => UNCHANGED vmMachine
  <2>1. SUFFICES ASSUME folder = "none" PROVE vmMachine' = vmMachine
    OBVIOUS
  <2>2. made = {}
    BY <2>1
  <2>3. vmMachine' = [n \in VmNames |-> vmMachine[n]]
    BY <1>2, <2>2
  <2>4. QED
    BY <2>3 DEF VmInv
<1>11. QED
  BY <1>7, <1>8, <1>9, <1>10 DEF VmInv

LEMMA VmKeeps == ASSUME TypeInv, NEW h \in Handlers, VmStep(h) PROVE VmInv'
<1>0. JobsInv /\ VmInv
  BY DEF TypeInv
<1>1. pc[h] # "idle" /\ pc[h] \in VmSteps => Name(h) \in VmNames
  BY <1>0, Holds
<1>2. CASE UNCHANGED vms
  BY <1>0, <1>2 DEF vms, VmInv, VmRecords
<1>3. CASE VmMkdir(h)
  <2>1. /\ pc[h] = "vm-mkdir" /\ UNCHANGED << vmMachine, vmState >>
        /\ \/ vmDir[Name(h)] = NoDir /\ SetVmDir(Name(h), Bare)
           \/ UNCHANGED vmDir
    BY <1>3 DEF VmMkdir
  <2>2. Name(h) \in VmNames
    BY <1>1, <2>1 DEF VmSteps
  <2>3. QED
    BY <1>0, <1>2, <2>1, <2>2, VmDirSet, ProvisionerAssumption DEF vms
<1>4. CASE VmPrepare(h)
  <2>1. /\ pc[h] = "vm-prepare" /\ UNCHANGED << vmMachine, vmState >>
        /\ WriteVmRecord(h) \/ UNCHANGED vmDir
    BY <1>4 DEF VmPrepare
  <2>2. Name(h) \in VmNames /\ job[h].ips[1] \in BlockIps
    BY <1>0, <1>1, <2>1, Holds DEF VmSteps, HasIps
  <2> DEFINE d == [status |-> "creating", ip |-> job[h].ips[1]]
  <2>3. d \in BlockVm
    BY <2>2 DEF BlockVm, VmStatus
  <2>4. WriteVmRecord(h) =>
          SetVmDir(Name(h), d) \/ SetVmDir(Name(h), Bare) \/ UNCHANGED vmDir
    BY DEF WriteVmRecord
  <2> HIDE DEF d
  <2>5. d # NoDir /\ Bare # NoDir
    BY <1>0, <2>3, Records
  <2>6. QED
    BY <1>0, <1>2, <2>1, <2>2, <2>3, <2>4, <2>5, VmDirSet DEF vms
<1>5. CASE VmApply(h)
  <2>1. pc[h] = "vm-apply"
    BY <1>5 DEF VmApply
  <2>2. Name(h) \in VmNames /\ job[h].ips[1] \in BlockIps
    BY <1>0, <1>1, <2>1, Holds DEF VmSteps, HasIps
  <2>3. /\ UNCHANGED vmDir
        /\ \/ VmMakes(Name(h), job[h].ips[1])
           \/ VmMakesUnrecorded(Name(h), job[h].ips[1])
           \/ UNCHANGED vms
    BY <1>5 DEF VmApply, vms
  <2>4. QED
    BY <1>0, <1>2, <2>2, <2>3, VmAppliesKeeps
<1>6. CASE VmReport(h) \/ VmMark(h)
  <2>1. PICK s \in VmStatus : SetVmStatus(h, s)
    BY <1>6 DEF VmReport, VmMark, VmStatus
  <2>2. Name(h) \in VmNames /\ UNCHANGED << vmMachine, vmState >>
    BY <1>1, <1>6 DEF VmReport, VmMark, VmSteps
  <2>3. /\ vmDir' \in [VmNames -> BlockVm \cup {NoDir, Bare}]
        /\ \A m \in VmNames : vmDir'[m] = NoDir <=> vmDir[m] = NoDir
    BY <1>0, <2>1, <2>2, VmStatusSet
  <2>4. QED
    BY <1>0, <2>2, <2>3 DEF VmInv
<1>7. CASE VmDestroy(h)
  <2>1. pc[h] = "vm-destroy" /\ Destroy(Name(h)) /\ UNCHANGED vmDir
    BY <1>7 DEF VmDestroy
  <2>2. QED
    BY <1>0, <1>1, <2>1, DestroyKeeps DEF VmSteps
<1>8. CASE VmRemove(h)
  <2>1. PICK d \in CutShort(vmDir[Name(h)]) : SetVmDir(Name(h), d)
    BY <1>8 DEF VmRemove, CutShort
  <2>2. /\ pc[h] = "vm-remove" /\ UNCHANGED vmMachine
        /\ vmState' = vmState \ {Name(h)}
    BY <1>8 DEF VmRemove
  <2>3. Name(h) \in VmNames
    BY <1>1, <2>2 DEF VmSteps
  <2>4. d \in BlockVm \cup {NoDir, Bare}
    BY <1>0, <2>1, <2>3 DEF CutShort, VmInv
  <2>5. QED
    BY <1>0, <2>1, <2>2, <2>3, <2>4, VmDirSet
<1>9. QED
  BY <1>2, <1>3, <1>4, <1>5, <1>6, <1>7, <1>8 DEF VmStep, ApiCreateVM, VmTest, VmAllocate,
       ApiDeleteVM, VmFind, VmReturn

LEMMA ClusterKeeps == ASSUME TypeInv, NEW h \in Handlers, ClusterStep(h) PROVE ClusterInv'
<1>0. JobsInv /\ ClusterInv
  BY DEF TypeInv
<1>1. pc[h] # "idle" /\ pc[h] \in ClusterSteps => Name(h) \in Clusters /\ job[h].ips \in Seq(BlockIps)
  BY <1>0, Holds
<1>2. << >> \in Seq(BlockIps)
  BY EmptySeq
<1>3. ASSUME NEW c \in Clusters, NEW d \in BlockCluster \cup {NoDir, Bare},
             SetClusterDir(c, d), UNCHANGED nodeIps
      PROVE  ClusterInv'
  BY <1>0, <1>3 DEF SetClusterDir, ClusterInv
<1>4. ASSUME NEW c \in Clusters, NEW ips \in Seq(BlockIps),
             nodeIps' = [nodeIps EXCEPT ![c] = ips], UNCHANGED clusterDir
      PROVE  ClusterInv'
  BY <1>0, <1>4 DEF ClusterInv
<1>5. CASE UNCHANGED clusters
  BY <1>0, <1>5 DEF clusters, ClusterInv
<1>6. CASE ClMkdir(h)
  BY <1>1, <1>3, <1>5, <1>6 DEF ClMkdir, ClusterSteps, clusters
<1>7. CASE ClManifest(h)
  <2> DEFINE d == [status |-> "pending", ips |-> job[h].ips]
  <2>1. /\ pc[h] = "cl-manifest" /\ UNCHANGED nodeIps
        /\ SetClusterDir(Name(h), d) \/ SetClusterDir(Name(h), Bare) \/ UNCHANGED clusterDir
    BY <1>7 DEF ClManifest
  <2>2. Name(h) \in Clusters /\ d \in BlockCluster
    BY <1>1, <2>1 DEF ClusterSteps, BlockCluster
  <2> HIDE DEF d
  <2>3. QED
    BY <1>3, <1>5, <2>1, <2>2 DEF clusters
<1>8. CASE ClApply(h)
  BY <1>1, <1>4, <1>5, <1>8 DEF ClApply, ClusterSteps, clusters
<1>9. CASE ClMark(h)
  <2> DEFINE s == IF pc[h] = "cl-applied" THEN "provisioning" ELSE "failed"
             ips == IF Name(h) \in ClusterRecords THEN clusterDir[Name(h)].ips ELSE << >>
             d == [status |-> s, ips |-> ips]
  <2>1. /\ pc[h] \in {"cl-applied", "cl-failed"} /\ UNCHANGED nodeIps
        /\ SetClusterDir(Name(h), d) \/ UNCHANGED clusterDir
    BY <1>9 DEF ClMark
  <2>2. ips \in Seq(BlockIps)
    BY <1>0, <1>2, RecordIps
  <2>3. d \in BlockCluster
    BY <2>2 DEF BlockCluster
  <2> HIDE DEF d
  <2>4. QED
    BY <1>1, <1>3, <1>5, <2>1, <2>3 DEF ClusterSteps, clusters
<1>10. CASE ClDelete(h)
  BY <1>1, <1>2, <1>4, <1>5, <1>10 DEF ClDelete, ClusterSteps, clusters
<1>11. CASE ClRemove(h)
  <2>1. PICK d \in CutShort(clusterDir[Name(h)]) : SetClusterDir(Name(h), d)
    BY <1>11 DEF ClRemove, CutShort
  <2>2. Name(h) \in Clusters /\ UNCHANGED nodeIps
    BY <1>1, <1>11 DEF ClRemove, ClusterSteps
  <2>3. d \in BlockCluster \cup {NoDir, Bare}
    BY <1>0, <2>1, <2>2 DEF CutShort, ClusterInv
  <2>4. QED
    BY <1>3, <2>1, <2>2, <2>3
<1>12. QED
  BY <1>5, <1>6, <1>7, <1>8, <1>9, <1>10, <1>11 DEF ClusterStep, ApiCreateCluster, ClTest, ClAllocate,
       ClUndo, ClRelease, ApiDeleteCluster, ClRead, ClReturn

LEMMA ClusterRestartKeeps == ASSUME ClusterInv, ClusterRestart, UNCHANGED nodeIps PROVE ClusterInv'
  BY DEF ClusterInv, ClusterRestart

\* The histories: what a step counts, and what it says has gone wrong.
LEMMA HistoryKeeps ==
  ASSUME TypeInv, [Next]_vars
  PROVE  HistoryInv' /\ faults \subseteq faults'
<1>0. calls \in 0 .. MaxCalls /\ faults \subseteq Kinds /\ MaxCalls \in Nat
  BY ProvisionerAssumption DEF TypeInv, HistoryInv
<1>1. ASSUME NEW kinds \in SUBSET Kinds, Fault(kinds)
      PROVE  faults' \subseteq Kinds /\ faults \subseteq faults'
  BY <1>0, <1>1 DEF Fault
<1>2. calls' = calls => calls' \in 0 .. MaxCalls
  BY <1>0
<1>3. calls < MaxCalls /\ calls' = calls + 1 => calls' \in 0 .. MaxCalls
  BY <1>0
<1>4. calls' = calls \/ (calls < MaxCalls /\ calls' = calls + 1)
  <2>1. ASSUME NEW h \in Handlers, VmStep(h)
        PROVE  calls' = calls \/ (calls < MaxCalls /\ calls' = calls + 1)
    <3>1. CASE ApiCreateVM(h) \/ ApiDeleteVM(h)
      BY <3>1 DEF ApiCreateVM, ApiDeleteVM, Begin
    <3>2. VmNext(h) => calls' = calls
      BY DEF VmNext, Finish
    <3>3. QED
      BY <2>1, <3>1, <3>2 DEF VmStep, VmTest, Goto, VmAllocate, Hold, VmMkdir, VmPrepare, VmApply,
         VmReport, VmFind, Finish, VmMark, VmDestroy, VmReturn, VmRemove
  <2>2. ASSUME NEW h \in Handlers, ClusterStep(h)
        PROVE  calls' = calls \/ (calls < MaxCalls /\ calls' = calls + 1)
    <3>1. CASE ApiCreateCluster(h) \/ ApiDeleteCluster(h)
      BY <3>1 DEF ApiCreateCluster, ApiDeleteCluster, Begin
    <3>2. QED
      BY <2>2, <3>1 DEF ClusterStep, ClTest, Goto, ClMkdir, ClAllocate, Hold, ClUndo, ClRelease,
         Finish, ClManifest, ClApply, ClMark, ClDelete, ClRead, ClReturn, ClRemove
  <2>3. ASSUME AdminStep
        PROVE  calls' = calls \/ (calls < MaxCalls /\ calls' = calls + 1)
    BY <2>3 DEF AdminStep, UserAdd, AllocateBlock, FolderByHand, UserDelete, UserPurge, AdminBegins,
       Confirmed, PurgeVm, DeleteFolder, FreeBlock, FreeLeases, RemoveUserDir, RemoveData,
       RemoveDataFails, Userdel, AdminStops
  <2>4. QED
    BY <2>1, <2>2, <2>3 DEF Next, Restart, vars
<1>5. faults' \subseteq Kinds /\ faults \subseteq faults'
  <2>1. faults' = faults \/ \E kinds \in SUBSET Kinds : Fault(kinds)
    <3>1. ASSUME NEW h \in Handlers, VmStep(h)
          PROVE  faults' = faults \/ \E kinds \in SUBSET Kinds : Fault(kinds)
      <4>1. CASE ApiCreateVM(h) \/ ApiDeleteVM(h)
        BY <4>1 DEF ApiCreateVM, ApiDeleteVM, Begin, Kinds
      <4>2. CASE VmAllocate(h) \/ VmReturn(h)
        BY <4>2 DEF VmAllocate, AllocateIp, VmReturn, ReleaseIp, Kinds
      <4>3. CASE VmDestroy(h)
        BY <4>3 DEF VmDestroy, Destroy, Kinds
      <4>4. CASE VmPrepare(h) \/ VmReport(h) \/ VmMark(h)
        BY <4>4 DEF VmPrepare, WriteVmRecord, VmReport, VmMark, SetVmStatus, Kinds
      <4>5. QED
        BY <3>1, <4>1, <4>2, <4>3, <4>4 DEF VmStep, VmTest, VmMkdir, VmApply, VmFind, VmRemove
    <3>2. ASSUME NEW h \in Handlers, ClusterStep(h)
          PROVE  faults' = faults \/ \E kinds \in SUBSET Kinds : Fault(kinds)
      BY <3>2 DEF ClusterStep, ApiCreateCluster, Begin, ClTest, ClMkdir, ClAllocate, AllocateIp,
                  ClUndo, ClRelease, ReleaseIp, ClManifest, ClApply, ClMark, ApiDeleteCluster,
                  ClDelete, ClRead, ClReturn, ClRemove, Kinds
    <3>3. ASSUME AdminStep
          PROVE  faults' = faults \/ \E kinds \in SUBSET Kinds : Fault(kinds)
      BY <3>3 DEF AdminStep, UserAdd, AllocateBlock, FolderByHand, UserDelete, UserPurge,
                  AdminBegins, Confirmed, PurgeVm, Destroy, DeleteFolder, FreeBlock, FreeLeases,
                  RemoveUserDir, RemoveData, RemoveDataFails, Userdel, AdminStops, Kinds
    <3>4. QED
      BY <3>1, <3>2, <3>3 DEF Next, Restart, vars, Kinds
  <2>2. QED
    BY <1>0, <1>1, <2>1
<1>6. QED
  BY <1>2, <1>3, <1>4, <1>5 DEF HistoryInv

-----------------------------------------------------------------------------
(* What an administrator's command holds, and the order in which things go. *)

LEMMA RemoveDataKeeps == ASSUME TypeInv, RemoveData PROVE VmInv' /\ ClusterInv'
<1>1. /\ vmDir' = [n \in VmNames |-> NoDir] /\ vmState' = {} /\ vmMachine' = vmMachine
      /\ clusterDir' = [c \in Clusters |-> NoDir] /\ nodeIps' = nodeIps
  BY DEF RemoveData
<1>2. QED
  BY <1>1 DEF TypeInv, VmInv, ClusterInv

\* What is left of directories when rm -rf fails.
LEMMA LeftOver ==
  ASSUME NEW dir, NEW left \in AllCutShort(dir)
  PROVE  \A n \in DOMAIN dir : left[n] = NoDir \/ (dir[n] # NoDir /\ left[n] \in {Bare, dir[n]})
<1>1. \A n \in DOMAIN dir : left[n] \in CutShort(dir[n])
  BY DEF AllCutShort
<1>2. QED
  BY <1>1 DEF CutShort

LEMMA RemoveDataFailsKeeps ==
  ASSUME TypeInv, RemoveDataFails
  PROVE  /\ VmInv' /\ ClusterInv'
         /\ \A n \in VmNames : vmDir'[n] \in {NoDir, Bare, vmDir[n]}
         /\ \A c \in Clusters : clusterDir'[c] \in {NoDir, Bare, clusterDir[c]}
         /\ \A n \in VmNames : vmDir[n] = NoDir => vmDir'[n] = NoDir
         /\ \A c \in Clusters : clusterDir[c] = NoDir => clusterDir'[c] = NoDir
<1>0. VmInv /\ ClusterInv
  BY DEF TypeInv
<1>1. /\ vmDir' \in AllCutShort(vmDir)
      /\ clusterDir' \in AllCutShort(clusterDir) \/ clusterDir' = clusterDir
      /\ vmState' \in SUBSET {n \in vmState : vmDir'[n] # NoDir}
      /\ vmMachine' = vmMachine /\ nodeIps' = nodeIps
  BY DEF RemoveDataFails
<1>2. DOMAIN vmDir = VmNames /\ DOMAIN clusterDir = Clusters
  BY <1>0 DEF VmInv, ClusterInv
<1>3. /\ vmDir' \in [VmNames -> Range(vmDir) \cup {NoDir, Bare}]
      /\ \A n \in VmNames : vmDir'[n] \in {NoDir, Bare, vmDir[n]}
      /\ \A n \in VmNames : vmDir[n] = NoDir => vmDir'[n] = NoDir
  <2>1. vmDir' \in [VmNames -> Range(vmDir) \cup {NoDir, Bare}]
    BY <1>1, <1>2 DEF AllCutShort
  <2>2. \A n \in VmNames : vmDir'[n] = NoDir \/ (vmDir[n] # NoDir /\ vmDir'[n] \in {Bare, vmDir[n]})
    BY <1>1, <1>2, LeftOver
  <2>3. QED
    BY <2>1, <2>2
<1>4. VmInv'
  <2>1. Range(vmDir) \subseteq BlockVm \cup {NoDir, Bare}
    BY <1>0 DEF VmInv, Range
  <2>2. vmDir' \in [VmNames -> BlockVm \cup {NoDir, Bare}]
    BY <1>3, <2>1
  <2>3. QED
    BY <1>0, <1>1, <2>2 DEF VmInv
<1>5. CASE clusterDir' \in AllCutShort(clusterDir)
  <2>1. Range(clusterDir) \subseteq BlockCluster \cup {NoDir, Bare}
    BY <1>0 DEF ClusterInv, Range
  <2>2. clusterDir' \in [Clusters -> Range(clusterDir) \cup {NoDir, Bare}]
    BY <1>2, <1>5 DEF AllCutShort
  <2>3. clusterDir' \in [Clusters -> BlockCluster \cup {NoDir, Bare}]
    BY <2>1, <2>2
  <2>4. \A c \in Clusters :
          clusterDir'[c] = NoDir \/ (clusterDir[c] # NoDir /\ clusterDir'[c] \in {Bare, clusterDir[c]})
    BY <1>2, <1>5, LeftOver
  <2>5. QED
    BY <1>0, <1>1, <1>3, <1>4, <2>3, <2>4 DEF ClusterInv
<1>6. CASE clusterDir' = clusterDir
  BY <1>0, <1>1, <1>3, <1>4, <1>6 DEF ClusterInv
<1>7. QED
  BY <1>1, <1>5, <1>6

LEMMA AdminTypes == ASSUME TypeInv, AdminStep PROVE UserTypeOK'
<1>0. /\ account \in BOOLEAN /\ userDir \in BOOLEAN
      /\ folder \in {"none", "managed", "manual"}
      /\ admin \in [step : AdminSteps, purge : BOOLEAN, vms : SUBSET VmNames]
      /\ At("destroy") <=> admin.vms # {} /\ ~At("confirm")
  BY DEF TypeInv, UserTypeOK
<1>1. ASSUME NEW step \in AdminSteps, NEW purge \in BOOLEAN, NEW names \in SUBSET VmNames,
             admin' = [step |-> step, purge |-> purge, vms |-> names],
             step = "destroy" <=> names # {} /\ step # "confirm",
             account' \in BOOLEAN, userDir' \in BOOLEAN,
             folder' \in {"none", "managed", "manual"}
      PROVE  UserTypeOK'
  <2>1. admin' \in [step : AdminSteps, purge : BOOLEAN, vms : SUBSET VmNames]
    BY <1>1
  <2>2. admin'.step = step /\ admin'.vms = names
    BY <1>1
  <2>3. At("destroy")' <=> admin'.vms # {} /\ ~At("confirm")'
    BY <1>1, <2>2 DEF At
  <2>4. QED
    BY <1>1, <2>1, <2>3 DEF UserTypeOK
<1>2. ASSUME AdminEnds, account' \in BOOLEAN, userDir' = userDir, folder' = folder
      PROVE  UserTypeOK'
  <2>1. admin' = [step |-> "idle", purge |-> FALSE, vms |-> {}]
    BY <1>2 DEF AdminEnds, NoTask
  <2>2. "idle" \in AdminSteps /\ {} \in SUBSET VmNames /\ FALSE \in BOOLEAN
    BY DEF AdminSteps
  <2>3. account' \in BOOLEAN /\ userDir' \in BOOLEAN /\ folder' \in {"none", "managed", "manual"}
    BY <1>0, <1>2
  <2>4. QED
    BY <1>1, <2>1, <2>2, <2>3
<1>3. ASSUME NEW step \in AdminSteps \ {"confirm", "destroy"}, AdminGoto(step),
             admin.step \notin {"confirm", "destroy"},
             account' = account, userDir' \in BOOLEAN, folder' \in {"none", "managed", "manual"}
      PROVE  UserTypeOK'
  <2>1. admin' = [step |-> step, purge |-> admin.purge, vms |-> admin.vms]
    BY <1>0, <1>3 DEF AdminGoto
  <2>2. admin.purge \in BOOLEAN /\ admin.vms = {}
    BY <1>0, <1>3 DEF At
  <2>3. QED
    BY <1>0, <1>1, <1>3, <2>1, <2>2
<1>4. CASE UserAdd \/ AllocateBlock \/ FolderByHand
  <2>1. admin' = admin
    BY <1>4 DEF UserAdd, AllocateBlock, FolderByHand, users
  <2>2. folder' \in {"none", "managed", "manual"}
    BY <1>0, <1>4 DEF UserAdd, AllocateBlock, FolderByHand, users
  <2>3. account' \in BOOLEAN /\ userDir' \in BOOLEAN
    BY <1>0, <1>4 DEF UserAdd, AllocateBlock, FolderByHand, users
  <2>4. At("destroy")' <=> admin'.vms # {} /\ ~At("confirm")'
    BY <1>0, <2>1 DEF At
  <2>5. QED
    BY <1>0, <2>1, <2>2, <2>3, <2>4 DEF UserTypeOK
<1>5. CASE UserDelete
  <2>1. admin' = [step |-> "folder", purge |-> FALSE, vms |-> {}]
    BY <1>5 DEF UserDelete, AdminBegins
  <2>2. account' = account /\ userDir' = userDir /\ folder' = folder
    BY <1>5 DEF UserDelete, AdminBegins
  <2>3. "folder" \in AdminSteps /\ {} \in SUBSET VmNames /\ FALSE \in BOOLEAN
    BY DEF AdminSteps
  <2>4. account' \in BOOLEAN /\ userDir' \in BOOLEAN /\ folder' \in {"none", "managed", "manual"}
    BY <1>0, <2>2
  <2>5. QED
    BY <1>1, <2>1, <2>3, <2>4
<1>6. CASE UserPurge
  <2>1. VmDirs \in SUBSET VmNames
    BY DEF VmDirs
  <2>2. QED
    BY <1>0, <1>1, <1>6, <2>1 DEF UserPurge, AdminBegins, AdminSteps
<1>7. CASE Confirmed
  <2> DEFINE names == IF admin.vms = {} THEN {} ELSE VmDirs
             step == IF names = {} THEN "folder" ELSE "destroy"
  <2>1. names \in SUBSET VmNames
    BY DEF VmDirs
  <2>2. admin' = [step |-> step, purge |-> admin.purge, vms |-> names]
    BY <1>0, <1>7 DEF Confirmed
  <2>3. step \in AdminSteps /\ (step = "destroy" <=> names # {} /\ step # "confirm")
    BY DEF AdminSteps
  <2>4. account' = account /\ userDir' = userDir /\ folder' = folder /\ admin.purge \in BOOLEAN
    BY <1>0, <1>7 DEF Confirmed
  <2> HIDE DEF names, step
  <2>5. QED
    BY <1>0, <1>1, <2>1, <2>2, <2>3, <2>4
<1>8. CASE PurgeVm
  <2>1. PICK n \in admin.vms :
          admin' = [admin EXCEPT !.vms = @ \ {n},
                                 !.step = IF admin.vms = {n} THEN "folder" ELSE @]
    BY <1>8 DEF PurgeVm
  <2> DEFINE names == admin.vms \ {n}
             step == IF admin.vms = {n} THEN "folder" ELSE "destroy"
  <2>2. admin.step = "destroy" /\ account' = account /\ userDir' = userDir /\ folder' = folder
    BY <1>8 DEF PurgeVm, At
  <2>3. admin' = [step |-> step, purge |-> admin.purge, vms |-> names]
    BY <1>0, <2>1, <2>2
  <2>4. /\ names \in SUBSET VmNames /\ admin.purge \in BOOLEAN
        /\ step \in AdminSteps /\ (step = "destroy" <=> names # {} /\ step # "confirm")
    BY <1>0 DEF AdminSteps
  <2> HIDE DEF names, step
  <2>5. QED
    BY <1>0, <1>1, <2>2, <2>3, <2>4
<1>9. CASE DeleteFolder
  <2>1. folder' \in {"none", "managed", "manual"}
    BY <1>0, <1>9 DEF DeleteFolder
  <2>2. QED
    BY <1>0, <1>3, <1>9, <2>1 DEF DeleteFolder, FolderGone, At, AdminSteps
<1>10. CASE FreeBlock \/ FreeLeases \/ RemoveUserDir \/ RemoveData
  BY <1>0, <1>3, <1>10 DEF FreeBlock, FreeLeases, RemoveUserDir, RemoveData, At, AdminSteps
<1>11. CASE Userdel \/ AdminStops \/ RemoveDataFails
  BY <1>0, <1>2, <1>11 DEF Userdel, AdminStops, RemoveDataFails
<1>12. QED
  BY <1>4, <1>5, <1>6, <1>7, <1>8, <1>9, <1>10, <1>11 DEF AdminStep

LEMMA TypesKeep == ASSUME TypeInv, [Next]_vars PROVE TypeInv'
<1>0. PoolInv' /\ HistoryInv'
  BY PoolKeeps, HistoryKeeps
<1>1. CASE UNCHANGED vars
  BY <1>0, <1>1 DEF vars, vms, clusters, users, TypeInv, JobsInv, JobAt, VmInv, ClusterInv,
                    UserTypeOK, At
<1>2. UNCHANGED vms => VmInv'
  BY DEF TypeInv, vms, VmInv
<1>3. UNCHANGED clusters => ClusterInv'
  BY DEF TypeInv, clusters, ClusterInv
<1>4. UNCHANGED users => UserTypeOK'
  BY DEF TypeInv, users, UserTypeOK, At
<1>5. UNCHANGED << pc, job >> => JobsInv'
  BY DEF TypeInv, JobsInv, JobAt
<1>6. CASE \E h \in Handlers : VmStep(h) /\ UNCHANGED << clusters, users >>
  BY <1>0, <1>3, <1>4, <1>6, VmJobsKeep, VmKeeps DEF TypeInv
<1>7. CASE \E h \in Handlers : ClusterStep(h) /\ UNCHANGED << vms, users >>
  BY <1>0, <1>2, <1>4, <1>7, ClusterJobsKeep, ClusterKeeps DEF TypeInv
<1>8. CASE AdminStep
  <2>1. UserTypeOK'
    BY <1>8, AdminTypes
  <2>2. UNCHANGED << pc, job >>
    BY <1>8 DEF AdminStep, UserAdd, AllocateBlock, FolderByHand, UserDelete, UserPurge, AdminBegins,
       Confirmed, PurgeVm, DeleteFolder, FreeBlock, FreeLeases, RemoveUserDir, RemoveData,
       RemoveDataFails, Userdel, AdminStops
  <2>3. CASE PurgeVm
    <3>1. /\ admin.vms \in SUBSET VmNames
          /\ \E n \in admin.vms : UNCHANGED << vmMachine, vmState >> \/ Destroy(n)
          /\ UNCHANGED << vmDir, clusters >>
      BY <2>3 DEF PurgeVm, TypeInv, UserTypeOK
    <3>2. VmInv'
      BY <1>2, <3>1, DestroyKeeps DEF TypeInv, vms
    <3>3. QED
      BY <1>0, <1>3, <1>5, <2>1, <2>2, <3>1, <3>2 DEF TypeInv
  <2>4. CASE RemoveData
    BY <1>0, <1>5, <2>1, <2>2, <2>4, RemoveDataKeeps DEF TypeInv
  <2>7. CASE RemoveDataFails
    BY <1>0, <1>5, <2>1, <2>2, <2>7, RemoveDataFailsKeeps DEF TypeInv
  <2>5. CASE ~PurgeVm /\ ~RemoveData /\ ~RemoveDataFails
    <3>1. UNCHANGED << vms, clusters >>
      BY <1>8, <2>5 DEF AdminStep, UserAdd, AllocateBlock, FolderByHand, UserDelete, UserPurge,
         AdminBegins, Confirmed, DeleteFolder, FreeBlock, FreeLeases, RemoveUserDir, Userdel, AdminStops
    <3>2. QED
      BY <1>0, <1>2, <1>3, <1>5, <2>1, <2>2, <3>1 DEF TypeInv
  <2>6. QED
    BY <2>3, <2>4, <2>5, <2>7
<1>9. CASE Restart
  <2>1. VmRestart /\ ClusterRestart /\ UNCHANGED << nodeIps, users >>
    BY <1>9 DEF Restart
  <2>2. VmInv' /\ ClusterInv'
    BY <2>1, VmRestartKeeps, ClusterRestartKeeps DEF TypeInv
  <2>3. JobsInv'
    BY <1>9 DEF Restart, JobsInv, JobAt
  <2>4. QED
    BY <1>0, <1>4, <2>1, <2>2, <2>3 DEF TypeInv
<1>10. QED
  BY <1>1, <1>6, <1>7, <1>8, <1>9 DEF Next

\* Machines come to be only in a folder.
LEMMA MachinesNeedFolder ==
  ASSUME TypeInv, [Next]_vars, folder = "none", \A n \in VmNames : vmMachine[n] = NoIp
  PROVE  \A n \in VmNames : vmMachine'[n] = NoIp
<1>0. VmInv /\ JobsInv
  BY DEF TypeInv
<1>1. CASE UNCHANGED vmMachine
  BY <1>1
<1>2. ASSUME NEW n \in VmNames, Destroy(n) PROVE UNCHANGED vmMachine
  BY <1>0, <1>2 DEF Destroy, VmInv
<1>3. ASSUME NEW h \in Handlers, VmStep(h) PROVE UNCHANGED vmMachine
  <2>1. CASE VmDestroy(h)
    <3>1. pc[h] = "vm-destroy" /\ Destroy(Name(h))
      BY <2>1 DEF VmDestroy
    <3>2. QED
      BY <1>0, <1>2, <3>1, Holds DEF VmSteps
  <2>2. CASE VmApply(h)
    BY <2>2 DEF VmApply, VmMakes, VmMakesUnrecorded, Make
  <2>3. QED
    BY <1>3, <2>1, <2>2 DEF VmStep, ApiCreateVM, VmTest, VmAllocate, VmMkdir, VmPrepare, VmReport,
       ApiDeleteVM, VmFind, VmMark, VmReturn, VmRemove, vms
<1>4. CASE AdminStep
  <2>1. admin.vms \in SUBSET VmNames
    BY DEF TypeInv, UserTypeOK
  <2>2. QED
    BY <1>1, <1>2, <1>4, <2>1 DEF AdminStep, UserAdd, AllocateBlock, FolderByHand, UserDelete,
       UserPurge, AdminBegins, Confirmed, PurgeVm, DeleteFolder, FreeBlock, FreeLeases, RemoveUserDir,
       RemoveData, RemoveDataFails, Userdel, AdminStops, vms
<1>5. CASE Restart
  BY <1>0, <1>1, <1>5, VmRestartKeeps DEF Restart
<1>6. QED
  BY <1>1, <1>3, <1>4, <1>5 DEF Next, vars, vms

LEMMA AdminKeeps == ASSUME TypeInv, AdminInv, [Next]_vars PROVE AdminInv'
<1>0. /\ UserTypeOK
      /\ At("idle") <=> admin = NoTask
      /\ userDir \/ ~At("idle") => account
      /\ At("data") \/ At("userdel") => ~userDir
      /\ \/ ~account
         \/ admin.step \in {"block", "leases", "users", "data", "userdel"}
         => folder # "managed"
      /\ folder = "none" => \A n \in VmNames : vmMachine[n] = NoIp
  BY DEF AdminInv, TypeInv
<1>1. CASE AdminStep
  <2>1. admin \in [step : AdminSteps, purge : BOOLEAN, vms : SUBSET VmNames]
    BY <1>0 DEF UserTypeOK
  <2>2. folder' = "none" => \A n \in VmNames : vmMachine'[n] = NoIp
    <3>1. CASE folder = "none"
      BY <1>0, <1>1, <3>1, MachinesNeedFolder
    <3>2. CASE folder # "none" /\ folder' = "none"
      BY <1>1, <3>2 DEF AdminStep, UserAdd, AllocateBlock, FolderByHand, UserDelete, UserPurge,
         AdminBegins, Confirmed, PurgeVm, DeleteFolder, FreeBlock, FreeLeases, RemoveUserDir,
         RemoveData, RemoveDataFails, Userdel, AdminStops, users, vms
    <3>3. QED
      BY <3>1, <3>2
  <2>3. ASSUME NEW step \in AdminSteps \ {"idle"}, admin'.step = step, account, account' = account,
               step \in {"data", "userdel"} => ~userDir',
               step \in {"block", "leases", "users", "data", "userdel"} => folder' # "managed"
        PROVE  AdminInv'
    <3>1. admin' # NoTask
      BY <2>3 DEF NoTask
    <3>2. QED
      BY <2>2, <2>3, <3>1 DEF AdminInv, At
  <2>4. ASSUME AdminEnds, userDir' => account', ~account' => folder' # "managed"
        PROVE  AdminInv'
    BY <2>2, <2>4 DEF AdminInv, At, AdminEnds, NoTask
  <2>5. ASSUME NEW step, AdminGoto(step) PROVE admin'.step = step
    BY <2>1, <2>5 DEF AdminGoto
  <2>6. CASE UserAdd
    BY <1>0, <2>2, <2>6 DEF UserAdd, AdminInv, At
  <2>7. CASE AllocateBlock
    BY <1>0, <2>2, <2>7 DEF AllocateBlock, AdminInv, At, users
  <2>8. CASE UserDelete \/ UserPurge
    BY <1>0, <2>3, <2>8 DEF UserDelete, UserPurge, AdminBegins, AdminSteps
  <2>9. CASE Confirmed \/ PurgeVm
    <3>1. /\ account' = account /\ userDir' = userDir /\ folder' = folder
          /\ admin'.step \in {"folder", "destroy"} /\ ~At("idle")
      BY <2>1, <2>9 DEF Confirmed, PurgeVm, At
    <3>2. admin'.step \in AdminSteps \ {"idle"}
      BY <3>1 DEF AdminSteps
    <3>3. QED
      BY <1>0, <2>3, <3>1, <3>2
  <2>10. CASE DeleteFolder
    <3>1. /\ account' = account /\ ~At("idle") /\ folder' # "managed"
          /\ \/ admin.purge /\ AdminGoto("block")
             \/ ~admin.purge /\ AdminGoto("users")
      BY <2>10 DEF DeleteFolder, FolderGone, At
    <3>2. admin'.step \in {"block", "users"}
      BY <2>5, <3>1
    <3>3. admin'.step \in AdminSteps \ {"idle", "data", "userdel"}
      BY <3>2 DEF AdminSteps
    <3>4. QED
      BY <1>0, <2>3, <3>1, <3>3
  <2>11. CASE FreeBlock
    BY <1>0, <2>3, <2>5, <2>11 DEF FreeBlock, At, AdminSteps
  <2>12. CASE FreeLeases
    BY <1>0, <2>3, <2>5, <2>12 DEF FreeLeases, At, AdminSteps
  <2>13. CASE RemoveUserDir
    BY <1>0, <2>3, <2>5, <2>13 DEF RemoveUserDir, At, AdminSteps
  <2>14. CASE RemoveData
    BY <1>0, <2>3, <2>5, <2>14 DEF RemoveData, At, AdminSteps
  <2>15. CASE Userdel
    BY <1>0, <2>4, <2>15 DEF Userdel, At
  <2>16. CASE AdminStops
    BY <1>0, <2>4, <2>16 DEF AdminStops
  <2>17. CASE RemoveDataFails
    BY <1>0, <2>4, <2>17 DEF RemoveDataFails
  <2>18. CASE FolderByHand
    BY <1>0, <2>2, <2>18 DEF FolderByHand, AdminInv, At
  <2>19. QED
    BY <1>1, <2>6, <2>7, <2>8, <2>9, <2>10, <2>11, <2>12, <2>13, <2>14, <2>15, <2>16, <2>17, <2>18
    DEF AdminStep
<1>2. CASE UNCHANGED users
  <2>1. folder = "none" => \A n \in VmNames : vmMachine'[n] = NoIp
    BY <1>0, MachinesNeedFolder
  <2>2. QED
    BY <1>0, <1>2, <2>1 DEF users, AdminInv, At
<1>3. QED
  BY <1>1, <1>2 DEF Next, Restart, vars

-----------------------------------------------------------------------------
(* The whole invariant. *)

\* A goroutine's step is its own.
LEMMA OthersStay ==
  ASSUME JobsInv, NEW h \in Handlers, VmStep(h) \/ ClusterStep(h)
  PROVE  \A g \in Handlers : g # h => pc'[g] = pc[g] /\ job'[g] = job[g]
<1>0. pc \in [Handlers -> VmSteps \cup ClusterSteps \cup {"idle"}]
      /\ job \in [Handlers -> VmJobs \cup ClusterJobs \cup {NoJob}]
  BY DEF JobsInv
<1>1. ASSUME NEW step, NEW j, pc' = [pc EXCEPT ![h] = step], job' = [job EXCEPT ![h] = j]
      PROVE  \A g \in Handlers : g # h => pc'[g] = pc[g] /\ job'[g] = job[g]
  BY <1>0, <1>1
<1>2. ASSUME NEW step, Goto(h, step)
      PROVE  \A g \in Handlers : g # h => pc'[g] = pc[g] /\ job'[g] = job[g]
  BY <1>0, <1>2 DEF Goto
<1>3. ASSUME Finish(h)
      PROVE  \A g \in Handlers : g # h => pc'[g] = pc[g] /\ job'[g] = job[g]
  BY <1>1, <1>3 DEF Finish
<1>4. ASSUME NEW step, NEW ips, Hold(h, step, ips)
      PROVE  \A g \in Handlers : g # h => pc'[g] = pc[g] /\ job'[g] = job[g]
  BY <1>1, <1>4 DEF Hold
<1>5. ASSUME NEW step, NEW names, Begin(h, step, names)
      PROVE  \A g \in Handlers : g # h => pc'[g] = pc[g] /\ job'[g] = job[g]
  BY <1>1, <1>5 DEF Begin
<1>6. ASSUME VmNext(h)
      PROVE  \A g \in Handlers : g # h => pc'[g] = pc[g] /\ job'[g] = job[g]
  <2>1. CASE Len(job[h].names) = 1
    BY <1>3, <1>6, <2>1 DEF VmNext
  <2>2. CASE Len(job[h].names) # 1
    BY <1>1, <1>6, <2>2 DEF VmNext
  <2>3. QED
    BY <2>1, <2>2
<1>7. CASE VmStep(h)
  <2>1. CASE ApiCreateVM(h) \/ ApiDeleteVM(h)
    BY <1>5, <2>1 DEF ApiCreateVM, ApiDeleteVM
  <2>2. CASE VmTest(h) \/ VmAllocate(h) \/ VmApply(h) \/ VmReport(h) \/ VmRemove(h)
    BY <1>2, <1>4, <1>6, <2>2 DEF VmTest, VmAllocate, VmApply, VmReport, VmRemove
  <2>3. CASE VmMkdir(h) \/ VmPrepare(h) \/ VmMark(h) \/ VmDestroy(h) \/ VmReturn(h)
    BY <1>2, <2>3 DEF VmMkdir, VmPrepare, VmMark, VmDestroy, VmReturn
  <2>4. CASE VmFind(h)
    BY <1>2, <1>3, <1>4, <2>4 DEF VmFind
  <2>5. QED
    BY <1>7, <2>1, <2>2, <2>3, <2>4 DEF VmStep
<1>8. CASE ClusterStep(h)
  <2>1. CASE ApiCreateCluster(h) \/ ApiDeleteCluster(h)
    BY <1>5, <2>1 DEF ApiCreateCluster, ApiDeleteCluster
  <2>2. CASE ClTest(h) \/ ClMkdir(h) \/ ClManifest(h) \/ ClApply(h) \/ ClMark(h) \/ ClRemove(h)
    BY <1>2, <1>3, <2>2 DEF ClTest, ClMkdir, ClManifest, ClApply, ClMark, ClRemove
  <2>3. CASE ClAllocate(h) \/ ClUndo(h) \/ ClReturn(h) \/ ClRead(h) \/ ClDelete(h)
    BY <1>2, <1>3, <1>4, <2>3 DEF ClAllocate, ClUndo, ClReturn, ClRelease, ClRead, ClDelete
  <2>4. QED
    BY <1>8, <2>1, <2>2, <2>3 DEF ClusterStep
<1>9. QED
  BY <1>7, <1>8

LEMMA Initial == Init => IInv
<1> SUFFICES ASSUME Init PROVE IInv
  OBVIOUS
<1>1. Leased = {}
  BY DEF Init, PoolInit, Leased
<1>2. VmRecords = {}
  BY ProvisionerAssumption DEF Init, VmInit, VmRecords
<1>3. JobsInv
  BY DEF Init, PoolInit, JobsInv, JobAt
<1>4. PoolInv
  BY <1>1, FS_EmptySet DEF Init, PoolInit, PoolInv
<1>5. VmInv
  BY <1>2 DEF Init, VmInit, VmInv
<1>6. ClusterInv
  BY EmptySeq DEF Init, ClusterInit, ClusterInv
<1>7. UserTypeOK
  BY DEF Init, UserInit, UserTypeOK, NoTask, AdminSteps, At
<1>8. HistoryInv
  BY ProvisionerAssumption DEF Init, PoolInit, HistoryInv
<1>9. AdminInv
  BY DEF Init, UserInit, VmInit, AdminInv, At, NoTask
<1>10. QED
  BY <1>3, <1>4, <1>5, <1>6, <1>7, <1>8, <1>9 DEF IInv, TypeInv

\* The invariant holds in every state the system reaches.
THEOREM ResourcesInvariant == Spec => []IInv
<1>1. IInv /\ [Next]_vars => IInv'
  BY TypesKeep, AdminKeeps DEF IInv
<1>2. QED
  BY <1>1, Initial, PTL DEF Spec

\* What is held fits the step it is held at.
THEOREM ResourcesTypes == Spec => []TypeOK
<1>1. IInv => TypeOK
  <2> SUFFICES ASSUME IInv PROVE TypeOK
    OBVIOUS
  <2>0. JobsInv /\ PoolInv /\ VmInv /\ ClusterInv /\ UserTypeOK /\ HistoryInv
    BY DEF IInv, TypeInv
  <2>1. BlockIps \subseteq Nat /\ Seq(BlockIps) \subseteq Seq(Nat)
    BY BlockNumbers, SeqMonotonic
  <2>2. VmTypeOK
    <3>1. BlockVm \subseteq VmRecord
      BY <2>1 DEF BlockVm, VmRecord
    <3>2. QED
      BY <2>0, <2>1, <3>1 DEF VmInv, VmTypeOK
  <2>3. ClusterTypeOK
    <3>1. BlockCluster \subseteq ClusterRecord
      BY <2>1 DEF BlockCluster, ClusterRecord
    <3>2. QED
      BY <2>0, <2>1, <3>1 DEF ClusterInv, ClusterTypeOK
  <2>4. ASSUME NEW h \in Handlers
        PROVE  /\ pc[h] = "idle" <=> job[h] = NoJob
               /\ Range(job[h].ips) \subseteq IpsOf(FirstBlock)
               /\ pc[h] \in VmSteps => Range(job[h].names) \subseteq VmNames
               /\ pc[h] \in ClusterSteps => Range(job[h].names) \subseteq Clusters
               /\ pc[h] \in {"vm-mkdir", "vm-prepare", "vm-apply", "vm-running", "vm-failed",
                             "vm-return", "cl-undo", "cl-return"} => job[h].ips # << >>
    <3>1. CASE pc[h] = "idle"
      <4>1. "idle" \notin VmSteps /\ "idle" \notin ClusterSteps
        BY DEF VmSteps, ClusterSteps
      <4>2. job[h] = NoJob
        BY <2>0, <3>1, <4>1 DEF JobsInv, JobAt
      <4>3. job[h].ips = << >> /\ << >> \in Seq(BlockIps)
        BY <4>2, EmptySeq DEF NoJob
      <4>4. Range(job[h].ips) \subseteq BlockIps
        BY <4>3, RangeIn
      <4>5. QED
        BY <3>1, <4>1, <4>2, <4>4 DEF BlockIps
    <3>2. CASE pc[h] # "idle"
      <4>1. /\ job[h].names # << >> /\ job[h].ips \in Seq(BlockIps)
            /\ pc[h] \in HasIps => job[h].ips # << >>
            /\ pc[h] \in VmSteps => job[h] \in VmJobs
            /\ pc[h] \in ClusterSteps =>
                 job[h].names = << Name(h) >> /\ Name(h) \in Clusters
        BY <2>0, <3>2, Holds
      <4>2. job[h] # NoJob
        BY <4>1 DEF NoJob
      <4>3. Range(job[h].ips) \subseteq BlockIps
        BY <4>1, RangeIn
      <4>4. pc[h] \in VmSteps => Range(job[h].names) \subseteq VmNames
        <5>1. pc[h] \in VmSteps => job[h].names \in Seq(VmNames)
          BY <4>1 DEF VmJobs
        <5>2. QED
          BY <5>1, RangeIn
      <4>5. pc[h] \in ClusterSteps => Range(job[h].names) \subseteq Clusters
        <5>1. \A c \in Clusters : << c >> \in Seq(Clusters)
          OBVIOUS
        <5>2. pc[h] \in ClusterSteps => job[h].names \in Seq(Clusters)
          BY <4>1, <5>1
        <5>3. QED
          BY <5>2, RangeIn
      <4>6. QED
        BY <3>2, <4>1, <4>2, <4>3, <4>4, <4>5 DEF HasIps, BlockIps
    <3>3. QED
      BY <3>1, <3>2
  <2>5. QED
    BY <2>0, <2>2, <2>3, <2>4 DEF TypeOK, PoolInv, HistoryInv, JobsInv, BlockIps
<1>2. QED
  BY <1>1, ResourcesInvariant, PTL

\* A user's account goes only after all machines: the folder they are in goes first,
\* unless it was made by hand.
THEOREM ResourcesNoMachineLeft == Spec => []NoMachineOutlivesUser
<1>1. IInv => NoMachineOutlivesUser
  BY DEF IInv, TypeInv, UserTypeOK, AdminInv, NoMachineOutlivesUser
<1>2. QED
  BY <1>1, ResourcesInvariant, PTL

-----------------------------------------------------------------------------
(* The leases are those of an address pool. *)

allocations == IF hasBlock THEN {[user |-> "user", block |-> FirstBlock]} ELSE {}
leases == {[ip |-> lease[n], user |-> "user", resource |-> n, type |-> "any"] : n \in Leased}

\* A lease per name that has an address.
LEMMA LeaseLines ==
  ASSUME PoolInv
  PROVE  /\ Pool!LeasesOf("user") = leases
         /\ Pool!LeasedIps = {lease[n] : n \in Leased}
         /\ Cardinality(leases) = Cardinality(Leased)
<1> DEFINE f == [n \in Leased |->
                  [ip |-> lease[n], user |-> "user", resource |-> n, type |-> "any"]]
<1>1. f \in [Leased -> leases]
  BY DEF leases
<1>2. \A m, n \in Leased : f[m] = f[n] => m = n
  OBVIOUS
<1>3. \A l \in leases : \E n \in Leased : f[n] = l
  BY DEF leases
<1>4. f \in Bijection(Leased, leases)
  BY <1>1, <1>2, <1>3 DEF Bijection, Injection, Surjection, IsInjective
<1>5. ExistsBijection(Leased, leases)
  BY <1>4 DEF ExistsBijection
<1>6. Cardinality(leases) = Cardinality(Leased)
  BY <1>5, FS_Bijection DEF PoolInv
<1>7. Pool!LeasesOf("user") = leases
  BY DEF Pool!LeasesOf, leases
<1>8. Pool!LeasedIps = {lease[n] : n \in Leased}
  <2>1. Pool!LeasedIps = {l.ip : l \in leases}
    BY DEF Pool!LeasedIps, leases
  <2>2. \A n \in Leased : f[n] \in leases /\ f[n].ip = lease[n]
    BY <1>1
  <2>3. \A l \in leases : \E n \in Leased : l.ip = lease[n]
    BY <1>3
  <2> HIDE DEF f
  <2>4. ASSUME NEW x PROVE x \in Pool!LeasedIps <=> \E n \in Leased : x = lease[n]
    BY <2>1, <2>2, <2>3
  <2>5. QED
    BY <2>4
<1>9. QED
  BY <1>6, <1>7, <1>8

LEMMA GrantsBlock ==
  ASSUME ~hasBlock, hasBlock' = TRUE, UNCHANGED lease
  PROVE  Pool!GrantBlock("user")
<1>1. allocations = {} /\ allocations' = {[user |-> "user", block |-> FirstBlock]}
  BY DEF allocations
<1>2. leases' = leases
  BY DEF leases, Leased
<1>3. ~Pool!HasBlock("user") /\ Pool!BlocksTaken = {}
  BY <1>1 DEF Pool!HasBlock, Pool!BlocksTaken, allocations
<1>4. FirstBlock \in Pool!FreeBlocks({})
  BY ProvisionerAssumption DEF Pool!FreeBlocks, Pool!Blocks, Pool!FirstBlock, Pool!NetworkEnd,
     Blocks, FirstBlock, NetworkEnd
<1>5. QED
  BY <1>1, <1>2, <1>3, <1>4 DEF Pool!GrantBlock, allocations, leases

LEMMA GrantsIp ==
  ASSUME PoolInv, NEW n \in Names, n \notin Leased, AllocateIp(n)
  PROVE  Pool!GrantIp("user", n, "any")
<1> DEFINE a == AddressFor(n)
           line == [ip |-> a, user |-> "user", resource |-> n, type |-> "any"]
<1>1. /\ hasBlock /\ hasBlock' = hasBlock /\ Cardinality(Leased) < MaxIps
      /\ a \in FreeNow
      /\ lease' = [lease EXCEPT ![n] = a] /\ lease'[n] = a
      /\ Leased' = Leased \cup {n} /\ \A m \in Leased : lease'[m] = lease[m]
  BY AddressForIs, AllocateIpKeeps DEF AllocateIp, CanLease
<1>2. a \in Pool!FreeIps(FirstBlock, Pool!LeasedIps)
  BY <1>1, LeaseLines DEF FreeNow, FreeIps, IpsOf, Pool!FreeIps, Pool!IpsOf
<1> HIDE DEF a
<1>3. leases' = leases \cup {line}
  <2>1. ASSUME NEW l PROVE l \in leases' <=> l \in leases \/ l = line
    BY <1>1 DEF leases
  <2>2. QED
    BY <2>1
<1>4. Pool!Cardinality(Pool!LeasesOf("user")) < MaxIps
  <2>1. Pool!Cardinality(leases) = Cardinality(leases)
    BY DEF Pool!Cardinality, Cardinality
  <2>2. QED
    BY <1>1, <2>1, LeaseLines
<1>5. ~ \E l \in leases : l.user = "user" /\ l.resource = n
  BY DEF leases
<1>6. /\ allocations = {[user |-> "user", block |-> FirstBlock]}
      /\ allocations' = allocations
  BY <1>1 DEF allocations
<1> DEFINE block == [user |-> "user", block |-> FirstBlock]
<1>7. block \in allocations /\ block.user = "user" /\ block.block = FirstBlock
  BY <1>6
<1> HIDE DEF block
<1>8. \E b \in allocations :
        b.user = "user" /\ \E ip \in Pool!FreeIps(b.block, Pool!LeasedIps) :
          leases' = leases \cup {[ip |-> ip, user |-> "user", resource |-> n, type |-> "any"]}
  BY <1>2, <1>3, <1>7
<1>9. QED
  BY <1>4, <1>5, <1>6, <1>8 DEF Pool!GrantIp, allocations, leases

LEMMA ReturnsIp ==
  ASSUME PoolInv, NEW x \in BlockIps, ReleaseIp(x), pool' # pool
  PROVE  Pool!ReturnIp(x) /\ x \in Pool!LeasedIps
<1>1. lease' = [n \in Names |-> IF lease[n] = x THEN NoIp ELSE lease[n]] /\ hasBlock' = hasBlock
  BY DEF ReleaseIp, pool
<1>2. x # NoIp
  BY BlockNumbers
<1>3. \E n \in Leased : lease[n] = x
  <2>1. SUFFICES ASSUME \A n \in Leased : lease[n] # x PROVE FALSE
    OBVIOUS
  <2>2. lease' = [n \in Names |-> lease[n]]
    BY <1>1, <1>2, <2>1 DEF Leased
  <2>3. QED
    BY <1>1, <2>2 DEF PoolInv, pool
<1>4. Leased' = {n \in Leased : lease[n] # x} /\ \A n \in Leased' : lease'[n] = lease[n]
  BY <1>1, <1>2 DEF Leased
<1>5. leases' = {l \in leases : l.ip # x}
  <2>1. ASSUME NEW l PROVE l \in leases' <=> l \in leases /\ l.ip # x
    BY <1>4 DEF leases
  <2>2. QED
    BY <2>1
<1>6. x \in Pool!LeasedIps
  BY <1>3, LeaseLines
<1>7. allocations' = allocations
  BY <1>1 DEF allocations
<1>8. QED
  BY <1>5, <1>6, <1>7 DEF Pool!ReturnIp, allocations, leases

\* All that happens to the leases is that a free address of the block is granted
\* within the quota, or that one is returned, but for a purge.
THEOREM ResourcesLeases == Spec => LeasesFromPool
<1>1. Init => Pool!PoolInit
  BY DEF Init, PoolInit, Pool!PoolInit, Leased
<1>2. IInv /\ [Next]_vars => (pool' # pool => FreeBlock \/ FreeLeases \/ Pool!PoolNext)
  <2> SUFFICES ASSUME IInv, [Next]_vars, pool' # pool, ~FreeBlock, ~FreeLeases
               PROVE  Pool!PoolNext
    OBVIOUS
  <2>0. PoolInv /\ TypeInv
    BY DEF IInv, TypeInv
  <2>1. ASSUME NEW n \in Names, AllocateIp(n) PROVE Pool!PoolNext
    <3>1. n \notin Leased
      <4>1. SUFFICES ASSUME n \in Leased PROVE FALSE
        OBVIOUS
      <4>2. lease' = [lease EXCEPT ![n] = lease[n]] /\ hasBlock' = hasBlock
        BY <2>1, <4>1 DEF AllocateIp, AddressFor
      <4>3. QED
        BY <2>0, <4>2 DEF PoolInv, pool
    <3>2. Pool!GrantIp("user", n, "any")
      BY <2>0, <2>1, <3>1, GrantsIp
    <3>3. QED
      BY <3>2 DEF Pool!PoolNext
  <2>2. ASSUME NEW x \in BlockIps, ReleaseIp(x) PROVE Pool!PoolNext
    BY <2>0, <2>2, ReturnsIp DEF Pool!PoolNext
  <2>3. CASE hasBlock' \in {hasBlock, TRUE} /\ UNCHANGED lease
    <3>1. ~hasBlock /\ hasBlock' = TRUE
      BY <2>0, <2>3 DEF pool, PoolInv
    <3>2. Pool!GrantBlock("user")
      BY <2>3, <3>1, GrantsBlock
    <3>3. QED
      BY <3>2 DEF Pool!PoolNext
  <2>4. QED
    BY <2>0, <2>1, <2>2, <2>3, PoolSteps
<1>3. QED
  BY <1>1, <1>2, ResourcesInvariant, PTL DEF Spec, LeasesFromPool
-----------------------------------------------------------------------------
(* How many VMs there are and are to come. *)

\* A goroutine works on no more VMs than a request may ask for, and deletes one.
SizeAt(step, j) ==
  /\ step \in VmSteps => Len(j.names) <= MaxCount
  /\ step \in {"vm-find", "vm-mark", "vm-destroy"} => Len(j.names) = 1
QuotaInv ==
  /\ IsFiniteSet(VmRecords)
  /\ \A h \in Handlers : SizeAt(pc[h], job[h])
  /\ QuotaOvershootBounded

\* What a goroutine is still to make.
LEMMA Coming ==
  ASSUME JobsInv, NEW h \in Handlers, SizeAt(pc[h], job[h])
  PROVE  /\ ToCome(h) \in 0 .. MaxCount
         /\ pc[h] \notin VmSteps => ToCome(h) = 0
         /\ pc[h] \in VmSteps => Len(job[h].names) \in 1 .. MaxCount
<1>1. pc[h] \in VmSteps => job[h].names # << >> /\ job[h].names \in Seq(VmNames \cup Clusters)
  BY Holds DEF VmSteps
<1>2. pc[h] \in VmSteps => Len(job[h].names) \in 1 .. MaxCount
  BY <1>1, Parts, VmAssumption DEF SizeAt
<1>3. QED
  BY <1>2, VmAssumption DEF ToCome, VmSteps

\* When a name's script ends, as many are to come as there are names left.
LEMMA NextComes ==
  ASSUME JobsInv, NEW h \in Handlers, SizeAt(pc[h], job[h]), pc[h] \in VmSteps, VmNext(h)
  PROVE  SizeAt(pc'[h], job'[h]) /\ ToCome(h)' = Len(job[h].names) - 1
<1>0. h \in DOMAIN pc /\ h \in DOMAIN job /\ Len(job[h].names) \in 1 .. MaxCount
  BY Coming DEF JobsInv
<1>1. CASE Len(job[h].names) = 1
  <2>1. pc'[h] = "idle"
    BY <1>0, <1>1 DEF VmNext, Finish
  <2>2. QED
    BY <1>1, <2>1 DEF SizeAt, ToCome, VmSteps
<1>2. CASE Len(job[h].names) # 1
  <2>1. pc'[h] = "vm-test" /\ job'[h].names = Tail(job[h].names)
    BY <1>0, <1>2 DEF VmNext
  <2>2. job[h].names # << >> /\ job[h].names \in Seq(VmNames \cup Clusters)
    BY Holds DEF VmSteps
  <2>3. Len(Tail(job[h].names)) = Len(job[h].names) - 1
    BY <2>2, HeadTailProperties
  <2>4. QED
    BY <1>0, <2>1, <2>3, VmAssumption DEF SizeAt, ToCome
<1>3. QED
  BY <1>1, <1>2

\* A step of a VM's script makes no record, or makes one and has one less to come.
LEMMA VmComes ==
  ASSUME JobsInv, VmInv, NEW h \in Handlers, SizeAt(pc[h], job[h]), VmStep(h), ~ApiCreateVM(h)
  PROVE  /\ SizeAt(pc'[h], job'[h]) /\ ToCome(h)' \in Int
         /\ \/ VmRecords' \subseteq VmRecords /\ ToCome(h)' <= ToCome(h)
            \/ /\ VmRecords' \subseteq VmRecords \cup {Name(h)}
               /\ ToCome(h) # 0 /\ ToCome(h)' <= ToCome(h) - 1
<1>0. /\ h \in DOMAIN pc /\ h \in DOMAIN job /\ ToCome(h) \in 0 .. MaxCount
      /\ pc[h] \notin VmSteps => ToCome(h) = 0
      /\ pc[h] \in VmSteps => Len(job[h].names) \in 1 .. MaxCount /\ Name(h) \in VmNames
  BY Coming, Holds DEF JobsInv, VmSteps
<1>1. ASSUME NEW step, Goto(h, step) PROVE pc'[h] = step /\ job'[h] = job[h]
  BY <1>0, <1>1 DEF Goto
<1>2. ASSUME NEW step, NEW ips, Hold(h, step, ips) PROVE pc'[h] = step /\ job'[h].names = job[h].names
  BY <1>0, <1>2 DEF Hold
<1>3. ASSUME Finish(h) PROVE pc'[h] = "idle"
  BY <1>0, <1>3 DEF Finish
<1>4. UNCHANGED vmDir => VmRecords' = VmRecords
  BY DEF VmRecords
<1>5. ASSUME NEW d, pc[h] \in VmSteps, SetVmDir(Name(h), d)
      PROVE  /\ VmRecords' \subseteq VmRecords \cup {Name(h)}
             /\ d \in {NoDir, Bare} => VmRecords' \subseteq VmRecords
  BY <1>0, <1>5 DEF SetVmDir, VmRecords, VmInv
<1>6. ASSUME NEW s \in VmStatus, pc[h] \in VmSteps, SetVmStatus(h, s)
      PROVE  VmRecords' \subseteq VmRecords
  BY <1>0, <1>6, VmStatusSet
<1>7. CASE VmTest(h)
  <2>1. pc[h] = "vm-test" /\ UNCHANGED vmDir /\ (Goto(h, "vm-allocate") \/ VmNext(h))
    BY <1>7 DEF VmTest, vms
  <2>2. ToCome(h) = Len(job[h].names)
    BY <2>1 DEF ToCome
  <2>3. CASE Goto(h, "vm-allocate")
    BY <1>0, <1>1, <1>4, <2>1, <2>2, <2>3 DEF SizeAt, ToCome, VmSteps
  <2>4. CASE VmNext(h)
    BY <1>0, <1>4, <2>1, <2>2, <2>4, NextComes DEF VmSteps
  <2>5. QED
    BY <2>1, <2>3, <2>4
<1>8. CASE VmAllocate(h)
  <2>1. pc[h] = "vm-allocate" /\ UNCHANGED vmDir
        /\ (Hold(h, "vm-mkdir", << AddressFor(Name(h)) >>) \/ VmNext(h))
    BY <1>8 DEF VmAllocate, vms
  <2>2. ToCome(h) = Len(job[h].names)
    BY <2>1 DEF ToCome
  <2>3. CASE Hold(h, "vm-mkdir", << AddressFor(Name(h)) >>)
    BY <1>0, <1>2, <1>4, <2>1, <2>2, <2>3 DEF SizeAt, ToCome, VmSteps
  <2>4. CASE VmNext(h)
    BY <1>0, <1>4, <2>1, <2>2, <2>4, NextComes DEF VmSteps
  <2>5. QED
    BY <2>1, <2>3, <2>4
<1>9. CASE VmMkdir(h)
  <2>1. pc[h] = "vm-mkdir" /\ Goto(h, "vm-prepare") /\ (SetVmDir(Name(h), Bare) \/ UNCHANGED vmDir)
    BY <1>9 DEF VmMkdir
  <2>2. VmRecords' \subseteq VmRecords
    BY <1>4, <1>5, <2>1 DEF VmSteps
  <2>3. QED
    BY <1>0, <1>1, <2>1, <2>2 DEF SizeAt, ToCome, VmSteps
<1>10. CASE VmPrepare(h)
  <2>1. /\ pc[h] = "vm-prepare" /\ (Goto(h, "vm-apply") \/ Goto(h, "vm-return"))
        /\ \/ SetVmDir(Name(h), [status |-> "creating", ip |-> job[h].ips[1]])
           \/ SetVmDir(Name(h), Bare)
           \/ UNCHANGED vmDir
    BY <1>10 DEF VmPrepare, WriteVmRecord
  <2>2. VmRecords' \subseteq VmRecords \cup {Name(h)}
    BY <1>4, <1>5, <2>1 DEF VmSteps
  <2>3. pc'[h] \in {"vm-apply", "vm-return"} /\ job'[h] = job[h]
    BY <1>1, <2>1
  <2>4. QED
    BY <1>0, <2>1, <2>2, <2>3 DEF SizeAt, ToCome, VmSteps
<1>11. CASE VmApply(h)
  <2>1. /\ pc[h] = "vm-apply" /\ UNCHANGED vmDir
        /\ pc'[h] \in {"vm-running", "vm-failed"} /\ job'[h] = job[h]
    BY <1>1, <1>11 DEF VmApply
  <2>2. QED
    BY <1>0, <1>4, <2>1 DEF SizeAt, ToCome, VmSteps
<1>18. CASE VmReport(h)
  <2>1. pc[h] \in {"vm-running", "vm-failed"} /\ VmNext(h)
    BY <1>18 DEF VmReport
  <2>2. VmRecords' \subseteq VmRecords
    BY <1>6, <1>18, <2>1 DEF VmReport, VmStatus, VmSteps
  <2>3. QED
    BY <1>0, <2>1, <2>2, NextComes DEF ToCome, VmSteps
<1>19. CASE VmMark(h)
  <2>1. pc[h] = "vm-mark" /\ SetVmStatus(h, "deleting") /\ "deleting" \in VmStatus
        /\ pc'[h] = "vm-destroy" /\ job'[h] = job[h]
    BY <1>1, <1>19 DEF VmMark, VmStatus
  <2>2. VmRecords' \subseteq VmRecords
    BY <1>6, <2>1 DEF VmSteps
  <2>3. QED
    BY <1>0, <2>1, <2>2 DEF SizeAt, ToCome, VmSteps
<1>12. CASE ApiDeleteVM(h)
  <2>1. PICK n \in VmRecords : Begin(h, "vm-find", << n >>)
    BY <1>12 DEF ApiDeleteVM
  <2>2. pc'[h] = "vm-find" /\ Len(job'[h].names) = 1
    BY <1>0, <2>1 DEF Begin
  <2>3. UNCHANGED vmDir
    BY <1>12 DEF ApiDeleteVM, vms
  <2>4. QED
    BY <1>0, <1>4, <2>2, <2>3, VmAssumption DEF SizeAt, ToCome, VmSteps
<1>13. CASE VmFind(h)
  <2>1. pc[h] = "vm-find" /\ UNCHANGED vmDir
    BY <1>13 DEF VmFind, vms
  <2>2. VmRecords' = VmRecords
    BY <1>4, <2>1
  <2>3. pc'[h] = "idle" \/ (pc'[h] = "vm-mark" /\ job'[h].names = job[h].names)
    BY <1>1, <1>2, <1>3, <1>13 DEF VmFind
  <2>4. QED
    BY <1>0, <2>1, <2>2, <2>3 DEF SizeAt, ToCome, VmSteps
<1>14. CASE VmDestroy(h)
  <2>1. /\ pc[h] = "vm-destroy" /\ UNCHANGED vmDir
        /\ pc'[h] \in {"vm-remove", "vm-return"} /\ job'[h] = job[h]
    BY <1>1, <1>14 DEF VmDestroy
  <2>2. Len(job[h].names) = 1 /\ ToCome(h) = 0
    BY <2>1 DEF SizeAt, ToCome, VmSteps
  <2>3. SizeAt(pc'[h], job'[h])
    BY <2>1, <2>2, VmAssumption DEF SizeAt
  <2>4. ToCome(h)' = 0
    BY <2>1, <2>2 DEF ToCome, VmSteps
  <2>5. QED
    BY <1>4, <2>1, <2>2, <2>3, <2>4
<1>15. CASE VmReturn(h)
  <2>1. pc[h] = "vm-return" /\ UNCHANGED vmDir /\ pc'[h] = "vm-remove" /\ job'[h] = job[h]
    BY <1>1, <1>15 DEF VmReturn, vms
  <2>2. QED
    BY <1>0, <1>4, <2>1 DEF SizeAt, ToCome, VmSteps
<1>16. CASE VmRemove(h)
  <2>1. pc[h] = "vm-remove" /\ VmNext(h)
        /\ \E d \in {NoDir, Bare, vmDir[Name(h)]} : SetVmDir(Name(h), d)
    BY <1>16 DEF VmRemove, CutShort
  <2>4. SetVmDir(Name(h), vmDir[Name(h)]) => UNCHANGED vmDir
    BY DEF SetVmDir, VmInv
  <2>2. VmRecords' \subseteq VmRecords
    BY <1>4, <1>5, <2>1, <2>4 DEF VmSteps
  <2>3. QED
    BY <1>0, <2>1, <2>2, NextComes DEF ToCome, VmSteps
<1>17. QED
  BY <1>7, <1>8, <1>9, <1>10, <1>11, <1>12, <1>13, <1>14, <1>15, <1>16,
     <1>18, <1>19
  DEF VmStep

\* Clusters have no VMs to come.
LEMMA ClusterComes ==
  ASSUME JobsInv, NEW h \in Handlers, ClusterStep(h)
  PROVE  pc[h] \notin VmSteps /\ pc'[h] \notin VmSteps
<1>0. h \in DOMAIN pc /\ h \in DOMAIN job
  BY DEF JobsInv
<1>1. ASSUME NEW step, Goto(h, step) PROVE pc'[h] = step
  BY <1>0, <1>1 DEF Goto
<1>2. ASSUME NEW step, NEW ips, Hold(h, step, ips) PROVE pc'[h] = step
  BY <1>0, <1>2 DEF Hold
<1>3. ASSUME Finish(h) PROVE pc'[h] = "idle"
  BY <1>0, <1>3 DEF Finish
<1>4. ASSUME NEW step, NEW names, Begin(h, step, names) PROVE pc[h] = "idle" /\ pc'[h] = step
  BY <1>0, <1>4 DEF Begin
<1>5. CASE ApiCreateCluster(h) \/ ApiDeleteCluster(h)
  <2>1. pc[h] = "idle" /\ pc'[h] \in {"cl-test", "cl-delete"}
    BY <1>4, <1>5 DEF ApiCreateCluster, ApiDeleteCluster
  <2>2. QED
    BY <2>1 DEF VmSteps
<1>6. CASE ClTest(h) \/ ClMkdir(h) \/ ClManifest(h) \/ ClApply(h) \/ ClMark(h) \/ ClRemove(h)
  BY <1>1, <1>3, <1>6 DEF ClTest, ClMkdir, ClManifest, ClApply, ClMark, ClRemove, VmSteps
<1>7. CASE ClAllocate(h) \/ ClUndo(h) \/ ClReturn(h) \/ ClRead(h) \/ ClDelete(h)
  BY <1>1, <1>2, <1>3, <1>7 DEF ClAllocate, ClUndo, ClReturn, ClRelease, ClRead, ClDelete, VmSteps
<1>8. QED
  BY <1>5, <1>6, <1>7 DEF ClusterStep

\* What is awaited is among finitely many.
LEMMA AwaitedIs ==
  /\ IsFiniteSet(Awaited) /\ Cardinality(Awaited) \in Nat
  /\ \A H \in SUBSET Handlers, k \in 0 .. MaxCount :
       /\ IsFiniteSet(H \X (1 .. k)) /\ Cardinality(H \X (1 .. k)) = Cardinality(H) * k
       /\ Cardinality(H) \in Nat
<1>1. ASSUME NEW H \in SUBSET Handlers, NEW k \in 0 .. MaxCount
      PROVE  /\ IsFiniteSet(H \X (1 .. k)) /\ Cardinality(H \X (1 .. k)) = Cardinality(H) * k
             /\ Cardinality(H) \in Nat
  <2>1. IsFiniteSet(H) /\ Cardinality(H) \in Nat
    BY ProvisionerAssumption, FS_Subset, FS_CardinalityType
  <2>2. IsFiniteSet(1 .. k) /\ Cardinality(1 .. k) = k
    BY VmAssumption, FS_Interval
  <2>3. QED
    BY <2>1, <2>2, FS_Product
<1>2. Awaited \subseteq Handlers \X (1 .. MaxCount)
  BY DEF Awaited
<1>3. IsFiniteSet(Handlers \X (1 .. MaxCount))
  <2>1. Handlers \in SUBSET Handlers /\ MaxCount \in 0 .. MaxCount
    BY VmAssumption
  <2>2. QED
    BY <1>1, <2>1
<1>4. IsFiniteSet(Awaited)
  BY <1>2, <1>3, FS_Subset
<1>5. QED
  BY <1>1, <1>4, FS_CardinalityType

\* Without a new record, and with no more to come, the count does not grow; nor does
\* it when one that was to come is made.
LEMMA CountKeeps ==
  ASSUME IsFiniteSet(VmRecords), QuotaOvershootBounded, NEW A, Awaited' \subseteq A,
         \/ A = Awaited /\ VmRecords' \subseteq VmRecords
         \/ \E x \in Awaited : \E n : A = Awaited \ {x} /\ VmRecords' \subseteq VmRecords \cup {n}
  PROVE  IsFiniteSet(VmRecords') /\ QuotaOvershootBounded'
<1>0. IsFiniteSet(Awaited) /\ Cardinality(Awaited) \in Nat /\ Cardinality(VmRecords) \in Nat
  BY AwaitedIs, FS_CardinalityType
<1>1. ASSUME NEW S, NEW T, IsFiniteSet(S), T \subseteq S
      PROVE  /\ IsFiniteSet(T) /\ Cardinality(T) \in Nat /\ Cardinality(S) \in Nat
             /\ Cardinality(T) <= Cardinality(S)
  BY <1>1, FS_Subset, FS_CardinalityType
<1>2. /\ IsFiniteSet(VmRecords') /\ Cardinality(VmRecords') \in Nat /\ Cardinality(Awaited') \in Nat
      /\ Cardinality(VmRecords') + Cardinality(Awaited') <= Cardinality(VmRecords) + Cardinality(Awaited)
  <2>1. CASE A = Awaited /\ VmRecords' \subseteq VmRecords
    BY <1>0, <1>1, <2>1
  <2>2. ASSUME NEW x \in Awaited, NEW n, A = Awaited \ {x}, VmRecords' \subseteq VmRecords \cup {n}
        PROVE  /\ IsFiniteSet(VmRecords') /\ Cardinality(VmRecords') \in Nat /\ Cardinality(Awaited') \in Nat
               /\ Cardinality(VmRecords') + Cardinality(Awaited') <= Cardinality(VmRecords) + Cardinality(Awaited)
    <3>1. /\ IsFiniteSet(VmRecords \cup {n})
          /\ Cardinality(VmRecords \cup {n}) <= Cardinality(VmRecords) + 1
      BY <1>0, FS_AddElement
    <3>2. IsFiniteSet(Awaited \ {x}) /\ Cardinality(Awaited \ {x}) = Cardinality(Awaited) - 1
      BY <1>0, FS_RemoveElement
    <3>3. /\ IsFiniteSet(VmRecords') /\ Cardinality(VmRecords') \in Nat
          /\ Cardinality(VmRecords \cup {n}) \in Nat
          /\ Cardinality(VmRecords') <= Cardinality(VmRecords \cup {n})
      BY <1>1, <2>2, <3>1
    <3>4. Cardinality(Awaited') \in Nat /\ Cardinality(Awaited') <= Cardinality(Awaited \ {x})
      BY <1>1, <2>2, <3>2
    <3>5. QED
      BY <1>0, <3>1, <3>2, <3>3, <3>4
  <2>3. QED
    BY <2>1, <2>2
<1>3. Cardinality(Handlers) \in Nat
  BY ProvisionerAssumption, FS_CardinalityType
<1>4. /\ Cardinality(VmRecords)' = Cardinality(VmRecords')
      /\ Cardinality(Awaited)' = Cardinality(Awaited')
  OBVIOUS
<1> DEFINE Most == MaxVms + (Cardinality(Handlers) - 1) * MaxCount
<1>5. Most \in Int
  BY <1>3, VmAssumption
<1>6. Cardinality(VmRecords) + Cardinality(Awaited) <= Most
  BY DEF QuotaOvershootBounded
<1>7. Cardinality(VmRecords') + Cardinality(Awaited') <= Most
  <2> HIDE DEF Most
  <2>1. QED
    BY <1>0, <1>2, <1>5, <1>6
<1>8. QED
  BY <1>2, <1>7 DEF QuotaOvershootBounded

\* A request begins within the quota, and every other has at most its own to come.
LEMMA CreationKeeps ==
  ASSUME JobsInv, QuotaInv, NEW h \in Handlers, ApiCreateVM(h)
  PROVE  QuotaInv'
<1>1. PICK r \in VmRequests : Cardinality(VmRecords) + Len(r) <= MaxVms /\ Begin(h, "vm-test", r)
  BY DEF ApiCreateVM
<1>2. r \in Seq(VmNames) /\ Len(r) \in 0 .. MaxCount
  <2>1. r \in Seq(VmNames) /\ Len(r) <= MaxCount
    BY VmAssumption
  <2>2. QED
    BY <2>1, LenProperties, VmAssumption
<1>3. /\ pc'[h] = "vm-test" /\ job'[h].names = r
      /\ \A g \in Handlers : g # h => pc'[g] = pc[g] /\ job'[g] = job[g]
  BY <1>1 DEF Begin, JobsInv
<1>4. VmRecords' = VmRecords
  BY DEF ApiCreateVM, vms, VmRecords
<1>5. \A g \in Handlers : SizeAt(pc'[g], job'[g])
  BY <1>2, <1>3 DEF QuotaInv, SizeAt
<1>6. ToCome(h)' = Len(r)
  BY <1>3 DEF ToCome
<1> DEFINE Others == (Handlers \ {h}) \X (1 .. MaxCount)
           Own == {h} \X (1 .. Len(r))
<1>7. Awaited' \subseteq Others \cup Own
  <2>1. ASSUME NEW g \in Handlers, NEW i \in 1 .. MaxCount, i <= ToCome(g)'
        PROVE  << g, i >> \in Others \cup Own
    <3>1. CASE g = h
      BY <1>2, <1>6, <2>1, <3>1
    <3>2. CASE g # h
      BY <3>2
    <3>3. QED
      BY <3>1, <3>2
  <2>2. Awaited' = {x \in Handlers \X (1 .. MaxCount) : x[2] <= ToCome(x[1])'}
    BY DEF Awaited
  <2>3. QED
    BY <2>1, <2>2
<1>8. /\ IsFiniteSet(Others) /\ Cardinality(Others) = (Cardinality(Handlers) - 1) * MaxCount
      /\ IsFiniteSet(Own) /\ Cardinality(Own) = Len(r)
  <2>1. Cardinality(Handlers \ {h}) = Cardinality(Handlers) - 1 /\ Cardinality({h}) = 1
    BY ProvisionerAssumption, FS_RemoveElement, FS_Singleton
  <2>2. MaxCount \in 0 .. MaxCount /\ Handlers \ {h} \in SUBSET Handlers /\ {h} \in SUBSET Handlers
    BY VmAssumption
  <2>3. /\ IsFiniteSet(Others) /\ Cardinality(Others) = Cardinality(Handlers \ {h}) * MaxCount
        /\ IsFiniteSet(Own) /\ Cardinality(Own) = Cardinality({h}) * Len(r)
    BY <1>2, <2>2, AwaitedIs
  <2>4. 1 * Len(r) = Len(r)
    BY <1>2
  <2>5. QED
    BY <2>1, <2>3, <2>4
<1>9. Cardinality(Awaited') \in Nat /\ Cardinality(Awaited') <= Cardinality(Others) + Cardinality(Own)
  <2> HIDE DEF Others, Own
  <2>1. /\ IsFiniteSet(Others \cup Own) /\ Cardinality(Others \cap Own) \in Nat
        /\ Cardinality(Others \cup Own) = Cardinality(Others) + Cardinality(Own) - Cardinality(Others \cap Own)
    BY <1>8, FS_Union, FS_Intersection, FS_CardinalityType
  <2>2. /\ IsFiniteSet(Awaited') /\ Cardinality(Awaited') <= Cardinality(Others \cup Own)
    BY <1>7, <2>1, FS_Subset
  <2>3. /\ Cardinality(Awaited') \in Nat /\ Cardinality(Others) \in Nat /\ Cardinality(Own) \in Nat
        /\ Cardinality(Others \cup Own) \in Nat
    BY <1>8, <2>1, <2>2, FS_CardinalityType
  <2>4. QED
    BY <2>1, <2>2, <2>3
<1> HIDE DEF Others, Own
<1>10. QuotaOvershootBounded'
  <2> DEFINE Rest == (Cardinality(Handlers) - 1) * MaxCount
  <2>1. Rest \in Int /\ MaxVms \in Nat
    BY ProvisionerAssumption, VmAssumption, FS_CardinalityType
  <2>2. Cardinality(VmRecords) \in Nat
    BY FS_CardinalityType DEF QuotaInv
  <2>3. Cardinality(Awaited') <= Rest + Len(r)
    BY <1>8, <1>9
  <2>4. Cardinality(VmRecords') + Cardinality(Awaited') <= MaxVms + Rest
    <3> HIDE DEF Rest
    <3>1. QED
      BY <1>1, <1>2, <1>4, <1>9, <2>1, <2>2, <2>3
  <2>5. QED
    BY <2>4 DEF QuotaOvershootBounded
<1>11. QED
  BY <1>4, <1>5, <1>10 DEF QuotaInv

LEMMA QuotaKeeps == ASSUME TypeInv, QuotaInv, [Next]_vars PROVE QuotaInv'
<1>0. JobsInv /\ VmInv /\ IsFiniteSet(VmRecords) /\ QuotaOvershootBounded
      /\ \A h \in Handlers : SizeAt(pc[h], job[h])
  BY DEF TypeInv, QuotaInv
<1>1. Awaited' = {x \in Handlers \X (1 .. MaxCount) : x[2] <= ToCome(x[1])'}
  BY DEF Awaited
<1>2. ASSUME VmRecords' \subseteq VmRecords, UNCHANGED << pc, job >> PROVE QuotaInv'
  <2>1. Awaited' \subseteq Awaited
    BY <1>1, <1>2 DEF Awaited, ToCome
  <2>2. QED
    BY <1>0, <1>2, <2>1, CountKeeps DEF QuotaInv
<1>3. ASSUME NEW h \in Handlers, VmStep(h), ~ApiCreateVM(h) PROVE QuotaInv'
  <2>1. \A g \in Handlers : g # h => pc'[g] = pc[g] /\ job'[g] = job[g]
    BY <1>0, <1>3, OthersStay
  <2>2. /\ SizeAt(pc'[h], job'[h]) /\ ToCome(h)' \in Int
        /\ \/ VmRecords' \subseteq VmRecords /\ ToCome(h)' <= ToCome(h)
           \/ /\ VmRecords' \subseteq VmRecords \cup {Name(h)}
              /\ ToCome(h) # 0 /\ ToCome(h)' <= ToCome(h) - 1
    BY <1>0, <1>3, VmComes
  <2>3. \A g \in Handlers : SizeAt(pc'[g], job'[g])
    BY <1>0, <2>1, <2>2
  <2>4. \A g \in Handlers : g # h => ToCome(g)' = ToCome(g)
    BY <2>1 DEF ToCome
  <2>5. ToCome(h) \in 0 .. MaxCount
    BY <1>0, Coming
  <2>6. CASE VmRecords' \subseteq VmRecords /\ ToCome(h)' <= ToCome(h)
    <3>1. Awaited' \subseteq Awaited
      <4>1. ASSUME NEW x \in Handlers \X (1 .. MaxCount), x[2] <= ToCome(x[1])'
            PROVE  x[2] <= ToCome(x[1])
        <5>1. x[1] \in Handlers /\ x[2] \in Nat
          OBVIOUS
        <5>2. CASE x[1] = h
          BY <2>2, <2>5, <2>6, <4>1, <5>1, <5>2
        <5>3. CASE x[1] # h
          BY <2>4, <4>1, <5>1, <5>3
        <5>4. QED
          BY <5>2, <5>3
      <4>2. QED
        BY <1>1, <4>1 DEF Awaited
    <3>2. QED
      BY <1>0, <2>3, <2>6, <3>1, CountKeeps DEF QuotaInv
  <2>7. CASE /\ VmRecords' \subseteq VmRecords \cup {Name(h)}
             /\ ToCome(h) # 0 /\ ToCome(h)' <= ToCome(h) - 1
    <3> DEFINE y == << h, ToCome(h) >>
    <3>1. y \in Awaited
      <4>1. y \in Handlers \X (1 .. MaxCount) /\ y[2] <= ToCome(y[1])
        BY <2>5, <2>7, VmAssumption
      <4>2. QED
        BY <4>1 DEF Awaited
    <3>2. Awaited' \subseteq Awaited \ {y}
      <4>1. ASSUME NEW x \in Handlers \X (1 .. MaxCount), x[2] <= ToCome(x[1])'
            PROVE  x[2] <= ToCome(x[1]) /\ x # y
        <5>1. x[1] \in Handlers /\ x[2] \in Nat
          OBVIOUS
        <5>2. CASE x[1] = h
          <6>1. x[2] <= ToCome(h) - 1
            BY <2>2, <2>5, <2>7, <4>1, <5>1, <5>2
          <6>2. x[2] # ToCome(h) /\ x[2] <= ToCome(h)
            BY <2>5, <5>1, <6>1
          <6>3. QED
            BY <5>2, <6>2
        <5>3. CASE x[1] # h
          BY <2>4, <4>1, <5>1, <5>3
        <5>4. QED
          BY <5>2, <5>3
      <4>2. QED
        BY <1>1, <4>1 DEF Awaited
    <3> HIDE DEF y
    <3>3. QED
      BY <1>0, <2>3, <2>7, <3>1, <3>2, CountKeeps DEF QuotaInv
  <2>8. QED
    BY <2>2, <2>6, <2>7
<1>4. ASSUME NEW h \in Handlers, ClusterStep(h), UNCHANGED vms PROVE QuotaInv'
  <2>1. \A g \in Handlers : g # h => pc'[g] = pc[g] /\ job'[g] = job[g]
    BY <1>0, <1>4, OthersStay
  <2>2. pc'[h] \notin VmSteps
    BY <1>0, <1>4, ClusterComes
  <2>3. \A g \in Handlers : SizeAt(pc'[g], job'[g])
    BY <1>0, <2>1, <2>2 DEF SizeAt, VmSteps
  <2>4. VmRecords' = VmRecords
    BY <1>4 DEF vms, VmRecords
  <2>5. Awaited' \subseteq Awaited
    <3>1. \A g \in Handlers : g # h => ToCome(g)' = ToCome(g)
      BY <2>1 DEF ToCome, VmSteps
    <3>2. ToCome(h)' = 0
      BY <2>2 DEF ToCome, VmSteps
    <3>3. ASSUME NEW x \in Handlers \X (1 .. MaxCount), x[2] <= ToCome(x[1])'
          PROVE  x[2] <= ToCome(x[1])
      <4>1. x[1] \in Handlers /\ x[2] \in 1 .. MaxCount
        OBVIOUS
      <4>2. x[1] # h
        BY <3>2, <3>3, <4>1
      <4>3. QED
        BY <3>1, <3>3, <4>1, <4>2
    <3>4. QED
      BY <1>1, <3>3 DEF Awaited
  <2>6. QED
    BY <1>0, <2>3, <2>4, <2>5, CountKeeps DEF QuotaInv
<1>5. CASE AdminStep
  <2>1. UNCHANGED << pc, job >>
    BY <1>5 DEF AdminStep, UserAdd, AllocateBlock, FolderByHand, UserDelete, UserPurge, AdminBegins,
       Confirmed, PurgeVm, DeleteFolder, FreeBlock, FreeLeases, RemoveUserDir, RemoveData,
       RemoveDataFails, Userdel, AdminStops
  <2>2. UNCHANGED vmDir \/ vmDir' = [n \in VmNames |-> NoDir] \/ RemoveDataFails
    BY <1>5 DEF AdminStep, UserAdd, AllocateBlock, FolderByHand, UserDelete, UserPurge, AdminBegins,
       Confirmed, PurgeVm, DeleteFolder, FreeBlock, FreeLeases, RemoveUserDir, RemoveData, Userdel,
       AdminStops, vms
  <2>5. \A n \in VmNames : vmDir'[n] \in {NoDir, Bare, vmDir[n]}
    BY <2>2, RemoveDataFailsKeeps
  <2>3. VmRecords' \subseteq VmRecords
    BY <2>5 DEF VmRecords
  <2>4. QED
    BY <1>2, <2>1, <2>3
<1>6. CASE Restart
  <2>1. \A g \in Handlers : pc'[g] = "idle"
    BY <1>6 DEF Restart
  <2>2. \A n \in VmNames : vmDir'[n] \in {Bare, vmDir[n]}
    BY <1>6 DEF Restart, VmRestart
  <2>3. VmRecords' \subseteq VmRecords
    BY <2>2 DEF VmRecords
  <2>4. \A g \in Handlers : SizeAt(pc'[g], job'[g])
    BY <2>1 DEF SizeAt, VmSteps
  <2>5. Awaited' \subseteq Awaited
    <3>1. \A g \in Handlers : ToCome(g)' = 0
      BY <2>1 DEF ToCome, VmSteps
    <3>2. QED
      BY <1>1, <3>1 DEF Awaited
  <2>6. QED
    BY <1>0, <2>3, <2>4, <2>5, CountKeeps DEF QuotaInv
<1>7. CASE UNCHANGED vars
  BY <1>2, <1>7 DEF vars, vms, VmRecords
<1>8. QED
  BY <1>0, <1>3, <1>4, <1>5, <1>6, <1>7, CreationKeeps DEF Next

\* However many requests are checked against the quota before any of them has made
\* its VMs, there are never more VMs, made and to come, than the quota and a largest
\* request for every goroutine but one.
THEOREM ResourcesQuota == Spec => []QuotaOvershootBounded
<1>1. Init => QuotaInv
  <2> SUFFICES ASSUME Init PROVE QuotaInv
    OBVIOUS
  <2>1. VmRecords = {} /\ \A h \in Handlers : pc[h] = "idle"
    BY DEF Init, VmInit, PoolInit, VmRecords
  <2>2. Awaited = {}
    <3>1. \A h \in Handlers : ToCome(h) = 0
      BY <2>1 DEF ToCome, VmSteps
    <3>2. QED
      BY <3>1 DEF Awaited
  <2>3. IsFiniteSet(VmRecords) /\ Cardinality(VmRecords) = 0 /\ Cardinality(Awaited) = 0
    BY <2>1, <2>2, FS_EmptySet
  <2>4. Cardinality(Handlers) \in Nat /\ Cardinality(Handlers) # 0
    BY ProvisionerAssumption, FS_CardinalityType, FS_EmptySet
  <2>5. (Cardinality(Handlers) - 1) * MaxCount \in Nat
    BY <2>4, VmAssumption
  <2>6. QuotaOvershootBounded
    BY <2>3, <2>5, VmAssumption DEF QuotaOvershootBounded
  <2>7. QED
    BY <2>1, <2>3, <2>6 DEF QuotaInv, SizeAt, VmSteps
<1>2. IInv /\ IInv' /\ QuotaInv /\ [Next]_vars => QuotaInv'
  BY QuotaKeeps DEF IInv
<1>3. QuotaInv => QuotaOvershootBounded
  BY DEF QuotaInv
<1>4. QED
  BY <1>1, <1>2, <1>3, ResourcesInvariant, PTL DEF Spec
=============================================================================
