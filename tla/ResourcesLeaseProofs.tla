------------------------ MODULE ResourcesLeaseProofs ------------------------
(***************************************************************************)
(* What Resources promises of addresses and machines as long as nothing    *)
(* has gone wrong that breaks it: that a VM reported as running is there,  *)
(* that no directory is stuck, that a lease can be found again and goes    *)
(* with its user, and that what is there uses an address that is leased to *)
(* its name. What these need first is that requests do not overlap and no  *)
(* disk is full: then each directory is as the request that works on it    *)
(* made or found it. The invariant says who has which address, from the    *)
(* moment allocate-ip has printed it to the moment release-ip is called,   *)
(* through the requests and the records that hold it in between.           *)
(***************************************************************************)
EXTENDS ResourcesProofs

\* What a goroutine is about.
On(h, steps, n) == pc[h] \in steps /\ Name(h) = n

\* What the invariant cannot do without.
Tidy == "overlap" \notin faults /\ "disk" \notin faults

\* Without overlap, requests have their names for themselves, and the administrator
\* works when no request does.
AloneInv ==
  /\ \A g, h \in Handlers : g # h => Range(job[g].names) \cap Range(job[h].names) = {}
  /\ admin # NoTask => \A h \in Handlers : pc[h] = "idle"

\* So the directory is as the request made or found it.
VmAt(h) ==
  LET d == vmDir[Name(h)] IN
    /\ pc[h] \in {"vm-allocate", "vm-mkdir"} => d = NoDir
    /\ pc[h] = "vm-prepare" => d = Bare
    /\ pc[h] \in {"vm-apply", "vm-running", "vm-failed"} =>
         d = [status |-> "creating", ip |-> job[h].ips[1]]
    /\ pc[h] = "vm-running" => vmMachine[Name(h)] = job[h].ips[1]
    /\ pc[h] = "vm-find" => Name(h) \in VmRecords
    /\ pc[h] = "vm-mark" => Name(h) \in VmRecords /\ job[h].ips = << d.ip >>
    /\ pc[h] = "vm-destroy" =>
         Name(h) \in VmRecords /\ d.status = "deleting" /\ job[h].ips = << d.ip >>
    /\ pc[h] \in {"vm-return", "vm-remove"} =>
         d = Bare \/ (Name(h) \in VmRecords /\ d.status \in {"creating", "deleting"})
ClusterAt(h) ==
  LET d == clusterDir[Name(h)] IN
    /\ pc[h] = "cl-mkdir" => d = NoDir
    /\ pc[h] \in {"cl-allocate", "cl-undo", "cl-manifest"} => d = Bare
    /\ pc[h] \in {"cl-apply", "cl-applied", "cl-failed"} =>
         Name(h) \in ClusterRecords /\ d.ips = job[h].ips
    /\ pc[h] \in {"cl-delete", "cl-read", "cl-return", "cl-remove"} => Name(h) \in ClusterRecords
DirsInv == \A h \in Handlers : VmAt(h) /\ ClusterAt(h)

RunningInv ==
  /\ admin.step \in {"confirm", "destroy", "block", "leases"} => admin.purge
  /\ At("userdel") => VmDirs = {}
  /\ ~admin.purge /\ ~At("idle") => VmDirs = {}
  /\ "stopped" \notin faults /\ ~admin.purge =>
       \A n \in VmRecords : vmDir[n].status = "running" => vmMachine[n] = vmDir[n].ip

\* The steps at which a request holds addresses, or has begun to give back what the
\* record names.
VmHolding == {"vm-mkdir", "vm-prepare", "vm-return"}
VmEnding == {"vm-return", "vm-remove"}
ClHolding == {"cl-allocate", "cl-undo", "cl-manifest", "cl-return"}
ClEnding == {"cl-return", "cl-remove"}
ClRemoving == {"cl-read", "cl-return", "cl-remove"}

\* The addresses that VM n, or cluster c, has: those of its directory until they are
\* given back, and those a request holds for it.
VmHas(n, x) ==
  \/ \E h \in Handlers :
       /\ On(h, VmHolding, n)
       /\ job[h].ips[1] = x
  \/ /\ n \in VmRecords /\ vmDir[n].ip = x
     /\ \A h \in Handlers : ~On(h, VmEnding, n)
ClusterHas(c, x) ==
  \/ \E h \in Handlers :
       /\ On(h, ClHolding, c)
       /\ x \in Range(job[h].ips)
  \/ /\ c \in ClusterRecords /\ x \in Range(clusterDir[c].ips)
     /\ \A h \in Handlers : ~On(h, ClEnding, c)
\* The VM n has address x, or a cluster with the node n has it.
Tracked(n, x) ==
  \/ n \in VmNames /\ VmHas(n, x)
  \/ \E c \in Clusters : n \in Range(Nodes[c]) /\ ClusterHas(c, x)
\* What makes a lease lose its VM or cluster.
Untracked == {"overlap", "restart", "timeout", "orphan", "disk", "manifest"}
TrackedInv ==
  /\ \A n \in Names, x \in BlockIps : lease[n] = x => Tracked(n, x)
  /\ (IF admin.purge THEN admin.step \in {"users", "data", "userdel"} ELSE ~At("idle")) => Leased = {}
  /\ ~account => Leased = {} /\ VmRecords = {} /\ \A h \in Handlers : pc[h] = "idle"

\* Who will write metadata.json in a directory without it, or remove the directory.
Ending == {"vm-prepare", "vm-return", "vm-remove"}
Sticking == {"overlap", "disk", "restart", "unleased"}
StuckInv == \A n \in VmNames : vmDir[n] = Bare => \E h \in Handlers : On(h, Ending, n)

Matches(c, ips) ==
  Len(ips) <= Len(Nodes[c]) /\ \A i \in 1 .. Len(ips) : lease[Nodes[c][i]] = ips[i]
LeasedIps == {lease[n] : n \in Leased}
Injective(s) == \A i, j \in 1 .. Len(s) : s[i] = s[j] => i = j
Releasing(c) == \E h \in Handlers : On(h, ClEnding, c)
\* What goes wrong without harm to what is there.
Harmless == {"timeout", "stopped"}
\* A machine is recorded with its address and the administrator has not gone past it;
\* so are the nodes of a cluster, and no command is under way with clusters left.
MachinesInv ==
  /\ \A n \in VmNames : vmMachine[n] # NoIp =>
       /\ n \in vmState /\ n \in VmRecords /\ vmDir[n].ip = vmMachine[n]
       /\ \A h \in Handlers : ~On(h, VmEnding, n)
       /\ admin.step \in {"idle", "confirm", "destroy"}
       /\ At("destroy") => n \in admin.vms
  /\ At("confirm") /\ admin.vms = {} => VmDirs = {}
  /\ ~admin.purge /\ ~At("idle") => VmDirs = {}
NodesInv ==
  /\ \A c \in Clusters : nodeIps[c] # << >> =>
       /\ c \in ClusterRecords /\ clusterDir[c].ips = nodeIps[c]
       /\ \A h \in Handlers : ~On(h, ClRemoving, c)
  /\ ~At("idle") => ~HasClusters
\* What a VM, a cluster or a request has is leased, to the name it is for.
VmLeasesInv ==
  ~(At("users") \/ At("data")) =>
    \A n \in VmNames : \A x \in BlockIps : VmHas(n, x) => lease[n] = x
RecordAt(c) ==
  c \in ClusterRecords /\ ~Releasing(c) => Matches(c, clusterDir[c].ips) /\ Injective(clusterDir[c].ips)
HeldAt(h) ==
  /\ pc[h] \in {"cl-allocate", "cl-manifest"} => Matches(Name(h), job[h].ips)
  /\ pc[h] \in ClHolding => Injective(job[h].ips) /\ Range(job[h].ips) \subseteq LeasedIps
\* Nobody has what another has.
ApartInv ==
  /\ \A n \in VmNames, c \in Clusters, x \in BlockIps : ~(VmHas(n, x) /\ ClusterHas(c, x))
  /\ \A c, d \in Clusters, x \in BlockIps : ClusterHas(c, x) /\ ClusterHas(d, x) => c = d
AddressInv ==
  /\ VmLeasesInv /\ ApartInv
  /\ \A c \in Clusters : RecordAt(c)
  /\ \A h \in Handlers : HeldAt(h)
LiveInv == MachinesInv /\ NodesInv /\ AddressInv

IInv2 ==
  /\ Tidy => AloneInv /\ DirsInv /\ RunningInv
  /\ faults \cap Sticking = {} => StuckInv
  /\ faults \cap Untracked = {} => TrackedInv
  /\ faults \subseteq Harmless => LiveInv

-----------------------------------------------------------------------------
(* Sequences of addresses. *)

\* What is in the tail was in the sequence, behind its head.
LEMMA TailParts ==
  ASSUME NEW S, NEW s \in Seq(S), s # << >>
  PROVE  /\ Len(Tail(s)) = Len(s) - 1 /\ Tail(s) \in Seq(S)
         /\ \A i \in 1 .. Len(Tail(s)) : i + 1 \in 1 .. Len(s) /\ i + 1 # 1 /\ Tail(s)[i] = s[i + 1]
<1>1. Len(s) \in Nat /\ Tail(s) \in Seq(S) /\ Len(Tail(s)) = Len(s) - 1
      /\ \A i \in 1 .. Len(Tail(s)) : Tail(s)[i] = s[i + 1]
  BY HeadTailProperties, LenProperties
<1>2. ASSUME NEW i \in 1 .. Len(Tail(s)) PROVE i + 1 \in 1 .. Len(s) /\ i + 1 # 1
  BY <1>1
<1>3. QED
  BY <1>1, <1>2

LEMMA RangeIs ==
  ASSUME NEW S, NEW s \in Seq(S)
  PROVE  Range(s) = {s[i] : i \in 1 .. Len(s)}
  BY LenProperties DEF Range

LEMMA TailRange ==
  ASSUME NEW S, NEW s \in Seq(S), s # << >>
  PROVE  /\ Range(Tail(s)) \subseteq Range(s)
         /\ Range(s) \subseteq Range(Tail(s)) \cup {Head(s)}
         /\ Len(s) = 1 => Range(s) = {Head(s)}
<1>1. /\ Len(s) \in Nat /\ Len(Tail(s)) = Len(s) - 1 /\ Head(s) = s[1]
      /\ Tail(s) \in Seq(S)
      /\ \A i \in 1 .. Len(Tail(s)) : i + 1 \in 1 .. Len(s) /\ Tail(s)[i] = s[i + 1]
  BY TailParts, Parts
<1>2. Range(s) = {s[i] : i \in 1 .. Len(s)} /\ Range(Tail(s)) = {Tail(s)[i] : i \in 1 .. Len(Tail(s))}
  BY <1>1, RangeIs
<1>3. Range(Tail(s)) \subseteq Range(s)
  BY <1>1, <1>2
<1>4. ASSUME NEW i \in 1 .. Len(s), i # 1 PROVE s[i] \in Range(Tail(s))
  <2>1. i - 1 \in 1 .. Len(Tail(s)) /\ (i - 1) + 1 = i
    BY <1>1, <1>4
  <2>2. Tail(s)[i - 1] = s[i]
    BY <1>1, <2>1
  <2>3. QED
    BY <1>2, <2>1, <2>2
<1>5. Range(s) \subseteq Range(Tail(s)) \cup {Head(s)}
  BY <1>1, <1>2, <1>4
<1>6. Len(s) = 1 => Range(s) = {Head(s)}
  <2>1. 1 .. 1 = {1}
    OBVIOUS
  <2>2. QED
    BY <1>1, <1>2, <2>1
<1>7. QED
  BY <1>3, <1>5, <1>6

LEMMA AppendRange ==
  ASSUME NEW S, NEW s \in Seq(S), NEW a \in S
  PROVE  Range(Append(s, a)) = Range(s) \cup {a}
<1>1. /\ Len(s) \in Nat /\ Append(s, a) \in Seq(S) /\ Len(Append(s, a)) = Len(s) + 1
      /\ \A i \in 1 .. Len(s) : Append(s, a)[i] = s[i]
      /\ Append(s, a)[Len(s) + 1] = a
  BY AppendProperties, LenProperties
<1>2. Range(s) = {s[i] : i \in 1 .. Len(s)}
      /\ Range(Append(s, a)) = {Append(s, a)[i] : i \in 1 .. Len(s) + 1}
  BY <1>1, RangeIs
<1>3. 1 .. Len(s) + 1 = 1 .. Len(s) \cup {Len(s) + 1}
  BY <1>1
<1>4. QED
  BY <1>1, <1>2, <1>3

-----------------------------------------------------------------------------
(* How a goroutine's job goes on. *)

Idle == \A h \in Handlers : pc[h] = "idle"

\* The names of a job only become fewer, and stay while its script is under way.
GoesOn(h, begin) ==
  /\ Range(job'[h].names) \subseteq Range(job[h].names)
  /\ pc'[h] \notin {"idle", begin} => job'[h].names = job[h].names

LEMMA Going ==
  ASSUME JobsInv, NEW h \in Handlers, pc[h] # "idle"
  PROVE  /\ \A step : Goto(h, step) => GoesOn(h, "vm-test") /\ pc'[h] = step /\ job'[h] = job[h]
         /\ \A step, ips : Hold(h, step, ips) =>
              GoesOn(h, "vm-test") /\ pc'[h] = step /\ job'[h].names = job[h].names /\ job'[h].ips = ips
         /\ Finish(h) => GoesOn(h, "vm-test") /\ pc'[h] = "idle" /\ job'[h] = NoJob
         /\ VmNext(h) /\ pc[h] \in VmSteps =>
              GoesOn(h, "vm-test") /\ pc'[h] \in {"idle", "vm-test"} /\ job'[h].ips = << >>
<1>0. h \in DOMAIN pc /\ h \in DOMAIN job
  BY DEF JobsInv
<1>1. ASSUME NEW step, Goto(h, step)
      PROVE  GoesOn(h, "vm-test") /\ pc'[h] = step /\ job'[h] = job[h]
  BY <1>0, <1>1 DEF Goto, GoesOn
<1>2. ASSUME NEW step, NEW ips, Hold(h, step, ips)
      PROVE  /\ GoesOn(h, "vm-test") /\ pc'[h] = step
             /\ job'[h].names = job[h].names /\ job'[h].ips = ips
  BY <1>0, <1>2 DEF Hold, GoesOn
<1>3. ASSUME Finish(h) PROVE GoesOn(h, "vm-test") /\ pc'[h] = "idle" /\ job'[h] = NoJob
  <2>1. pc'[h] = "idle" /\ job'[h] = NoJob
    BY <1>0, <1>3 DEF Finish
  <2>2. Range(<< >>) = {}
    BY DEF Range
  <2>3. QED
    BY <2>1, <2>2 DEF GoesOn, NoJob
<1>4. ASSUME VmNext(h), pc[h] \in VmSteps
      PROVE  GoesOn(h, "vm-test") /\ pc'[h] \in {"idle", "vm-test"} /\ job'[h].ips = << >>
  <2>1. CASE Len(job[h].names) = 1
    BY <1>3, <1>4, <2>1 DEF VmNext, NoJob
  <2>2. CASE Len(job[h].names) # 1
    <3>1. /\ pc'[h] = "vm-test"
          /\ job'[h].names = Tail(job[h].names) /\ job'[h].ips = << >>
      BY <1>0, <1>4, <2>2 DEF VmNext
    <3>2. job[h].names \in Seq(VmNames \cup Clusters) /\ job[h].names # << >>
      BY Holds
    <3>3. Range(Tail(job[h].names)) \subseteq Range(job[h].names)
      BY <3>2, TailRange
    <3>4. QED
      BY <3>1, <3>3 DEF GoesOn
  <2>3. QED
    BY <2>1, <2>2
<1>5. QED
  BY <1>1, <1>2, <1>3, <1>4

\* A step of a goroutine that is idle is the beginning of a request; otherwise it
\* goes on with a step of the same kind.
VmBegins(h) ==
  /\ pc[h] = "idle" /\ UNCHANGED << pool, vms >>
  /\ \E step \in {"vm-test", "vm-find"} : \E names \in Seq(VmNames) : Begin(h, step, names)
LEMMA VmMoves ==
  ASSUME JobsInv, NEW h \in Handlers, VmStep(h)
  PROVE  \/ VmBegins(h)
         \/ pc[h] \in VmSteps /\ pc'[h] \in VmSteps \cup {"idle"} /\ GoesOn(h, "vm-test")
<1>1. pc[h] # "idle" /\ pc[h] \in VmSteps
        => /\ \A step \in VmSteps : Goto(h, step) => GoesOn(h, "vm-test") /\ pc'[h] \in VmSteps
           /\ \A step \in VmSteps : \A ips : Hold(h, step, ips) => GoesOn(h, "vm-test") /\ pc'[h] \in VmSteps
           /\ Finish(h) => GoesOn(h, "vm-test") /\ pc'[h] = "idle"
           /\ VmNext(h) => GoesOn(h, "vm-test") /\ pc'[h] \in {"idle", "vm-test"}
  BY Going
<1>2. "vm-test" \in VmSteps /\ "idle" \notin VmSteps
  BY DEF VmSteps
<1>3. CASE ApiCreateVM(h)
  <2>1. /\ UNCHANGED << pool, vms >>
        /\ \E r \in VmRequests : Begin(h, "vm-test", r)
    BY <1>3 DEF ApiCreateVM
  <2>2. QED
    BY <2>1, VmAssumption DEF VmBegins, Begin
<1>4. CASE ApiDeleteVM(h)
  <2>1. /\ UNCHANGED << pool, vms >>
        /\ \E n \in VmRecords : Begin(h, "vm-find", << n >>)
    BY <1>4 DEF ApiDeleteVM
  <2>2. \A n \in VmRecords : << n >> \in Seq(VmNames)
    BY DEF VmRecords
  <2>3. QED
    BY <2>1, <2>2 DEF VmBegins, Begin
<1>5. CASE VmTest(h) \/ VmAllocate(h) \/ VmReport(h) \/ VmRemove(h)
  <2>1. pc[h] \in VmSteps
    BY <1>5 DEF VmTest, VmAllocate, VmReport, VmRemove, VmSteps
  <2>2. \/ Goto(h, "vm-allocate") \/ VmNext(h)
        \/ \E ips : Hold(h, "vm-mkdir", ips)
    BY <1>5 DEF VmTest, VmAllocate, VmReport, VmRemove
  <2>3. "vm-allocate" \in VmSteps /\ "vm-mkdir" \in VmSteps
    BY DEF VmSteps
  <2>4. QED
    BY <1>1, <1>2, <2>1, <2>2, <2>3
<1>6. CASE VmMkdir(h) \/ VmPrepare(h) \/ VmApply(h) \/ VmMark(h) \/ VmDestroy(h) \/ VmReturn(h)
  <2> DEFINE Steps == {"vm-prepare", "vm-apply", "vm-running", "vm-failed", "vm-destroy",
                       "vm-return", "vm-remove"}
  <2>1. pc[h] \in VmSteps
    BY <1>6 DEF VmMkdir, VmPrepare, VmApply, VmMark, VmDestroy, VmReturn, VmSteps
  <2>2. \E step \in Steps : Goto(h, step)
    BY <1>6 DEF VmMkdir, VmPrepare, VmApply, VmMark, VmDestroy, VmReturn
  <2>3. Steps \subseteq VmSteps
    BY DEF VmSteps
  <2>4. QED
    BY <1>1, <1>2, <2>1, <2>2, <2>3
<1>7. CASE VmFind(h)
  <2>1. pc[h] \in VmSteps /\ "vm-mark" \in VmSteps
    BY <1>7 DEF VmFind, VmSteps
  <2>2. Goto(h, "vm-mark") \/ Finish(h) \/ \E ips : Hold(h, "vm-mark", ips)
    BY <1>7 DEF VmFind
  <2>3. QED
    BY <1>1, <1>2, <2>1, <2>2
<1>8. QED
  BY <1>3, <1>4, <1>5, <1>6, <1>7 DEF VmStep

ClBegins(h) ==
  /\ pc[h] = "idle" /\ UNCHANGED << pool, clusters >>
  /\ \E step \in {"cl-test", "cl-delete"} : \E names \in Seq(Clusters) : Begin(h, step, names)
LEMMA ClMoves ==
  ASSUME JobsInv, NEW h \in Handlers, ClusterStep(h)
  PROVE  \/ ClBegins(h)
         \/ /\ pc[h] \in ClusterSteps /\ pc'[h] \in ClusterSteps \cup {"idle"} /\ GoesOn(h, "vm-test")
            /\ pc'[h] # "idle" => job'[h].names = job[h].names
<1>1. pc[h] # "idle"
        => /\ \A step \in ClusterSteps : Goto(h, step) => GoesOn(h, "vm-test") /\ pc'[h] = step
           /\ \A step \in ClusterSteps : \A ips : Hold(h, step, ips) => GoesOn(h, "vm-test") /\ pc'[h] = step
           /\ Finish(h) => GoesOn(h, "vm-test") /\ pc'[h] = "idle"
  BY Going
<1>2. "vm-test" \notin ClusterSteps /\ "idle" \notin ClusterSteps
  BY DEF ClusterSteps
<1>3. CASE ApiCreateCluster(h) \/ ApiDeleteCluster(h)
  <2>1. /\ UNCHANGED << pool, clusters >>
        /\ \E c \in Clusters : Begin(h, "cl-test", << c >>) \/ Begin(h, "cl-delete", << c >>)
    BY <1>3 DEF ApiCreateCluster, ApiDeleteCluster, ClusterRecords
  <2>2. \A c \in Clusters : << c >> \in Seq(Clusters)
    OBVIOUS
  <2>3. QED
    BY <2>1, <2>2 DEF ClBegins, Begin
<1>4. ASSUME pc[h] \in ClusterSteps,
             \/ \E step \in ClusterSteps : Goto(h, step) \/ \E ips : Hold(h, step, ips)
             \/ Finish(h)
      PROVE  /\ pc[h] \in ClusterSteps /\ pc'[h] \in ClusterSteps \cup {"idle"} /\ GoesOn(h, "vm-test")
             /\ pc'[h] # "idle" => job'[h].names = job[h].names
  <2>1. GoesOn(h, "vm-test") /\ pc'[h] \in ClusterSteps \cup {"idle"}
    BY <1>1, <1>2, <1>4
  <2>2. QED
    BY <1>2, <1>4, <2>1 DEF GoesOn
<1>5. CASE ClTest(h) \/ ClMkdir(h) \/ ClManifest(h) \/ ClApply(h) \/ ClMark(h) \/ ClRemove(h)
  <2>1. pc[h] \in ClusterSteps
    BY <1>5 DEF ClTest, ClMkdir, ClManifest, ClApply, ClMark, ClRemove, ClusterSteps
  <2>2. \/ \E step \in {"cl-mkdir", "cl-allocate", "cl-apply", "cl-applied", "cl-failed"} : Goto(h, step)
        \/ Finish(h)
    BY <1>5 DEF ClTest, ClMkdir, ClManifest, ClApply, ClMark, ClRemove
  <2>3. {"cl-mkdir", "cl-allocate", "cl-apply", "cl-applied", "cl-failed"} \subseteq ClusterSteps
    BY DEF ClusterSteps
  <2>4. QED
    BY <1>4, <2>1, <2>2, <2>3
<1>6. CASE ClAllocate(h) \/ ClUndo(h) \/ ClReturn(h) \/ ClRead(h) \/ ClDelete(h)
  <2>1. pc[h] \in ClusterSteps
    BY <1>6 DEF ClAllocate, ClUndo, ClReturn, ClRelease, ClRead, ClDelete, ClusterSteps
  <2>2. \/ \E step \in {"cl-undo", "cl-remove", "cl-read"} : Goto(h, step)
        \/ \E step \in {"cl-manifest", "cl-allocate", "cl-undo", "cl-return", "cl-remove"} : \E ips : Hold(h, step, ips)
        \/ Finish(h)
    BY <1>6 DEF ClAllocate, ClUndo, ClReturn, ClRelease, ClRead, ClDelete
  <2>3. {"cl-undo", "cl-remove", "cl-read", "cl-manifest", "cl-allocate", "cl-return"} \subseteq ClusterSteps
    BY DEF ClusterSteps
  <2>4. QED
    BY <1>4, <2>1, <2>2, <2>3
<1>7. QED
  BY <1>3, <1>5, <1>6 DEF ClusterStep

-----------------------------------------------------------------------------
(* Without overlap, requests keep out of each other's way. *)

\* A request begins only when nobody works on its names, nor the administrator.
LEMMA BeginsAlone ==
  ASSUME "overlap" \notin faults', NEW h, NEW step, NEW names, Begin(h, step, names)
  PROVE  admin = NoTask /\ \A g \in Handlers : Range(names) \cap Range(job[g].names) = {}
  BY DEF Begin, Fault, Busy

LEMMA StepsAlone ==
  ASSUME JobsInv, AloneInv, "overlap" \notin faults',
         NEW h \in Handlers, VmStep(h) \/ ClusterStep(h)
  PROVE  admin = NoTask
<1>1. CASE pc[h] # "idle"
  BY <1>1 DEF AloneInv
<1>2. CASE pc[h] = "idle"
  <2>1. "idle" \notin VmSteps /\ "idle" \notin ClusterSteps
    BY DEF VmSteps, ClusterSteps
  <2>2. VmBegins(h) \/ ClBegins(h)
    BY <1>2, <2>1, VmMoves, ClMoves
  <2>3. QED
    BY <2>2, BeginsAlone DEF VmBegins, ClBegins
<1>3. QED
  BY <1>1, <1>2

\* Nobody else works on what a goroutine works on.
LEMMA NotMine ==
  ASSUME JobsInv, AloneInv, NEW g \in Handlers, NEW h \in Handlers,
         g # h, pc[g] # "idle", pc[h] # "idle"
  PROVE  Name(g) # Name(h)
<1>1. Name(g) \in Range(job[g].names) /\ Name(h) \in Range(job[h].names)
  BY Holds
<1>2. QED
  BY <1>1 DEF AloneInv

\* Nor does anybody write in the directory.
LEMMA OthersAway ==
  ASSUME JobsInv, AloneInv, NEW h \in Handlers, pc[h] # "idle"
  PROVE  /\ admin = NoTask
         /\ \A steps : "idle" \notin steps => ~OtherAt(h, steps)
         /\ ~Written(h)
<1>1. admin = NoTask
  BY DEF AloneInv
<1>2. ASSUME NEW steps, "idle" \notin steps PROVE ~OtherAt(h, steps)
  <2>1. ASSUME NEW k \in Handlers \ {h}, pc[k] \in steps, Name(k) = Name(h) PROVE FALSE
    <3>1. pc[k] # "idle"
      BY <1>2, <2>1
    <3>2. QED
      BY <2>1, <3>1, NotMine
  <2>2. QED
    BY <2>1 DEF OtherAt
<1>3. "idle" \notin WriteSteps
  BY DEF WriteSteps, MarkSteps
<1>4. QED
  BY <1>1, <1>2, <1>3 DEF Written, NoTask

\* An administrator's command begins, and goes on, when no request is under way.
LEMMA AdminAlone ==
  ASSUME TypeInv, AdminInv, AloneInv, "overlap" \notin faults', AdminStep
  PROVE  \/ Idle
         \/ (UserAdd \/ AllocateBlock \/ FolderByHand) /\ admin' = admin
<1>1. At("idle") <=> admin = NoTask
  BY DEF AdminInv
<1>2. CASE ~At("idle")
  BY <1>1, <1>2 DEF AloneInv, Idle
<1>3. CASE UserDelete \/ UserPurge
  BY <1>3 DEF UserDelete, UserPurge, AdminBegins, Fault, Idle
<1>4. CASE UserAdd \/ AllocateBlock \/ FolderByHand
  BY <1>4 DEF UserAdd, AllocateBlock, FolderByHand, users
<1>5. CASE Confirmed \/ PurgeVm \/ DeleteFolder \/ FreeBlock \/ FreeLeases
  BY <1>2, <1>5 DEF At, Confirmed, PurgeVm, DeleteFolder, FreeBlock, FreeLeases
<1>6. CASE RemoveUserDir \/ RemoveData \/ RemoveDataFails \/ Userdel \/ AdminStops
  BY <1>2, <1>6 DEF At, RemoveUserDir, RemoveData, RemoveDataFails, Userdel, AdminStops
<1>7. QED
  BY <1>3, <1>4, <1>5, <1>6 DEF AdminStep

LEMMA AdminJobs == ASSUME AdminStep PROVE UNCHANGED << pc, job >>
<1>1. CASE UserAdd \/ AllocateBlock \/ FolderByHand \/ UserDelete \/ UserPurge
  BY <1>1 DEF UserAdd, AllocateBlock, FolderByHand, UserDelete, UserPurge, AdminBegins
<1>2. CASE Confirmed \/ PurgeVm \/ DeleteFolder \/ FreeBlock \/ FreeLeases
  BY <1>2 DEF Confirmed, PurgeVm, DeleteFolder, FreeBlock, FreeLeases
<1>3. CASE RemoveUserDir \/ RemoveData \/ RemoveDataFails \/ Userdel \/ AdminStops
  BY <1>3 DEF RemoveUserDir, RemoveData, RemoveDataFails, Userdel, AdminStops
<1>4. QED
  BY <1>1, <1>2, <1>3 DEF AdminStep

\* A restart that kills nobody changes nothing.
LEMMA IdleRestart == ASSUME TypeInv, Restart, Idle PROVE UNCHANGED vars
<1>0. JobsInv /\ VmInv /\ ClusterInv
  BY DEF TypeInv
<1>1. pc' = pc /\ job' = job
  <2>1. \A h \in Handlers : pc[h] = "idle" /\ job[h] = NoJob
    BY <1>0 DEF Idle, JobsInv, JobAt, VmSteps, ClusterSteps
  <2>2. /\ pc' = [h \in Handlers |-> "idle"]
        /\ job' = [h \in Handlers |-> NoJob]
    BY DEF Restart
  <2>3. QED
    BY <1>0, <2>1, <2>2 DEF JobsInv
<1>2. AtStep("vm-remove") = {} /\ AtStep("cl-remove") = {}
  BY DEF AtStep, Idle
<1>3. /\ vmMachine' = [n \in VmNames |-> vmMachine[n]] /\ vmState' = vmState
      /\ vmDir' = [n \in VmNames |-> vmDir[n]]
  <2>1. PICK made \in SUBSET {h \in Handlers : pc[h] = "vm-apply" /\ vmMachine[Name(h)] = NoIp
                                             /\ folder # "none"} :
        \E kept \in SUBSET made, torn \in SUBSET (AtStep("vm-remove") \cap VmRecords),
           lost \in SUBSET (AtStep("vm-remove") \cap vmState) :
          /\ vmMachine' = [n \in VmNames |->
               IF \E h \in made : Name(h) = n
               THEN job[CHOOSE h \in made : Name(h) = n].ips[1] ELSE vmMachine[n]]
          /\ vmState' = (vmState \ lost) \cup {n \in {Name(h) : h \in kept} : vmDir[n] # NoDir}
          /\ vmDir' = [n \in VmNames |-> IF n \in torn THEN Bare ELSE vmDir[n]]
    BY DEF Restart, VmRestart
  <2>2. PICK kept \in SUBSET made, torn \in SUBSET (AtStep("vm-remove") \cap VmRecords),
             lost \in SUBSET (AtStep("vm-remove") \cap vmState) :
          /\ vmMachine' = [n \in VmNames |->
               IF \E h \in made : Name(h) = n
               THEN job[CHOOSE h \in made : Name(h) = n].ips[1] ELSE vmMachine[n]]
          /\ vmState' = (vmState \ lost) \cup {n \in {Name(h) : h \in kept} : vmDir[n] # NoDir}
          /\ vmDir' = [n \in VmNames |-> IF n \in torn THEN Bare ELSE vmDir[n]]
    BY <2>1
  <2>3. made = {}
    BY <2>1 DEF Idle
  <2>4. kept = {}
    BY <2>3
  <2>5. torn = {} /\ lost = {}
    BY <1>2
  <2>6. vmMachine' = [n \in VmNames |-> vmMachine[n]]
    BY <2>2, <2>3
  <2>7. {n \in {Name(h) : h \in kept} : vmDir[n] # NoDir} = {} /\ vmState \ lost = vmState
    BY <2>4, <2>5
  <2>8. vmState' = vmState
    BY <2>2, <2>7
  <2>9. vmDir' = [n \in VmNames |-> vmDir[n]]
    BY <2>2, <2>5
  <2>10. QED
    BY <2>6, <2>8, <2>9
<1>4. clusterDir' = [c \in Clusters |-> clusterDir[c]]
  BY <1>2 DEF Restart, ClusterRestart
<1>5. vmMachine' = vmMachine /\ vmDir' = vmDir /\ clusterDir' = clusterDir
  BY <1>0, <1>3, <1>4 DEF VmInv, ClusterInv
<1>6. faults' = faults /\ UNCHANGED << pool, nodeIps, users, calls >>
  BY DEF Restart, Fault, Idle
<1>7. QED
  BY <1>1, <1>3, <1>5, <1>6 DEF vars, vms, clusters

LEMMA AloneKeeps ==
  ASSUME TypeInv, AdminInv, AloneInv, "overlap" \notin faults', [Next]_vars
  PROVE  AloneInv'
<1>0. JobsInv
  BY DEF TypeInv
<1>1. ASSUME NEW h \in Handlers, VmStep(h) \/ ClusterStep(h), UNCHANGED admin
      PROVE  AloneInv'
  <2>1. admin = NoTask
    BY <1>0, <1>1, StepsAlone
  <2>2. \A g \in Handlers : g # h => job'[g] = job[g]
    BY <1>0, <1>1, OthersStay
  <2>3. \/ \E step, names : Begin(h, step, names)
        \/ Range(job'[h].names) \subseteq Range(job[h].names)
    BY <1>0, <1>1, VmMoves, ClMoves DEF GoesOn, VmBegins, ClBegins
  <2>4. \A g \in Handlers : g # h => Range(job[g].names) \cap Range(job'[h].names) = {}
    <3>1. CASE Range(job'[h].names) \subseteq Range(job[h].names)
      BY <3>1 DEF AloneInv
    <3>2. ASSUME NEW step, NEW names, Begin(h, step, names)
          PROVE  \A g \in Handlers : Range(job[g].names) \cap Range(job'[h].names) = {}
      <4>1. job'[h].names = names
        BY <1>0, <3>2 DEF Begin, JobsInv
      <4>2. QED
        BY <3>2, <4>1, BeginsAlone
    <3>3. QED
      BY <2>3, <3>1, <3>2
  <2>5. \A g, k \in Handlers : g # k => Range(job'[g].names) \cap Range(job'[k].names) = {}
    <3>1. TAKE g, k \in Handlers
    <3>2. HAVE g # k
    <3>3. CASE g = h
      BY <2>2, <2>4, <3>2, <3>3
    <3>4. CASE k = h
      BY <2>2, <2>4, <3>2, <3>4
    <3>5. CASE g # h /\ k # h
      BY <2>2, <3>2, <3>5 DEF AloneInv
    <3>6. QED
      BY <3>3, <3>4, <3>5
  <2>6. QED
    BY <1>1, <2>1, <2>5 DEF AloneInv
<1>2. CASE AdminStep
  <2>1. UNCHANGED << pc, job >>
    BY <1>2, AdminJobs
  <2>2. CASE Idle
    BY <2>1, <2>2 DEF AloneInv, Idle
  <2>3. CASE admin' = admin
    BY <2>1, <2>3 DEF AloneInv
  <2>4. QED
    BY <1>2, <2>2, <2>3, AdminAlone
<1>3. CASE Restart
  <2>1. /\ pc' = [h \in Handlers |-> "idle"]
        /\ job' = [h \in Handlers |-> NoJob]
    BY <1>3 DEF Restart
  <2>2. Range(<< >>) = {}
    BY DEF Range
  <2>3. QED
    BY <2>1, <2>2 DEF AloneInv, NoJob
<1>4. CASE UNCHANGED vars
  BY <1>4 DEF vars, users, AloneInv
<1>5. QED
  BY <1>1, <1>2, <1>3, <1>4 DEF Next, users

-----------------------------------------------------------------------------
(* What a step does to the VM or cluster it is about, when the directory is as *)
(* the request made or found it. *)

LEMMA VmStepIs ==
  ASSUME NEW h \in Handlers, VmStep(h), pc[h] # "idle"
  PROVE  /\ pc[h] = "vm-test" => VmTest(h)
         /\ pc[h] = "vm-allocate" => VmAllocate(h)
         /\ pc[h] = "vm-mkdir" => VmMkdir(h)
         /\ pc[h] = "vm-prepare" => VmPrepare(h)
         /\ pc[h] = "vm-apply" => VmApply(h)
         /\ pc[h] \in {"vm-running", "vm-failed"} => VmReport(h)
         /\ pc[h] = "vm-find" => VmFind(h)
         /\ pc[h] = "vm-mark" => VmMark(h)
         /\ pc[h] = "vm-destroy" => VmDestroy(h)
         /\ pc[h] = "vm-return" => VmReturn(h)
         /\ pc[h] = "vm-remove" => VmRemove(h)
         /\ pc[h] \in VmSteps
<1>1. \/ pc[h] = "vm-test" /\ VmTest(h)
      \/ pc[h] = "vm-allocate" /\ VmAllocate(h)
      \/ pc[h] = "vm-mkdir" /\ VmMkdir(h)
      \/ pc[h] = "vm-prepare" /\ VmPrepare(h)
      \/ pc[h] = "vm-apply" /\ VmApply(h)
      \/ pc[h] \in {"vm-running", "vm-failed"} /\ VmReport(h)
      \/ pc[h] = "vm-find" /\ VmFind(h)
      \/ pc[h] = "vm-mark" /\ VmMark(h)
      \/ pc[h] = "vm-destroy" /\ VmDestroy(h)
      \/ pc[h] = "vm-return" /\ VmReturn(h)
      \/ pc[h] = "vm-remove" /\ VmRemove(h)
  <2>1. ~ApiCreateVM(h) /\ ~ApiDeleteVM(h)
    BY DEF ApiCreateVM, ApiDeleteVM, Begin
  <2>2. /\ VmTest(h) => pc[h] = "vm-test"
        /\ VmAllocate(h) => pc[h] = "vm-allocate"
        /\ VmMkdir(h) => pc[h] = "vm-mkdir"
        /\ VmPrepare(h) => pc[h] = "vm-prepare"
        /\ VmApply(h) => pc[h] = "vm-apply"
        /\ VmReport(h) => pc[h] \in {"vm-running", "vm-failed"}
        /\ VmFind(h) => pc[h] = "vm-find"
        /\ VmMark(h) => pc[h] = "vm-mark"
        /\ VmDestroy(h) => pc[h] = "vm-destroy"
        /\ VmReturn(h) => pc[h] = "vm-return"
        /\ VmRemove(h) => pc[h] = "vm-remove"
    BY DEF VmTest, VmAllocate, VmMkdir, VmPrepare, VmApply, VmReport, VmFind, VmMark, VmDestroy,
       VmReturn, VmRemove
  <2>3. QED
    BY <2>1, <2>2 DEF VmStep
<1>2. QED
  BY <1>1 DEF VmSteps

\* Other VMs are left alone.
SameVm(n) ==
  vmDir'[n] = vmDir[n] /\ vmMachine'[n] = vmMachine[n] /\ (n \in vmState' <=> n \in vmState)
LEMMA VmFrame ==
  ASSUME TypeInv, NEW h \in Handlers, VmStep(h), NEW n \in VmNames, pc[h] = "idle" \/ n # Name(h)
  PROVE  SameVm(n)
<1>0. VmInv
  BY DEF TypeInv
<1>1. CASE UNCHANGED vms
  BY <1>1 DEF vms, SameVm
<1>2. CASE pc[h] = "idle"
  <2>1. ApiCreateVM(h) \/ ApiDeleteVM(h)
    BY <1>2 DEF VmStep, VmTest, VmAllocate, VmMkdir, VmPrepare, VmApply, VmReport, VmFind, VmMark,
       VmDestroy, VmReturn, VmRemove
  <2>2. QED
    BY <1>1, <2>1 DEF ApiCreateVM, ApiDeleteVM
<1>3. CASE pc[h] # "idle" /\ n # Name(h)
  <2>1. ASSUME NEW m, m # n PROVE \A d : SetVmDir(m, d) => vmDir'[n] = vmDir[n]
    BY <1>0, <2>1 DEF SetVmDir, VmInv
  <2>2. CASE VmMkdir(h) \/ VmPrepare(h)
    BY <1>3, <2>1, <2>2 DEF VmMkdir, VmPrepare, WriteVmRecord, SameVm
  <2>7. CASE VmReport(h) \/ VmMark(h)
    <3>1. UNCHANGED << vmMachine, vmState >> /\ \E s : SetVmStatus(h, s)
      BY <2>7 DEF VmReport, VmMark
    <3>2. QED
      BY <1>3, <2>1, <3>1 DEF SetVmStatus, SameVm
  <2>3. CASE VmApply(h)
    <3>1. ASSUME NEW m, m # n, vmMachine' = [vmMachine EXCEPT ![m] = job[h].ips[1]]
          PROVE  vmMachine'[n] = vmMachine[n]
      BY <1>0, <3>1 DEF VmInv
    <3>2. QED
      BY <1>3, <2>1, <2>3, <3>1 DEF VmApply, VmMakes, VmMakesUnrecorded, Make, SameVm
  <2>4. CASE VmDestroy(h)
    BY <1>0, <1>3, <2>4 DEF VmDestroy, Destroy, VmInv, SameVm
  <2>5. CASE VmRemove(h)
    BY <1>3, <2>1, <2>5 DEF VmRemove, SameVm
  <2>6. QED
    BY <1>1, <1>3, <2>2, <2>3, <2>4, <2>5, <2>7, VmStepIs DEF VmSteps, VmTest, VmAllocate, VmFind,
       VmReturn
<1>4. QED
  BY <1>2, <1>3

\* The record create-vm has written is one.
LEMMA Created ==
  ASSUME JobsInv, VmInv, NEW h \in Handlers, pc[h] \in {"vm-apply", "vm-running", "vm-failed"},
         NEW n \in VmNames, vmDir[n] = [status |-> "creating", ip |-> job[h].ips[1]]
  PROVE  n \in VmRecords /\ vmDir[n].ip = job[h].ips[1] /\ vmDir[n].status = "creating"
<1>1. job[h].ips[1] \in BlockIps
  BY Holds DEF HasIps, VmSteps
<1>2. vmDir[n] \in BlockVm
  BY <1>1 DEF BlockVm, VmStatus
<1>3. QED
  BY <1>2, Records DEF VmRecords

LEMMA VmEffects ==
  ASSUME TypeInv, AloneInv, Tidy', NEW h \in Handlers, VmStep(h), pc[h] # "idle", VmAt(h),
         NEW n \in VmNames, n = Name(h)
  PROVE  /\ pc[h] = "vm-test" =>
              /\ UNCHANGED << pool, vms >>
              /\ \/ pc'[h] = "vm-allocate" /\ vmDir[n] = NoDir
                 \/ pc'[h] \in {"idle", "vm-test"}
         /\ pc[h] = "vm-allocate" =>
              /\ UNCHANGED vms /\ vmDir[n] = NoDir
              /\ \/ AllocateIp(n) /\ pc'[h] = "vm-mkdir" /\ job'[h].ips = << AddressFor(n) >>
                 \/ UNCHANGED pool /\ pc'[h] \in {"idle", "vm-test"}
         /\ pc[h] = "vm-mkdir" =>
              /\ UNCHANGED << pool, vmMachine, vmState >> /\ vmDir[n] = NoDir /\ vmDir'[n] = Bare
              /\ pc'[h] = "vm-prepare" /\ job'[h] = job[h]
         /\ pc[h] = "vm-prepare" =>
              /\ UNCHANGED << pool, vmMachine, vmState >> /\ vmDir[n] = Bare /\ job'[h] = job[h]
              /\ \/ /\ vmDir'[n] = [status |-> "creating", ip |-> job[h].ips[1]]
                    /\ pc'[h] \in {"vm-apply", "vm-return"}
                 \/ vmDir'[n] = Bare /\ pc'[h] = "vm-return"
         /\ pc[h] = "vm-apply" =>
              /\ UNCHANGED << pool, vmDir >> /\ job'[h] = job[h]
              /\ vmDir[n] = [status |-> "creating", ip |-> job[h].ips[1]]
              /\ n \in VmRecords /\ vmDir[n].ip = job[h].ips[1]
              /\ \/ /\ vmMachine'[n] = job[h].ips[1] /\ n \in vmState'
                    /\ pc'[h] \in {"vm-running", "vm-failed"}
                 \/ UNCHANGED << vmMachine, vmState >> /\ pc'[h] = "vm-failed"
         /\ pc[h] \in {"vm-running", "vm-failed"} =>
              /\ UNCHANGED << pool, vmMachine, vmState >>
              /\ n \in VmRecords /\ vmDir[n].ip = job[h].ips[1]
              /\ n \in VmRecords' /\ vmDir'[n].ip = job[h].ips[1]
              /\ vmDir'[n].status = "running" => vmMachine[n] = job[h].ips[1]
              /\ pc'[h] \in {"idle", "vm-test"}
         /\ pc[h] = "vm-find" =>
              /\ UNCHANGED << pool, vms >> /\ n \in VmRecords
              /\ pc'[h] = "vm-mark" /\ job'[h].ips = << vmDir[n].ip >>
         /\ pc[h] = "vm-mark" =>
              /\ UNCHANGED << pool, vmMachine, vmState >>
              /\ n \in VmRecords /\ job[h].ips = << vmDir[n].ip >>
              /\ n \in VmRecords' /\ vmDir'[n].status = "deleting" /\ vmDir'[n].ip = vmDir[n].ip
              /\ pc'[h] = "vm-destroy" /\ job'[h] = job[h]
         /\ pc[h] = "vm-destroy" =>
              /\ UNCHANGED << pool, vmDir >> /\ Destroy(n)
              /\ n \in VmRecords /\ vmDir[n].status = "deleting" /\ job[h].ips = << vmDir[n].ip >>
              /\ pc'[h] = "vm-return" /\ job'[h] = job[h]
         /\ pc[h] = "vm-return" =>
              UNCHANGED vms /\ ReleaseIp(job[h].ips[1]) /\ pc'[h] = "vm-remove"
         /\ pc[h] = "vm-remove" =>
              /\ UNCHANGED << pool, vmMachine >> /\ vmDir'[n] = NoDir /\ vmState' = vmState \ {n}
              /\ pc'[h] \in {"idle", "vm-test"}
<1>0. JobsInv /\ VmInv /\ NoDir # Bare /\ pc[h] \in VmSteps
  BY VmStepIs, Records DEF TypeInv
<1>1. /\ \A d : SetVmDir(n, d) => vmDir'[n] = d
      /\ UNCHANGED vmDir => vmDir'[n] = vmDir[n]
  BY <1>0 DEF SetVmDir, VmInv
<1>2. (\A steps : "idle" \notin steps => ~OtherAt(h, steps)) /\ ~Written(h)
  BY <1>0, OthersAway
<1>13. ~OtherAt(h, MarkSteps) /\ ~OtherAt(h, MarkSteps \cup {"vm-prepare"}) /\ ~OtherAt(h, {"vm-prepare"})
  <2>1. /\ "idle" \notin MarkSteps /\ "idle" \notin MarkSteps \cup {"vm-prepare"}
        /\ "idle" \notin {"vm-prepare"}
    BY DEF MarkSteps
  <2>2. QED
    BY <1>2, <2>1
<1>14. n \in VmRecords => vmDir[n] \notin {NoDir, Bare}
  BY DEF VmRecords
<1>15. ASSUME n \in VmRecords, NEW s \in VmStatus, SetVmStatus(h, s)
       PROVE  n \in VmRecords' /\ vmDir'[n].ip = vmDir[n].ip /\ vmDir'[n].status = s
  <2>1. /\ vmDir'[n] \in BlockVm
        /\ vmDir'[n].ip = vmDir[n].ip /\ vmDir'[n].status = s
    BY <1>0, <1>13, <1>15, VmStatusSet DEF Tidy
  <2>2. QED
    BY <1>0, <2>1, Records DEF VmRecords
<1>3. CASE pc[h] = "vm-test"
  <2>1. VmTest(h)
    BY <1>3, VmStepIs
  <2>2. QED
    BY <1>0, <1>3, <2>1, Going DEF VmTest
<1>4. CASE pc[h] = "vm-allocate"
  <2>1. VmAllocate(h) /\ vmDir[n] = NoDir
    BY <1>4, VmStepIs DEF VmAt
  <2>2. QED
    BY <1>0, <1>4, <2>1, Going DEF VmAllocate
<1>5. CASE pc[h] = "vm-mkdir"
  <2>1. VmMkdir(h) /\ vmDir[n] = NoDir
    BY <1>5, VmStepIs DEF VmAt
  <2>2. QED
    BY <1>0, <1>1, <1>5, <2>1, Going DEF VmMkdir
<1>6. CASE pc[h] = "vm-prepare"
  <2>1. VmPrepare(h) /\ vmDir[n] = Bare
    BY <1>6, VmStepIs DEF VmAt
  <2>2. QED
    BY <1>0, <1>1, <1>6, <1>13, <2>1, Going DEF VmPrepare, WriteVmRecord, Fault, Tidy
<1>7. CASE pc[h] = "vm-apply"
  <2>1. VmApply(h) /\ vmDir[n] = [status |-> "creating", ip |-> job[h].ips[1]]
    BY <1>7, VmStepIs DEF VmAt
  <2>2. n \in VmRecords /\ vmDir[n].ip = job[h].ips[1]
    BY <1>0, <1>7, <2>1, Created
  <2>3. vmMachine' = [vmMachine EXCEPT ![n] = job[h].ips[1]] => vmMachine'[n] = job[h].ips[1]
    BY <1>0 DEF VmInv
  <2>4. /\ UNCHANGED << pool, vmDir >>
        /\ \/ /\ vmMachine'[n] = job[h].ips[1] /\ n \in vmState'
              /\ Goto(h, "vm-running") \/ Goto(h, "vm-failed")
           \/ UNCHANGED << vmMachine, vmState >> /\ Goto(h, "vm-failed")
    BY <2>1, <2>2, <2>3 DEF VmApply, VmMakes, VmMakesUnrecorded, Make
  <2>5. QED
    BY <1>0, <1>7, <2>1, <2>2, <2>4, Going
<1>16. CASE pc[h] \in {"vm-running", "vm-failed"}
  <2>1. /\ VmReport(h) /\ vmDir[n] = [status |-> "creating", ip |-> job[h].ips[1]]
        /\ pc[h] = "vm-running" => vmMachine[n] = job[h].ips[1]
    BY <1>16, VmStepIs DEF VmAt
  <2>2. n \in VmRecords /\ vmDir[n].ip = job[h].ips[1]
    BY <1>0, <1>16, <2>1, Created
  <2>3. PICK s \in VmStatus : SetVmStatus(h, s) /\ (s = "running" => pc[h] = "vm-running")
    BY <2>1 DEF VmReport, VmStatus
  <2>4. n \in VmRecords' /\ vmDir'[n].ip = job[h].ips[1] /\ vmDir'[n].status = s
    BY <1>15, <2>2, <2>3
  <2>5. pc'[h] \in {"idle", "vm-test"} /\ UNCHANGED << pool, vmMachine, vmState >>
    BY <1>0, <1>16, <2>1, Going DEF VmReport
  <2>6. QED
    BY <1>16, <2>1, <2>2, <2>3, <2>4, <2>5
<1>8. CASE pc[h] = "vm-find"
  <2>1. VmFind(h) /\ n \in VmRecords
    BY <1>8, VmStepIs DEF VmAt
  <2>2. Hold(h, "vm-mark", << vmDir[n].ip >>) /\ UNCHANGED << pool, vms >>
    BY <1>13, <1>14, <2>1 DEF VmFind
  <2>3. QED
    BY <1>0, <1>8, <2>1, <2>2, Going
<1>17. CASE pc[h] = "vm-mark"
  <2>1. VmMark(h) /\ n \in VmRecords /\ job[h].ips = << vmDir[n].ip >>
    BY <1>17, VmStepIs DEF VmAt
  <2>2. /\ SetVmStatus(h, "deleting") /\ Goto(h, "vm-destroy")
        /\ UNCHANGED << pool, vmMachine, vmState >> /\ "deleting" \in VmStatus
    BY <2>1 DEF VmMark, VmStatus
  <2>3. QED
    BY <1>0, <1>15, <1>17, <2>1, <2>2, Going
<1>9. CASE pc[h] = "vm-destroy"
  <2>1. /\ VmDestroy(h)
        /\ n \in VmRecords /\ vmDir[n].status = "deleting" /\ job[h].ips = << vmDir[n].ip >>
    BY <1>9, VmStepIs DEF VmAt
  <2>2. job[h].ips # << >>
    BY <2>1
  <2>3. QED
    BY <1>0, <1>9, <2>1, <2>2, Going DEF VmDestroy
<1>10. CASE pc[h] = "vm-return"
  <2>1. VmReturn(h)
    BY <1>10, VmStepIs
  <2>2. QED
    BY <1>0, <1>10, <2>1, Going DEF VmReturn
<1>11. CASE pc[h] = "vm-remove"
  <2>1. VmRemove(h)
    BY <1>11, VmStepIs
  <2>2. QED
    BY <1>0, <1>1, <1>2, <1>11, <2>1, Going DEF VmRemove
<1>12. QED
  BY <1>0, <1>3, <1>4, <1>5, <1>6, <1>7, <1>8, <1>9, <1>10, <1>11, <1>16, <1>17 DEF VmSteps

LEMMA ClusterStepIs ==
  ASSUME NEW h \in Handlers, ClusterStep(h), pc[h] # "idle"
  PROVE  /\ pc[h] = "cl-test" => ClTest(h)
         /\ pc[h] = "cl-mkdir" => ClMkdir(h)
         /\ pc[h] = "cl-allocate" => ClAllocate(h)
         /\ pc[h] = "cl-undo" => ClUndo(h)
         /\ pc[h] = "cl-manifest" => ClManifest(h)
         /\ pc[h] = "cl-apply" => ClApply(h)
         /\ pc[h] \in {"cl-applied", "cl-failed"} => ClMark(h)
         /\ pc[h] = "cl-delete" => ClDelete(h)
         /\ pc[h] = "cl-read" => ClRead(h)
         /\ pc[h] = "cl-return" => ClReturn(h)
         /\ pc[h] = "cl-remove" => ClRemove(h)
         /\ pc[h] \in ClusterSteps
<1>1. \/ pc[h] = "cl-test" /\ ClTest(h)
      \/ pc[h] = "cl-mkdir" /\ ClMkdir(h)
      \/ pc[h] = "cl-allocate" /\ ClAllocate(h)
      \/ pc[h] = "cl-undo" /\ ClUndo(h)
      \/ pc[h] = "cl-manifest" /\ ClManifest(h)
      \/ pc[h] = "cl-apply" /\ ClApply(h)
      \/ pc[h] \in {"cl-applied", "cl-failed"} /\ ClMark(h)
      \/ pc[h] = "cl-delete" /\ ClDelete(h)
      \/ pc[h] = "cl-read" /\ ClRead(h)
      \/ pc[h] = "cl-return" /\ ClReturn(h)
      \/ pc[h] = "cl-remove" /\ ClRemove(h)
  <2>1. ~ApiCreateCluster(h) /\ ~ApiDeleteCluster(h)
    BY DEF ApiCreateCluster, ApiDeleteCluster, Begin
  <2>2. /\ ClTest(h) => pc[h] = "cl-test"
        /\ ClMkdir(h) => pc[h] = "cl-mkdir"
        /\ ClAllocate(h) => pc[h] = "cl-allocate"
        /\ ClUndo(h) => pc[h] = "cl-undo"
        /\ ClManifest(h) => pc[h] = "cl-manifest"
        /\ ClApply(h) => pc[h] = "cl-apply"
        /\ ClMark(h) => pc[h] \in {"cl-applied", "cl-failed"}
        /\ ClDelete(h) => pc[h] = "cl-delete"
        /\ ClRead(h) => pc[h] = "cl-read"
        /\ ClReturn(h) => pc[h] = "cl-return"
        /\ ClRemove(h) => pc[h] = "cl-remove"
    BY DEF ClTest, ClMkdir, ClAllocate, ClUndo, ClManifest, ClApply, ClMark, ClDelete, ClRead,
           ClReturn, ClRelease, ClRemove
  <2>3. QED
    BY <2>1, <2>2 DEF ClusterStep
<1>2. QED
  BY <1>1 DEF ClusterSteps

\* Other clusters are left alone.
SameCluster(c) == clusterDir'[c] = clusterDir[c] /\ nodeIps'[c] = nodeIps[c]
LEMMA ClusterFrame ==
  ASSUME TypeInv, NEW h \in Handlers, ClusterStep(h),
         NEW c \in Clusters, pc[h] = "idle" \/ c # Name(h)
  PROVE  SameCluster(c)
<1>0. ClusterInv
  BY DEF TypeInv
<1>1. CASE UNCHANGED clusters
  BY <1>1 DEF clusters, SameCluster
<1>2. CASE pc[h] = "idle"
  <2>1. ApiCreateCluster(h) \/ ApiDeleteCluster(h)
    BY <1>2 DEF ClusterStep, ClTest, ClMkdir, ClAllocate, ClUndo, ClManifest, ClApply, ClMark, ClDelete,
       ClRead, ClReturn, ClRelease, ClRemove
  <2>2. QED
    BY <1>1, <2>1 DEF ApiCreateCluster, ApiDeleteCluster
<1>3. CASE pc[h] # "idle" /\ c # Name(h)
  <2>1. ASSUME NEW m, m # c
        PROVE  /\ \A d : SetClusterDir(m, d) => clusterDir'[c] = clusterDir[c]
               /\ \A ips : nodeIps' = [nodeIps EXCEPT ![m] = ips] => nodeIps'[c] = nodeIps[c]
    BY <1>0, <2>1 DEF SetClusterDir, ClusterInv
  <2>2. CASE ClMkdir(h) \/ ClManifest(h) \/ ClMark(h) \/ ClRemove(h)
    BY <1>3, <2>1, <2>2 DEF ClMkdir, ClManifest, ClMark, ClRemove, SameCluster
  <2>3. CASE ClApply(h) \/ ClDelete(h)
    BY <1>3, <2>1, <2>3 DEF ClApply, ClDelete, SameCluster
  <2>4. QED
    BY <1>1, <1>3, <2>2, <2>3, ClusterStepIs
       DEF ClusterSteps, ClTest, ClAllocate, ClUndo, ClReturn, ClRelease, ClRead
<1>4. QED
  BY <1>2, <1>3

\* The node whose address comes next.
NodeOf(h) == Nodes[Name(h)][Len(job[h].ips) + 1]

LEMMA ClusterEffects ==
  ASSUME TypeInv, AloneInv, Tidy', NEW h \in Handlers, ClusterStep(h), pc[h] # "idle",
         ClusterAt(h), NEW c \in Clusters, c = Name(h)
  PROVE  /\ pc[h] = "cl-test" =>
              /\ UNCHANGED << pool, clusters >>
              /\ \/ pc'[h] = "cl-mkdir" /\ clusterDir[c] = NoDir
                 \/ pc'[h] = "idle"
         /\ pc[h] = "cl-mkdir" =>
              /\ UNCHANGED << pool, nodeIps >> /\ clusterDir[c] = NoDir
              /\ \/ UNCHANGED clusterDir /\ pc'[h] = "idle"
                 \/ clusterDir'[c] = Bare /\ pc'[h] = "cl-allocate" /\ job'[h] = job[h]
         /\ pc[h] = "cl-allocate" =>
              /\ UNCHANGED clusters /\ clusterDir[c] = Bare
              /\ \/ /\ AllocateIp(NodeOf(h)) /\ pc'[h] \in {"cl-manifest", "cl-allocate"}
                    /\ job'[h].ips = Append(job[h].ips, AddressFor(NodeOf(h)))
                 \/ UNCHANGED pool /\ pc'[h] = "idle" /\ job[h].ips = << >>
                 \/ UNCHANGED pool /\ pc'[h] = "cl-undo" /\ job'[h] = job[h]
         /\ pc[h] = "cl-undo" =>
              /\ UNCHANGED clusters /\ clusterDir[c] = Bare /\ ReleaseIp(Head(job[h].ips))
              /\ \/ pc'[h] = "cl-undo" /\ job'[h].ips = Tail(job[h].ips)
                 \/ pc'[h] = "idle" /\ Len(job[h].ips) = 1
         /\ pc[h] = "cl-manifest" =>
              /\ UNCHANGED << pool, nodeIps >> /\ clusterDir[c] = Bare
              /\ \/ /\ c \in ClusterRecords' /\ clusterDir'[c].ips = job[h].ips
                    /\ pc'[h] = "cl-apply" /\ job'[h] = job[h]
                 \/ UNCHANGED clusterDir /\ pc'[h] = "idle" /\ "manifest" \in faults'
         /\ pc[h] = "cl-apply" =>
              /\ UNCHANGED << pool, clusterDir >>
              /\ c \in ClusterRecords /\ clusterDir[c].ips = job[h].ips
              /\ nodeIps'[c] \in {nodeIps[c], job[h].ips}
              /\ pc'[h] \in {"cl-applied", "cl-failed"} /\ job'[h] = job[h]
         /\ pc[h] \in {"cl-applied", "cl-failed"} =>
              /\ UNCHANGED << pool, nodeIps >>
              /\ c \in ClusterRecords /\ c \in ClusterRecords' /\ clusterDir'[c].ips = clusterDir[c].ips
              /\ pc'[h] = "idle"
         /\ pc[h] = "cl-delete" =>
              /\ UNCHANGED << pool, clusterDir >> /\ c \in ClusterRecords
              /\ nodeIps'[c] = << >> \/ "destroy" \in faults'
              /\ pc'[h] = "cl-read"
         /\ pc[h] = "cl-read" =>
              /\ UNCHANGED << pool, clusters >> /\ c \in ClusterRecords
              /\ job'[h].ips = clusterDir[c].ips
              /\ \/ pc'[h] = "cl-remove" /\ clusterDir[c].ips = << >>
                 \/ pc'[h] = "cl-return" /\ clusterDir[c].ips # << >>
         /\ pc[h] = "cl-return" =>
              /\ UNCHANGED clusters /\ c \in ClusterRecords /\ ReleaseIp(Head(job[h].ips))
              /\ \/ pc'[h] = "cl-return" /\ job'[h].ips = Tail(job[h].ips)
                 \/ pc'[h] = "cl-remove" /\ Len(job[h].ips) = 1
         /\ pc[h] = "cl-remove" =>
              UNCHANGED << pool, nodeIps >> /\ clusterDir'[c] = NoDir /\ pc'[h] = "idle"
<1>0. /\ JobsInv /\ ClusterInv /\ NoDir # Bare /\ pc[h] \in ClusterSteps
      /\ job[h].ips \in Seq(BlockIps)
  <2>1. JobsInv /\ ClusterInv /\ NoDir # Bare
    BY Records DEF TypeInv
  <2>2. QED
    BY <2>1, ClusterStepIs, Holds
<1>1. /\ \A d : SetClusterDir(c, d) => clusterDir'[c] = d
      /\ UNCHANGED clusterDir => clusterDir'[c] = clusterDir[c]
      /\ \A ips : nodeIps' = [nodeIps EXCEPT ![c] = ips] => nodeIps'[c] = ips
  BY <1>0 DEF SetClusterDir, ClusterInv
<1>2. /\ c \in ClusterRecords => clusterDir[c] \notin {NoDir, Bare}
      /\ clusterDir'[c] \in BlockCluster => c \in ClusterRecords'
  BY <1>0, ClusterRecordsAre DEF ClusterRecords
<1>3. pc[h] \in {"cl-undo", "cl-return"} => Len(job[h].ips) > 1 \/ Len(job[h].ips) = 1
  <2>1. \A i \in Nat : i >= 1 => i > 1 \/ i = 1
    OBVIOUS
  <2>2. job[h].ips # << >> => Len(job[h].ips) \in Nat /\ Len(job[h].ips) >= 1
    BY <1>0, Parts
  <2>3. pc[h] \in {"cl-undo", "cl-return"} => job[h].ips # << >>
    BY <1>0, Holds DEF HasIps, ClusterSteps
  <2>4. QED
    BY <2>1, <2>2, <2>3
<1>4. CASE pc[h] = "cl-test"
  <2>1. ClTest(h)
    BY <1>4, ClusterStepIs
  <2>2. QED
    BY <1>0, <1>4, <2>1, Going DEF ClTest
<1>5. CASE pc[h] = "cl-mkdir"
  <2>1. ClMkdir(h) /\ clusterDir[c] = NoDir
    BY <1>5, ClusterStepIs DEF ClusterAt
  <2>2. QED
    BY <1>0, <1>1, <1>5, <2>1, Going DEF ClMkdir
<1>6. CASE pc[h] = "cl-allocate"
  <2>1. ClAllocate(h) /\ clusterDir[c] = Bare
    BY <1>6, ClusterStepIs DEF ClusterAt
  <2>2. Len(job[h].ips) + 1 = 1 => job[h].ips = << >>
    <3>1. Len(job[h].ips) \in Nat
      BY <1>0, LenProperties
    <3>2. Len(job[h].ips) + 1 = 1 => Len(job[h].ips) = 0
      BY <3>1
    <3>3. QED
      BY <1>0, <3>2, EmptySeq
  <2> DEFINE i == Len(job[h].ips) + 1
             ips == Append(job[h].ips, AddressFor(NodeOf(h)))
  <2>3. \/ /\ AllocateIp(NodeOf(h))
           /\ Hold(h, IF i = Len(Nodes[Name(h)]) THEN "cl-manifest" ELSE "cl-allocate", ips)
        \/ i = 1 /\ Finish(h) /\ UNCHANGED << pool, faults >>
        \/ Goto(h, "cl-undo") /\ UNCHANGED << pool, faults >>
    BY <2>1 DEF ClAllocate, NodeOf
  <2>4. UNCHANGED clusters
    BY <2>1 DEF ClAllocate
  <2> HIDE DEF ips
  <2>5. \/ AllocateIp(NodeOf(h)) /\ pc'[h] \in {"cl-manifest", "cl-allocate"} /\ job'[h].ips = ips
        \/ UNCHANGED pool /\ pc'[h] = "idle" /\ job[h].ips = << >>
        \/ UNCHANGED pool /\ pc'[h] = "cl-undo" /\ job'[h] = job[h]
    BY <1>0, <1>6, <2>2, <2>3, Going
  <2>6. QED
    BY <1>6, <2>1, <2>4, <2>5 DEF ips
<1>7. CASE pc[h] = "cl-undo"
  <2>1. ClRelease(h, "cl-undo", Finish(h)) /\ clusterDir[c] = Bare
    BY <1>7, ClusterStepIs DEF ClusterAt, ClUndo
  <2>2. /\ UNCHANGED clusters /\ ReleaseIp(Head(job[h].ips))
        /\ \/ Hold(h, "cl-undo", Tail(job[h].ips))
           \/ Finish(h) /\ Len(job[h].ips) = 1
    BY <1>3, <1>7, <2>1 DEF ClRelease
  <2>3. QED
    BY <1>0, <1>7, <2>1, <2>2, Going
<1>8. CASE pc[h] = "cl-manifest"
  <2>1. ClManifest(h) /\ clusterDir[c] = Bare
    BY <1>8, ClusterStepIs DEF ClusterAt
  <2> DEFINE d == [status |-> "pending", ips |-> job[h].ips]
  <2>2. d \in BlockCluster /\ d.ips = job[h].ips
    BY <1>0 DEF BlockCluster
  <2>3. /\ UNCHANGED << pool, nodeIps >>
        /\ \/ SetClusterDir(c, d) /\ Goto(h, "cl-apply")
           \/ Finish(h) /\ UNCHANGED clusterDir /\ "manifest" \in faults'
    BY <2>1 DEF ClManifest, Fault, Tidy
  <2> HIDE DEF d
  <2>4. QED
    BY <1>0, <1>1, <1>2, <1>8, <2>1, <2>2, <2>3, Going
<1>9. CASE pc[h] = "cl-apply"
  <2>1. ClApply(h) /\ c \in ClusterRecords /\ clusterDir[c].ips = job[h].ips
    BY <1>9, ClusterStepIs DEF ClusterAt
  <2>2. QED
    BY <1>0, <1>1, <1>9, <2>1, Going DEF ClApply
<1>10. CASE pc[h] \in {"cl-applied", "cl-failed"}
  <2>1. ClMark(h) /\ c \in ClusterRecords
    BY <1>10, ClusterStepIs DEF ClusterAt
  <2> DEFINE s == IF pc[h] = "cl-applied" THEN "provisioning" ELSE "failed"
             d == [status |-> s, ips |-> clusterDir[c].ips]
  <2>2. d \in BlockCluster /\ d.ips = clusterDir[c].ips
    BY <1>0, <2>1, ClusterRecordsAre DEF BlockCluster
  <2>3. SetClusterDir(c, d) /\ Finish(h) /\ UNCHANGED << pool, nodeIps >>
    BY <2>1 DEF ClMark, Fault, Tidy
  <2> HIDE DEF d
  <2>4. QED
    BY <1>0, <1>1, <1>2, <1>10, <2>1, <2>2, <2>3, Going
<1>11. CASE pc[h] = "cl-delete"
  <2>1. ClDelete(h) /\ c \in ClusterRecords
    BY <1>11, ClusterStepIs DEF ClusterAt
  <2>2. QED
    BY <1>0, <1>1, <1>2, <1>11, <2>1, Going DEF ClDelete, Fault
<1>12. CASE pc[h] = "cl-read"
  <2>1. ClRead(h) /\ c \in ClusterRecords
    BY <1>12, ClusterStepIs DEF ClusterAt
  <2> DEFINE ips == clusterDir[c].ips
  <2>2. /\ Hold(h, IF ips = << >> THEN "cl-remove" ELSE "cl-return", ips)
        /\ UNCHANGED << pool, clusters >>
    BY <2>1 DEF ClRead
  <2> HIDE DEF ips
  <2>3. /\ job'[h].ips = ips
        /\ \/ pc'[h] = "cl-remove" /\ ips = << >>
           \/ pc'[h] = "cl-return" /\ ips # << >>
    BY <1>0, <1>12, <2>2, Going
  <2>4. QED
    BY <1>12, <2>1, <2>2, <2>3 DEF ips
<1>13. CASE pc[h] = "cl-return"
  <2>1. ClRelease(h, "cl-return", Goto(h, "cl-remove")) /\ c \in ClusterRecords
    BY <1>13, ClusterStepIs DEF ClusterAt, ClReturn
  <2>2. /\ UNCHANGED clusters /\ ReleaseIp(Head(job[h].ips))
        /\ \/ Hold(h, "cl-return", Tail(job[h].ips))
           \/ Goto(h, "cl-remove") /\ Len(job[h].ips) = 1
    BY <1>3, <1>13, <2>1 DEF ClRelease
  <2>3. QED
    BY <1>0, <1>13, <2>1, <2>2, Going
<1>14. CASE pc[h] = "cl-remove"
  <2>1. ClRemove(h)
    BY <1>14, ClusterStepIs
  <2>2. ~OtherAt(h, {"cl-manifest", "cl-applied", "cl-failed"})
    BY <1>0, OthersAway
  <2>3. QED
    BY <1>0, <1>1, <1>14, <2>1, <2>2, Going DEF ClRemove
<1>15. QED
  BY <1>0, <1>4, <1>5, <1>6, <1>7, <1>8, <1>9, <1>10, <1>11, <1>12, <1>13, <1>14 DEF ClusterSteps

-----------------------------------------------------------------------------
(* Directories are as the requests expect them, and VMs reported as running are *)
(* there. *)

\* What a request expects depends on its own job and directory only.
LEMMA AtStays ==
  ASSUME NEW g, pc'[g] = pc[g], job'[g] = job[g]
  PROVE  /\ VmAt(g) /\ (pc[g] \in VmSteps => SameVm(Name(g))) => VmAt(g)'
         /\ ClusterAt(g) /\ (pc[g] \in ClusterSteps => clusterDir'[Name(g)] = clusterDir[Name(g)])
              => ClusterAt(g)'
<1>1. Name(g)' = Name(g)
  BY DEF Name
<1>2. ASSUME VmAt(g), pc[g] \in VmSteps => SameVm(Name(g)) PROVE VmAt(g)'
  <2>1. CASE pc[g] \in VmSteps
    BY <1>1, <1>2, <2>1 DEF VmAt, VmRecords, SameVm
  <2>2. CASE pc[g] \notin VmSteps
    BY <2>2 DEF VmAt, VmSteps
  <2>3. QED
    BY <2>1, <2>2
<1>3. ASSUME ClusterAt(g), pc[g] \in ClusterSteps => clusterDir'[Name(g)] = clusterDir[Name(g)]
      PROVE  ClusterAt(g)'
  <2>1. CASE pc[g] \in ClusterSteps
    BY <1>1, <1>3, <2>1 DEF ClusterAt, ClusterRecords
  <2>2. CASE pc[g] \notin ClusterSteps
    BY <2>2 DEF ClusterAt, ClusterSteps
  <2>3. QED
    BY <2>1, <2>2
<1>4. QED
  BY <1>2, <1>3

LEMMA VmAtStep ==
  ASSUME TypeInv, AloneInv, Tidy', NEW h \in Handlers, VmStep(h), VmAt(h)
  PROVE  VmAt(h)'
<1>0. JobsInv /\ VmInv
  BY DEF TypeInv
<1>1. CASE pc[h] = "idle"
  <2>1. ApiCreateVM(h) \/ ApiDeleteVM(h)
    BY <1>1 DEF VmStep, VmTest, VmAllocate, VmMkdir, VmPrepare, VmApply, VmReport, VmFind, VmMark,
       VmDestroy, VmReturn, VmRemove
  <2>2. CASE ApiCreateVM(h)
    <3>1. pc'[h] = "vm-test"
      BY <1>0, <2>2 DEF ApiCreateVM, Begin, JobsInv
    <3>2. QED
      BY <3>1 DEF VmAt
  <2>3. CASE ApiDeleteVM(h)
    <3>1. PICK n \in VmRecords : Begin(h, "vm-find", << n >>)
      BY <2>3 DEF ApiDeleteVM
    <3>2. pc'[h] = "vm-find" /\ Name(h)' = n /\ vmDir' = vmDir
      BY <1>0, <2>3, <3>1 DEF ApiDeleteVM, Begin, JobsInv, Name, vms
    <3>3. QED
      BY <3>2 DEF VmAt, VmRecords
  <2>4. QED
    BY <2>1, <2>2, <2>3
<1>2. CASE pc[h] # "idle"
  <2>1. pc[h] \in VmSteps /\ Name(h) \in VmNames
    BY <1>0, <1>2, VmStepIs, Holds
  <2>2. PICK n \in VmNames : n = Name(h)
    BY <2>1
  <2>3. pc'[h] \in {"idle", "vm-test"} \/ Name(h)' = n
    BY <1>0, <1>2, <2>2, VmMoves DEF GoesOn, Name, VmBegins
  <2>4. CASE pc'[h] \in {"idle", "vm-test"}
    BY <2>4 DEF VmAt
  <2>5. CASE Name(h)' = n /\ pc[h] = "vm-prepare"
    <3>1. job[h].ips[1] \in BlockIps
      BY <1>0, <2>5, Holds DEF HasIps
    <3> DEFINE d == [status |-> "creating", ip |-> job[h].ips[1]]
    <3>2. d \in BlockVm /\ d.status = "creating" /\ d \notin {NoDir, Bare}
      BY <1>0, <3>1, Records DEF BlockVm, VmStatus
    <3>3. /\ job'[h] = job[h]
          /\ \/ vmDir'[n] = d /\ pc'[h] \in {"vm-apply", "vm-return"}
             \/ vmDir'[n] = Bare /\ pc'[h] = "vm-return"
      BY <1>2, <2>2, <2>5, VmEffects
    <3>4. pc'[h] = "vm-apply" => vmDir'[n] = [status |-> "creating", ip |-> job'[h].ips[1]]
      BY <3>3
    <3>5. pc'[h] = "vm-return" => vmDir'[n] = Bare \/ (n \in VmRecords' /\ vmDir'[n].status = "creating")
      BY <3>2, <3>3 DEF VmRecords
    <3>6. pc'[h] \in {"vm-apply", "vm-return"}
      BY <3>3
    <3>7. QED
      BY <2>5, <3>4, <3>5, <3>6 DEF VmAt
  <2>6. CASE Name(h)' = n /\ pc[h] = "vm-apply"
    <3>1. UNCHANGED vmDir /\ job'[h] = job[h] /\ pc'[h] \in {"vm-running", "vm-failed"}
      BY <1>2, <2>2, <2>6, VmEffects
    <3>2. vmDir[n] = [status |-> "creating", ip |-> job[h].ips[1]]
      BY <1>2, <2>2, <2>6, VmEffects
    <3>3. vmMachine'[n] = job[h].ips[1] \/ pc'[h] = "vm-failed"
      BY <1>2, <2>2, <2>6, VmEffects
    <3>4. /\ vmDir'[n] = [status |-> "creating", ip |-> job'[h].ips[1]]
          /\ pc'[h] = "vm-running" => vmMachine'[n] = job'[h].ips[1]
      BY <3>1, <3>2, <3>3
    <3>5. QED
      BY <2>6, <3>1, <3>4 DEF VmAt
  <2>7. CASE Name(h)' = n /\ pc[h] \in {"vm-find", "vm-mark"}
    <3>1. pc[h] = "vm-find" =>
               pc'[h] = "vm-mark" /\ vmDir' = vmDir /\ n \in VmRecords /\ job'[h].ips = << vmDir[n].ip >>
      BY <1>2, <2>2, VmEffects DEF vms
    <3>2. ASSUME pc[h] = "vm-mark"
          PROVE  /\ n \in VmRecords' /\ vmDir'[n].status = "deleting" /\ vmDir'[n].ip = vmDir[n].ip
                 /\ pc'[h] = "vm-destroy" /\ job'[h].ips = << vmDir[n].ip >>
      <4>1. /\ n \in VmRecords' /\ vmDir'[n].status = "deleting" /\ vmDir'[n].ip = vmDir[n].ip
            /\ pc'[h] = "vm-destroy" /\ job'[h] = job[h]
        BY <1>2, <2>2, <3>2, VmEffects
      <4>2. job[h].ips = << vmDir[n].ip >>
        BY <1>2, <2>2, <3>2, VmEffects
      <4>3. QED
        BY <4>1, <4>2
    <3>3. vmDir' = vmDir => VmRecords' = VmRecords
      BY DEF VmRecords
    <3>4. pc[h] = "vm-mark" => job'[h].ips = << vmDir'[n].ip >>
      BY <3>2
    <3>5. QED
      BY <2>7, <3>1, <3>2, <3>3, <3>4 DEF VmAt
  <2>8. CASE Name(h)' = n /\ pc[h] \in {"vm-destroy", "vm-return"}
    <3>1. pc[h] = "vm-destroy" =>
               pc'[h] = "vm-return" /\ vmDir' = vmDir /\ n \in VmRecords /\ vmDir[n].status = "deleting"
      BY <1>2, <2>2, VmEffects
    <3>2. pc[h] = "vm-return" => pc'[h] = "vm-remove" /\ vmDir' = vmDir
      BY <1>2, <2>2, VmEffects DEF vms
    <3>3. pc[h] = "vm-return" =>
            vmDir[n] = Bare \/ (n \in VmRecords /\ vmDir[n].status \in {"creating", "deleting"})
      BY <2>2 DEF VmAt
    <3>4. vmDir' = vmDir => VmRecords' = VmRecords
      BY DEF VmRecords
    <3>5. QED
      BY <2>8, <3>1, <3>2, <3>3, <3>4 DEF VmAt
  <2>9. CASE Name(h)' = n /\ pc[h] \in {"vm-test", "vm-allocate", "vm-mkdir"} /\ pc'[h] \notin {"idle", "vm-test"}
    <3>1. /\ pc[h] = "vm-test" => pc'[h] = "vm-allocate" /\ vmDir'[n] = NoDir
          /\ pc[h] = "vm-allocate" => pc'[h] = "vm-mkdir" /\ vmDir'[n] = NoDir
          /\ pc[h] = "vm-mkdir" => pc'[h] = "vm-prepare" /\ vmDir'[n] = Bare
      BY <1>2, <2>2, <2>9, VmEffects DEF vms
    <3>2. QED
      BY <2>9, <3>1 DEF VmAt
  <2>10. CASE pc[h] \in {"vm-running", "vm-failed", "vm-remove"}
    BY <1>2, <2>2, <2>4, <2>10, VmEffects
  <2>11. QED
    BY <2>1, <2>3, <2>4, <2>5, <2>6, <2>7, <2>8, <2>9, <2>10 DEF VmSteps
<1>3. QED
  BY <1>1, <1>2

LEMMA ClusterAtStep ==
  ASSUME TypeInv, AloneInv, Tidy', NEW h \in Handlers, ClusterStep(h), ClusterAt(h)
  PROVE  ClusterAt(h)'
<1>0. JobsInv /\ ClusterInv
  BY DEF TypeInv
<1>1. CASE pc[h] = "idle"
  <2>1. ApiCreateCluster(h) \/ ApiDeleteCluster(h)
    BY <1>1 DEF ClusterStep, ClTest, ClMkdir, ClAllocate, ClUndo, ClManifest, ClApply, ClMark, ClDelete,
       ClRead, ClReturn, ClRelease, ClRemove
  <2>2. CASE ApiCreateCluster(h)
    <3>1. pc'[h] = "cl-test"
      BY <1>0, <2>2 DEF ApiCreateCluster, Begin, JobsInv
    <3>2. QED
      BY <3>1 DEF ClusterAt
  <2>3. CASE ApiDeleteCluster(h)
    <3>1. PICK c \in ClusterRecords : Begin(h, "cl-delete", << c >>)
      BY <2>3 DEF ApiDeleteCluster
    <3>2. pc'[h] = "cl-delete" /\ Name(h)' = c /\ clusterDir' = clusterDir
      BY <1>0, <2>3, <3>1 DEF ApiDeleteCluster, Begin, JobsInv, Name, clusters
    <3>3. QED
      BY <3>2 DEF ClusterAt, ClusterRecords
  <2>4. QED
    BY <2>1, <2>2, <2>3
<1>2. CASE pc[h] # "idle"
  <2>1. pc[h] \in ClusterSteps /\ Name(h) \in Clusters
    BY <1>0, <1>2, ClusterStepIs, Holds
  <2>2. PICK c \in Clusters : c = Name(h)
    BY <2>1
  <2>3. pc'[h] = "idle" \/ Name(h)' = c
    BY <1>0, <1>2, <2>2, ClMoves DEF GoesOn, Name, ClBegins
  <2>4. CASE pc'[h] = "idle"
    BY <2>4 DEF ClusterAt
  <2>5. CASE Name(h)' = c /\ pc'[h] # "idle"
    <3>1. /\ pc[h] = "cl-test" => pc'[h] = "cl-mkdir" /\ clusterDir'[c] = NoDir
          /\ pc[h] = "cl-mkdir" => pc'[h] = "cl-allocate" /\ clusterDir'[c] = Bare
          /\ pc[h] = "cl-allocate" =>
               pc'[h] \in {"cl-manifest", "cl-allocate", "cl-undo"} /\ clusterDir'[c] = Bare
          /\ pc[h] = "cl-undo" => pc'[h] = "cl-undo" /\ clusterDir'[c] = Bare
      BY <1>2, <2>2, <2>5, ClusterEffects DEF clusters
    <3>2. /\ pc[h] = "cl-manifest" =>
               pc'[h] = "cl-apply" /\ c \in ClusterRecords' /\ clusterDir'[c].ips = job'[h].ips
          /\ pc[h] = "cl-apply" =>
               /\ pc'[h] \in {"cl-applied", "cl-failed"} /\ clusterDir' = clusterDir
               /\ c \in ClusterRecords /\ clusterDir[c].ips = job'[h].ips
          /\ pc[h] \notin {"cl-applied", "cl-failed", "cl-remove"}
      BY <1>2, <2>2, <2>5, ClusterEffects
    <3>3. pc[h] \in {"cl-delete", "cl-read", "cl-return"} =>
               /\ pc'[h] \in {"cl-read", "cl-return", "cl-remove"} /\ clusterDir' = clusterDir
               /\ c \in ClusterRecords
      BY <1>2, <2>2, <2>5, ClusterEffects DEF clusters
    <3>4. clusterDir' = clusterDir => ClusterRecords' = ClusterRecords
      BY DEF ClusterRecords
    <3>5. QED
      BY <2>1, <2>5, <3>1, <3>2, <3>3, <3>4 DEF ClusterAt, ClusterSteps
  <2>6. QED
    BY <2>3, <2>4, <2>5
<1>3. QED
  BY <1>1, <1>2

LEMMA DirsKeep ==
  ASSUME TypeInv, AdminInv, AloneInv, DirsInv, Tidy', [Next]_vars
  PROVE  DirsInv'
<1>0. JobsInv /\ "overlap" \notin faults'
  BY DEF TypeInv, Tidy
<1>1. ASSUME NEW h \in Handlers, VmStep(h), UNCHANGED clusters
      PROVE  DirsInv'
  <2>1. SUFFICES ASSUME NEW g \in Handlers PROVE VmAt(g)' /\ ClusterAt(g)'
    BY DEF DirsInv
  <2>2. CASE g = h
    <3>1. VmAt(h)'
      BY <1>1, VmAtStep DEF DirsInv
    <3>2. pc'[h] \in VmSteps
          \/ pc'[h] = "idle"
      BY <1>0, <1>1, VmMoves DEF VmBegins, Begin, JobsInv, VmSteps
    <3>3. ClusterAt(h)'
      BY <3>2 DEF ClusterAt, VmSteps
    <3>4. QED
      BY <2>2, <3>1, <3>3
  <2>3. CASE g # h
    <3>1. pc'[g] = pc[g] /\ job'[g] = job[g] /\ clusterDir' = clusterDir
      BY <1>0, <1>1, <2>3, OthersStay DEF clusters
    <3>2. ASSUME pc[g] \in VmSteps PROVE SameVm(Name(g))
      <4>1. pc[g] # "idle" /\ Name(g) \in VmNames
        BY <1>0, <3>2, Holds DEF VmSteps
      <4>2. pc[h] = "idle" \/ Name(g) # Name(h)
        BY <1>0, <2>3, <4>1, NotMine
      <4>3. QED
        BY <1>1, <4>1, <4>2, VmFrame
    <3>3. QED
      BY <3>1, <3>2, AtStays DEF DirsInv
  <2>4. QED
    BY <2>2, <2>3
<1>2. ASSUME NEW h \in Handlers, ClusterStep(h), UNCHANGED vms
      PROVE  DirsInv'
  <2>1. SUFFICES ASSUME NEW g \in Handlers PROVE VmAt(g)' /\ ClusterAt(g)'
    BY DEF DirsInv
  <2>2. CASE g = h
    <3>1. ClusterAt(h)'
      BY <1>2, ClusterAtStep DEF DirsInv
    <3>2. pc'[h] \in ClusterSteps
          \/ pc'[h] = "idle"
      BY <1>0, <1>2, ClMoves DEF ClBegins, Begin, JobsInv, ClusterSteps
    <3>3. VmAt(h)'
      BY <3>2 DEF VmAt, ClusterSteps
    <3>4. QED
      BY <2>2, <3>1, <3>3
  <2>3. CASE g # h
    <3>1. pc'[g] = pc[g] /\ job'[g] = job[g] /\ SameVm(Name(g))
      BY <1>0, <1>2, <2>3, OthersStay DEF vms, SameVm
    <3>2. ASSUME pc[g] \in ClusterSteps PROVE clusterDir'[Name(g)] = clusterDir[Name(g)]
      <4>1. pc[g] # "idle" /\ Name(g) \in Clusters
        BY <1>0, <3>2, Holds DEF ClusterSteps
      <4>2. pc[h] = "idle" \/ Name(g) # Name(h)
        BY <1>0, <2>3, <4>1, NotMine
      <4>3. QED
        BY <1>2, <4>1, <4>2, ClusterFrame DEF SameCluster
    <3>3. QED
      BY <3>1, <3>2, AtStays DEF DirsInv
  <2>4. QED
    BY <2>2, <2>3
<1>3. ASSUME Idle' PROVE DirsInv'
  BY <1>3 DEF DirsInv, Idle, VmAt, ClusterAt
<1>4. ASSUME UNCHANGED << pc, job, vms, clusterDir >> PROVE DirsInv'
  BY <1>4, AtStays DEF DirsInv, vms, SameVm
<1>5. CASE AdminStep
  <2>1. UNCHANGED << pc, job >>
    BY <1>5, AdminJobs
  <2>2. CASE Idle
    BY <1>3, <2>1, <2>2 DEF Idle
  <2>3. CASE UserAdd \/ AllocateBlock \/ FolderByHand
    BY <1>4, <2>1, <2>3 DEF UserAdd, AllocateBlock, FolderByHand, clusters
  <2>4. QED
    BY <1>0, <1>5, <2>2, <2>3, AdminAlone
<1>6. CASE Restart
  BY <1>3, <1>6 DEF Restart, Idle
<1>7. CASE UNCHANGED vars
  BY <1>4, <1>7 DEF vars, clusters
<1>8. QED
  BY <1>1, <1>2, <1>5, <1>6, <1>7 DEF Next, clusters, vms

\* A restart makes machines only for VMs that are being made.
LEMMA RestartMakes ==
  ASSUME TypeInv, DirsInv, Restart, NEW n \in VmNames
  PROVE  /\ vmMachine'[n] # vmMachine[n] => vmDir[n] # NoDir /\ vmDir[n].status = "creating"
         /\ vmDir'[n] \in {Bare, vmDir[n]} /\ (vmDir[n] = NoDir => vmDir'[n] = NoDir)
<1>0. JobsInv /\ VmInv
  BY DEF TypeInv
<1>1. PICK made \in SUBSET {h \in Handlers : pc[h] = "vm-apply" /\ vmMachine[Name(h)] = NoIp
                                           /\ folder # "none"},
           torn \in SUBSET (AtStep("vm-remove") \cap VmRecords) :
        /\ vmMachine' = [m \in VmNames |->
             IF \E h \in made : Name(h) = m
             THEN job[CHOOSE h \in made : Name(h) = m].ips[1] ELSE vmMachine[m]]
        /\ vmDir' = [m \in VmNames |-> IF m \in torn THEN Bare ELSE vmDir[m]]
  BY DEF Restart, VmRestart
<1>2. ASSUME vmMachine'[n] # vmMachine[n] PROVE vmDir[n] # NoDir /\ vmDir[n].status = "creating"
  <2>1. \E h \in made : Name(h) = n
    BY <1>1, <1>2
  <2>2. PICK h \in Handlers : pc[h] = "vm-apply" /\ Name(h) = n
    BY <2>1
  <2>3. vmDir[n] = [status |-> "creating", ip |-> job[h].ips[1]]
    BY <2>2 DEF DirsInv, VmAt
  <2>4. QED
    BY <1>0, <2>2, <2>3, Created DEF VmRecords
<1>3. vmDir'[n] \in {Bare, vmDir[n]} /\ (vmDir[n] = NoDir => vmDir'[n] = NoDir)
  BY <1>1 DEF VmRecords
<1>4. QED
  BY <1>2, <1>3

LEMMA RunningKeeps ==
  ASSUME TypeInv, AdminInv, AloneInv, DirsInv, RunningInv, Tidy', [Next]_vars
  PROVE  RunningInv'
<1>0. JobsInv /\ VmInv /\ VmInv' /\ faults \subseteq faults' /\ "overlap" \notin faults'
  <2>1. JobsInv /\ VmInv
    BY DEF TypeInv
  <2>2. TypeInv'
    BY TypesKeep
  <2>3. faults \subseteq faults' /\ "overlap" \notin faults'
    BY HistoryKeeps DEF Tidy
  <2>4. QED
    BY <2>1, <2>2, <2>3 DEF TypeInv
<1>1. At("idle") <=> admin = NoTask
  BY DEF AdminInv
<1>2. ASSUME NEW n \in VmNames, n \in VmRecords /\ vmDir[n].status = "running" => vmMachine[n] = vmDir[n].ip,
             vmDir'[n] = vmDir[n], vmMachine'[n] = vmMachine[n], n \in VmRecords',
             vmDir'[n].status = "running"
      PROVE  vmMachine'[n] = vmDir'[n].ip
  BY <1>2 DEF VmRecords
<1>3. ASSUME NEW h \in Handlers, VmStep(h), UNCHANGED admin
      PROVE  RunningInv'
  <2>1. admin = NoTask
    BY <1>0, <1>3, StepsAlone
  <2>2. ASSUME "stopped" \notin faults', NEW n \in VmRecords', vmDir'[n].status = "running"
        PROVE  vmMachine'[n] = vmDir'[n].ip
    <3>1. n \in VmNames /\ vmDir'[n] \notin {NoDir, Bare}
      BY <2>2 DEF VmRecords
    <3>2. n \in VmRecords /\ vmDir[n].status = "running" => vmMachine[n] = vmDir[n].ip
      BY <1>0, <2>1, <2>2 DEF RunningInv, NoTask
    <3>3. CASE SameVm(n)
      BY <1>2, <2>2, <3>1, <3>2, <3>3 DEF SameVm
    <3>4. CASE pc[h] # "idle" /\ n = Name(h)
      <4>1. VmAt(h) /\ pc[h] \in VmSteps
        BY <1>3, <3>4, VmStepIs DEF DirsInv
      <4>2. CASE pc[h] \in {"vm-test", "vm-allocate", "vm-find", "vm-return"}
        <5>1. UNCHANGED vms
          BY <1>3, <3>1, <3>4, <4>1, <4>2, VmEffects
        <5>2. QED
          BY <1>2, <2>2, <3>1, <3>2, <5>1 DEF vms
      <4>3. CASE pc[h] \in {"vm-mkdir", "vm-remove"}
        <5>1. vmDir'[n] \in {NoDir, Bare}
          BY <1>3, <3>1, <3>4, <4>1, <4>3, VmEffects
        <5>2. QED
          BY <3>1, <5>1
      <4>4. CASE pc[h] = "vm-prepare"
        <5>1. vmDir'[n] = [status |-> "creating", ip |-> job[h].ips[1]] \/ vmDir'[n] = Bare
          BY <1>3, <3>1, <3>4, <4>1, <4>4, VmEffects
        <5>2. QED
          BY <2>2, <3>1, <5>1
      <4>5. CASE pc[h] = "vm-apply"
        <5>1. vmDir'[n] = [status |-> "creating", ip |-> job[h].ips[1]]
          BY <1>3, <3>1, <3>4, <4>1, <4>5, VmEffects
        <5>2. QED
          BY <2>2, <5>1
      <4>6. CASE pc[h] = "vm-mark"
        <5>1. vmDir'[n].status = "deleting"
          BY <1>3, <3>1, <3>4, <4>1, <4>6, VmEffects
        <5>2. QED
          BY <2>2, <5>1
      <4>9. CASE pc[h] \in {"vm-running", "vm-failed"}
        <5>1. vmMachine' = vmMachine /\ vmDir'[n].ip = job[h].ips[1] /\ vmMachine[n] = job[h].ips[1]
          BY <1>3, <2>2, <3>1, <3>4, <4>1, <4>9, VmEffects
        <5>2. QED
          BY <5>1
      <4>7. CASE pc[h] = "vm-destroy"
        <5>1. vmDir' = vmDir /\ vmDir[n].status = "deleting"
          BY <1>3, <3>1, <3>4, <4>1, <4>7, VmEffects
        <5>2. QED
          BY <2>2, <5>1
      <4>8. QED
        BY <4>1, <4>2, <4>3, <4>4, <4>5, <4>6, <4>7, <4>9 DEF VmSteps
    <3>5. QED
      BY <1>3, <3>1, <3>3, <3>4, VmFrame
  <2>3. QED
    BY <1>3, <2>1, <2>2 DEF RunningInv, NoTask, At
<1>4. ASSUME UNCHANGED << vms, admin >> PROVE RunningInv'
  <2>1. VmRecords' = VmRecords /\ VmDirs' = VmDirs /\ vmDir' = vmDir /\ vmMachine' = vmMachine
    BY <1>4 DEF vms, VmRecords, VmDirs
  <2>2. QED
    BY <1>0, <1>4, <2>1 DEF RunningInv, At
<1>5. CASE AdminStep
  <2> DEFINE Live == \A n \in VmRecords : vmDir[n].status = "running" => vmMachine[n] = vmDir[n].ip
  <2>1. /\ UNCHANGED vms => (Live <=> Live')
        /\ VmDirs' = {} => Live'
    BY DEF vms, VmRecords, VmDirs
  <2>2. "stopped" \notin faults /\ ~admin.purge => Live
    BY DEF RunningInv
  <2> HIDE DEF Live
  <2>3. CASE UserAdd \/ AllocateBlock \/ FolderByHand
    BY <1>4, <2>3 DEF UserAdd, AllocateBlock, FolderByHand, users
  <2>4. CASE UserDelete \/ UserPurge
    <3>1. /\ UNCHANGED vms /\ At("idle")
          /\ \/ admin' = [step |-> "folder", purge |-> FALSE, vms |-> {}] /\ VmDirs = {}
             \/ admin' = [step |-> "confirm", purge |-> TRUE, vms |-> VmDirs]
      BY <2>4 DEF UserDelete, UserPurge, AdminBegins
    <3>2. ~admin.purge
      BY <1>1, <3>1 DEF NoTask
    <3>3. "stopped" \notin faults' => Live'
      BY <1>0, <2>1, <2>2, <3>1, <3>2
    <3>5. VmDirs' = VmDirs
      BY <3>1 DEF VmDirs, vms
    <3>4. QED
      BY <3>1, <3>3, <3>5 DEF RunningInv, At, Live
  <2>5. ASSUME admin'.purge = admin.purge, UNCHANGED vms, ~At("idle"),
               admin'.step \in {"confirm", "destroy", "block", "leases"} => admin.purge,
               admin'.step # "userdel"
        PROVE  RunningInv'
    <3>1. VmDirs' = VmDirs
      BY <2>5 DEF VmDirs, vms
    <3>2. QED
      BY <1>0, <2>1, <2>2, <2>5, <3>1 DEF RunningInv, At, Live
  <2>6. CASE Confirmed \/ DeleteFolder \/ FreeBlock \/ FreeLeases \/ RemoveUserDir
    <3>1. UNCHANGED vms /\ admin'.purge = admin.purge
      BY <2>6 DEF Confirmed, DeleteFolder, FolderGone, FreeBlock, FreeLeases, RemoveUserDir, AdminGoto,
         TypeInv, UserTypeOK
    <3>2. \/ At("confirm") /\ admin'.step \in {"folder", "destroy"}
          \/ admin'.step = (IF admin.purge THEN "block" ELSE "users")
          \/ At("block") /\ admin'.step = "leases"
          \/ admin'.step \in {"users", "data"}
      BY <2>6 DEF Confirmed, DeleteFolder, FolderGone, FreeBlock, FreeLeases, RemoveUserDir, AdminGoto,
         TypeInv, UserTypeOK
    <3>3. (admin.step \in {"confirm", "block"} => admin.purge) /\ ~At("idle")
      BY <2>6 DEF RunningInv, At, Confirmed, DeleteFolder, FreeBlock, FreeLeases, RemoveUserDir
    <3>4. QED
      BY <2>5, <3>1, <3>2, <3>3 DEF At
  <2>7. CASE PurgeVm
    <3>1. At("destroy") /\ admin'.purge = admin.purge /\ admin'.step \in {"destroy", "folder"}
      BY <2>7 DEF PurgeVm, TypeInv, UserTypeOK, At
    <3>2. admin'.purge
      BY <3>1 DEF RunningInv, At
    <3>3. QED
      BY <3>1, <3>2 DEF RunningInv, At
  <2>8. CASE RemoveData
    <3>1. vmDir' = [n \in VmNames |-> NoDir] /\ admin'.step = "userdel"
      BY <2>8 DEF RemoveData, AdminGoto, TypeInv, UserTypeOK
    <3>2. VmDirs' = {}
      BY <3>1 DEF VmDirs
    <3>3. QED
      BY <2>1, <3>1, <3>2 DEF RunningInv, At, Live
  <2>11. CASE RemoveDataFails
    <3>1. admin' = NoTask /\ "stopped" \in faults'
      BY <2>11 DEF RemoveDataFails, AdminEnds, Fault
    <3>2. QED
      BY <3>1 DEF RunningInv, At, NoTask
  <2>9. CASE Userdel \/ AdminStops
    <3>1. admin' = NoTask /\ UNCHANGED vms
      BY <2>9 DEF Userdel, AdminStops, AdminEnds
    <3>2. "stopped" \notin faults' => Live'
      <4>1. AdminStops => "stopped" \in faults'
        BY DEF AdminStops, Fault
      <4>2. Userdel => VmDirs' = {}
        BY <3>1 DEF Userdel, RunningInv, vms, VmDirs
      <4>3. QED
        BY <2>1, <2>9, <4>1, <4>2
    <3>3. QED
      BY <3>1, <3>2 DEF RunningInv, At, NoTask, Live
  <2>10. QED
    BY <1>5, <2>3, <2>4, <2>6, <2>7, <2>8, <2>9, <2>11 DEF AdminStep
<1>6. CASE Restart
  <2>1. admin' = admin
    BY <1>6 DEF Restart, users
  <2>2. VmDirs = {} => VmDirs' = {}
    BY <1>6, RestartMakes DEF VmDirs
  <2>3. ASSUME "stopped" \notin faults', ~admin.purge, NEW n \in VmRecords', vmDir'[n].status = "running"
        PROVE  vmMachine'[n] = vmDir'[n].ip
    <3>1. n \in VmNames /\ vmDir'[n] \notin {NoDir, Bare}
      BY <2>3 DEF VmRecords
    <3>2. vmDir'[n] = vmDir[n] /\ n \in VmRecords
      BY <1>6, <3>1, RestartMakes DEF VmRecords
    <3>3. vmMachine'[n] = vmMachine[n]
      BY <1>6, <2>3, <3>1, <3>2, RestartMakes
    <3>4. QED
      BY <1>0, <2>3, <3>2, <3>3 DEF RunningInv
  <2>4. QED
    BY <1>0, <2>1, <2>2, <2>3 DEF RunningInv, At
<1>7. QED
  <2>1. CASE UNCHANGED vars
    BY <1>4, <2>1 DEF vars, users
  <2>2. CASE \E h \in Handlers : ClusterStep(h) /\ UNCHANGED << vms, users >>
    BY <1>4, <2>2 DEF users
  <2>3. CASE \E h \in Handlers : VmStep(h) /\ UNCHANGED << clusters, users >>
    BY <1>3, <2>3 DEF users
  <2>4. QED
    BY <1>5, <1>6, <2>1, <2>2, <2>3 DEF Next

-----------------------------------------------------------------------------
(* Who has which address. *)

Beginnings == {"idle", "vm-test", "vm-find", "cl-test", "cl-delete"}

\* Who is on what: a step changes it for its own name only, and there nobody else is.
LEMMA OnStep ==
  ASSUME JobsInv, AloneInv, NEW h \in Handlers, VmStep(h) \/ ClusterStep(h),
         NEW n, NEW S, S \cap Beginnings = {}
  PROVE  /\ \A g \in Handlers : g # h => job'[g] = job[g] /\ (On(g, S, n)' <=> On(g, S, n))
         /\ pc[h] = "idle" \/ n # Name(h) => ~On(h, S, n) /\ ~On(h, S, n)'
         /\ pc[h] # "idle" /\ n = Name(h) =>
              /\ \A g \in Handlers : g # h => ~On(g, S, n) /\ ~On(g, S, n)'
              /\ On(h, S, n) <=> pc[h] \in S
              /\ On(h, S, n)' <=> pc'[h] \in S
<1>1. \A g \in Handlers : g # h => pc'[g] = pc[g] /\ job'[g] = job[g]
  BY OthersStay
<1>2. \A g \in Handlers : g # h => job'[g] = job[g] /\ (On(g, S, n)' <=> On(g, S, n))
  BY <1>1 DEF On, Name
<1>3. pc[h] = "idle" => pc'[h] \notin S
  <2>1. pc[h] = "idle" => VmBegins(h) \/ ClBegins(h)
    BY VmMoves, ClMoves DEF VmSteps, ClusterSteps
  <2>2. \A step, names : Begin(h, step, names) => pc'[h] = step
    BY DEF Begin, JobsInv
  <2>3. VmBegins(h) \/ ClBegins(h) => pc'[h] \in {"vm-test", "vm-find", "cl-test", "cl-delete"}
    BY <2>2 DEF VmBegins, ClBegins
  <2>4. QED
    BY <2>1, <2>3 DEF Beginnings
<1>4. pc[h] # "idle" /\ pc'[h] \in S => Name(h)' = Name(h)
  <2>1. pc[h] # "idle" => GoesOn(h, "vm-test")
    BY VmMoves, ClMoves DEF VmBegins, ClBegins
  <2>2. pc'[h] \in S => pc'[h] \notin {"idle", "vm-test"}
    BY DEF Beginnings
  <2>3. QED
    BY <2>1, <2>2 DEF GoesOn, Name
<1>5. On(h, S, n)' <=> pc'[h] \in S /\ Name(h)' = n
  BY DEF On
<1>6. pc[h] = "idle" \/ n # Name(h) => ~On(h, S, n) /\ ~On(h, S, n)'
  BY <1>3, <1>4, <1>5 DEF On, Beginnings
<1>7. ASSUME pc[h] # "idle", n = Name(h)
      PROVE  /\ \A g \in Handlers : g # h => ~On(g, S, n)
             /\ On(h, S, n) <=> pc[h] \in S
             /\ On(h, S, n)' <=> pc'[h] \in S
  <2>1. \A g \in Handlers : g # h => ~On(g, S, n)
    BY <1>7, NotMine DEF On, Beginnings
  <2>2. QED
    BY <1>4, <1>5, <1>7, <2>1 DEF On
<1>8. QED
  BY <1>2, <1>6, <1>7

LEMMA VmHasSame ==
  ASSUME JobsInv, AloneInv, NEW h \in Handlers, VmStep(h) \/ ClusterStep(h),
         NEW n \in VmNames, NEW x, pc[h] = "idle" \/ n # Name(h), vmDir'[n] = vmDir[n]
  PROVE  VmHas(n, x)' <=> VmHas(n, x)
<1>1. VmHolding \cap Beginnings = {} /\ VmEnding \cap Beginnings = {}
  BY DEF VmHolding, VmEnding, Beginnings
<1>2. \A g \in Handlers : /\ On(g, VmHolding, n)' <=> On(g, VmHolding, n)
                          /\ On(g, VmEnding, n)' <=> On(g, VmEnding, n)
                          /\ On(g, VmHolding, n) => job'[g] = job[g]
  BY <1>1, OnStep
<1>3. n \in VmRecords' <=> n \in VmRecords
  BY DEF VmRecords
<1>4. VmHas(n, x) <=> \/ \E g \in Handlers : On(g, VmHolding, n) /\ job[g].ips[1] = x
                      \/ n \in VmRecords /\ vmDir[n].ip = x /\ \A g \in Handlers : ~On(g, VmEnding, n)
  BY DEF VmHas
<1>5. VmHas(n, x)' <=> \/ \E g \in Handlers : On(g, VmHolding, n)' /\ job'[g].ips[1] = x
                       \/ n \in VmRecords' /\ vmDir'[n].ip = x /\ \A g \in Handlers : ~On(g, VmEnding, n)'
  BY DEF VmHas
<1>6. QED
  BY <1>2, <1>3, <1>4, <1>5

LEMMA VmHasMine ==
  ASSUME JobsInv, AloneInv, NEW h \in Handlers, VmStep(h), pc[h] # "idle",
         NEW n \in VmNames, n = Name(h), NEW x
  PROVE  /\ VmHas(n, x) <=> \/ pc[h] \in VmHolding /\ job[h].ips[1] = x
                            \/ n \in VmRecords /\ vmDir[n].ip = x /\ pc[h] \notin VmEnding
         /\ VmHas(n, x)' <=> \/ pc'[h] \in VmHolding /\ job'[h].ips[1] = x
                             \/ n \in VmRecords' /\ vmDir'[n].ip = x /\ pc'[h] \notin VmEnding
<1>1. VmHolding \cap Beginnings = {} /\ VmEnding \cap Beginnings = {}
  BY DEF VmHolding, VmEnding, Beginnings
<1>2. /\ \A g \in Handlers : g # h => ~On(g, VmHolding, n) /\ ~On(g, VmHolding, n)'
      /\ On(h, VmHolding, n) <=> pc[h] \in VmHolding
      /\ On(h, VmHolding, n)' <=> pc'[h] \in VmHolding
  BY <1>1, OnStep
<1>3. /\ \A g \in Handlers : g # h => ~On(g, VmEnding, n) /\ ~On(g, VmEnding, n)'
      /\ On(h, VmEnding, n) <=> pc[h] \in VmEnding
      /\ On(h, VmEnding, n)' <=> pc'[h] \in VmEnding
  BY <1>1, OnStep
<1>4. VmHas(n, x) <=> \/ \E g \in Handlers : On(g, VmHolding, n) /\ job[g].ips[1] = x
                      \/ n \in VmRecords /\ vmDir[n].ip = x /\ \A g \in Handlers : ~On(g, VmEnding, n)
  BY DEF VmHas
<1>5. VmHas(n, x)' <=> \/ \E g \in Handlers : On(g, VmHolding, n)' /\ job'[g].ips[1] = x
                       \/ n \in VmRecords' /\ vmDir'[n].ip = x /\ \A g \in Handlers : ~On(g, VmEnding, n)'
  BY DEF VmHas
<1>6. QED
  BY <1>2, <1>3, <1>4, <1>5

LEMMA ClusterHasSame ==
  ASSUME JobsInv, AloneInv, NEW h \in Handlers, VmStep(h) \/ ClusterStep(h),
         NEW c \in Clusters, NEW x, pc[h] = "idle" \/ c # Name(h), clusterDir'[c] = clusterDir[c]
  PROVE  /\ ClusterHas(c, x)' <=> ClusterHas(c, x)
         /\ Releasing(c)' <=> Releasing(c)
<1>1. ClHolding \cap Beginnings = {} /\ ClEnding \cap Beginnings = {}
  BY DEF ClHolding, ClEnding, Beginnings
<1>2. \A g \in Handlers : /\ On(g, ClHolding, c)' <=> On(g, ClHolding, c)
                          /\ On(g, ClHolding, c) => job'[g] = job[g]
  <2>1. /\ \A g \in Handlers : g # h => job'[g] = job[g] /\ (On(g, ClHolding, c)' <=> On(g, ClHolding, c))
        /\ ~On(h, ClHolding, c) /\ ~On(h, ClHolding, c)'
    BY <1>1, OnStep
  <2>2. QED
    BY <2>1
<1>3. \A g \in Handlers : On(g, ClEnding, c)' <=> On(g, ClEnding, c)
  BY <1>1, OnStep
<1>4. c \in ClusterRecords' <=> c \in ClusterRecords
  BY DEF ClusterRecords
<1>5. ClusterHas(c, x) <=>
        \/ \E g \in Handlers : On(g, ClHolding, c) /\ x \in Range(job[g].ips)
        \/ c \in ClusterRecords /\ x \in Range(clusterDir[c].ips) /\ \A g \in Handlers : ~On(g, ClEnding, c)
  BY DEF ClusterHas
<1>6. ClusterHas(c, x)' <=>
        \/ \E g \in Handlers : On(g, ClHolding, c)' /\ x \in Range(job'[g].ips)
        \/ c \in ClusterRecords' /\ x \in Range(clusterDir'[c].ips) /\ \A g \in Handlers : ~On(g, ClEnding, c)'
  BY DEF ClusterHas
<1>8. Releasing(c)' <=> Releasing(c)
  BY <1>3 DEF Releasing
<1>9. QED
  BY <1>2, <1>3, <1>4, <1>5, <1>6, <1>8

LEMMA ClusterHasMine ==
  ASSUME JobsInv, AloneInv, NEW h \in Handlers, ClusterStep(h), pc[h] # "idle",
         NEW c \in Clusters, c = Name(h), NEW x
  PROVE  /\ ClusterHas(c, x) <=> \/ pc[h] \in ClHolding /\ x \in Range(job[h].ips)
                                 \/ c \in ClusterRecords /\ x \in Range(clusterDir[c].ips) /\ pc[h] \notin ClEnding
         /\ ClusterHas(c, x)' <=> \/ pc'[h] \in ClHolding /\ x \in Range(job'[h].ips)
                                  \/ c \in ClusterRecords' /\ x \in Range(clusterDir'[c].ips) /\ pc'[h] \notin ClEnding
         /\ Releasing(c) <=> pc[h] \in ClEnding
         /\ Releasing(c)' <=> pc'[h] \in ClEnding
<1>1. ClHolding \cap Beginnings = {} /\ ClEnding \cap Beginnings = {}
  BY DEF ClHolding, ClEnding, Beginnings
<1>2. /\ \A g \in Handlers : g # h => ~On(g, ClHolding, c) /\ ~On(g, ClHolding, c)'
      /\ On(h, ClHolding, c) <=> pc[h] \in ClHolding
      /\ On(h, ClHolding, c)' <=> pc'[h] \in ClHolding
  BY <1>1, OnStep
<1>3. /\ \A g \in Handlers : g # h => ~On(g, ClEnding, c) /\ ~On(g, ClEnding, c)'
      /\ On(h, ClEnding, c) <=> pc[h] \in ClEnding
      /\ On(h, ClEnding, c)' <=> pc'[h] \in ClEnding
  BY <1>1, OnStep
<1>5. ClusterHas(c, x) <=>
        \/ \E g \in Handlers : On(g, ClHolding, c) /\ x \in Range(job[g].ips)
        \/ c \in ClusterRecords /\ x \in Range(clusterDir[c].ips) /\ \A g \in Handlers : ~On(g, ClEnding, c)
  BY DEF ClusterHas
<1>6. ClusterHas(c, x)' <=>
        \/ \E g \in Handlers : On(g, ClHolding, c)' /\ x \in Range(job'[g].ips)
        \/ c \in ClusterRecords' /\ x \in Range(clusterDir'[c].ips) /\ \A g \in Handlers : ~On(g, ClEnding, c)'
  BY DEF ClusterHas
<1>8. /\ Releasing(c) <=> pc[h] \in ClEnding
      /\ Releasing(c)' <=> pc'[h] \in ClEnding
  BY <1>3 DEF Releasing
<1>9. QED
  BY <1>2, <1>3, <1>5, <1>6, <1>8

\* A VM's step takes an address for its name, gives back the one its name has, or leaves
\* everybody what they have.
VmTakes(n) ==
  /\ AllocateIp(n) /\ UNCHANGED vms
  /\ \A x : ~VmHas(n, x)
  /\ \A x : VmHas(n, x)' <=> x = AddressFor(n)
VmGivesBack(n, y) ==
  /\ ReleaseIp(y) /\ UNCHANGED vms
  /\ \A x : VmHas(n, x) <=> x = y
  /\ \A x : ~VmHas(n, x)'
LEMMA VmClaims ==
  ASSUME TypeInv, AloneInv, DirsInv, Tidy', NEW h \in Handlers, VmStep(h)
  PROVE  \/ /\ UNCHANGED pool
            /\ \A n \in VmNames : \A x : VmHas(n, x)' <=> VmHas(n, x)
         \/ \E n \in VmNames :
              /\ VmTakes(n) \/ \E y \in BlockIps : VmGivesBack(n, y)
              /\ \A m \in VmNames : m # n => \A x : VmHas(m, x)' <=> VmHas(m, x)
<1>0. JobsInv /\ VmInv
  BY DEF TypeInv
<1>1. ASSUME NEW m \in VmNames, NEW x, pc[h] = "idle" \/ m # Name(h)
      PROVE  VmHas(m, x)' <=> VmHas(m, x)
  BY <1>0, <1>1, VmFrame, VmHasSame DEF SameVm
<1>2. CASE pc[h] = "idle"
  <2>1. VmBegins(h)
    BY <1>0, <1>2, VmMoves DEF VmSteps
  <2>2. QED
    BY <1>1, <1>2, <2>1 DEF VmBegins, pool
<1>3. CASE pc[h] # "idle"
  <2>1. pc[h] \in VmSteps /\ Name(h) \in VmNames /\ VmAt(h)
    BY <1>0, <1>3, VmStepIs, Holds DEF DirsInv
  <2>2. PICK n \in VmNames : n = Name(h)
    BY <2>1
  <2>3. \A m \in VmNames : m # n => \A x : VmHas(m, x)' <=> VmHas(m, x)
    BY <1>1, <2>2
  <2>4. ASSUME NEW x
        PROVE  /\ VmHas(n, x) <=> \/ pc[h] \in VmHolding /\ job[h].ips[1] = x
                                  \/ n \in VmRecords /\ vmDir[n].ip = x /\ pc[h] \notin VmEnding
               /\ VmHas(n, x)' <=> \/ pc'[h] \in VmHolding /\ job'[h].ips[1] = x
                                   \/ n \in VmRecords' /\ vmDir'[n].ip = x /\ pc'[h] \notin VmEnding
    BY <1>0, <1>3, <2>2, VmHasMine
  <2>5. /\ vmDir[n] \in {NoDir, Bare} => n \notin VmRecords
        /\ vmDir'[n] \in {NoDir, Bare} => n \notin VmRecords'
        /\ vmDir'[n] = vmDir[n] => (n \in VmRecords' <=> n \in VmRecords)
    BY DEF VmRecords
  <2>6. SUFFICES \/ UNCHANGED pool /\ \A x : VmHas(n, x)' <=> VmHas(n, x)
                 \/ VmTakes(n) \/ \E y \in BlockIps : VmGivesBack(n, y)
    BY <2>3
  <2>7. CASE pc[h] = "vm-test"
    <3>1. /\ UNCHANGED pool /\ vmDir' = vmDir
          /\ pc'[h] \in {"vm-allocate", "idle", "vm-test"}
      BY <1>3, <2>1, <2>2, <2>7, VmEffects DEF vms
    <3>2. QED
      BY <2>4, <2>5, <2>7, <3>1 DEF VmHolding, VmEnding
  <2>8. CASE pc[h] = "vm-allocate"
    <3>1. /\ UNCHANGED vms /\ vmDir[n] = NoDir
          /\ \/ AllocateIp(n) /\ pc'[h] = "vm-mkdir" /\ job'[h].ips = << AddressFor(n) >>
             \/ UNCHANGED pool /\ pc'[h] \in {"idle", "vm-test"}
      BY <1>3, <2>1, <2>2, <2>8, VmEffects
    <3>2. /\ n \notin VmRecords /\ n \notin VmRecords'
          /\ pc[h] \notin VmHolding
      BY <2>5, <2>8, <3>1 DEF vms, VmHolding
    <3>3. \A x : ~VmHas(n, x)
      BY <2>4, <3>2
    <3>4. CASE AllocateIp(n) /\ pc'[h] = "vm-mkdir" /\ job'[h].ips = << AddressFor(n) >>
      <4>1. job'[h].ips[1] = AddressFor(n) /\ pc'[h] \in VmHolding
        BY <3>4 DEF VmHolding
      <4>2. \A x : VmHas(n, x)' <=> x = AddressFor(n)
        BY <2>4, <3>2, <4>1
      <4>3. QED
        BY <3>1, <3>3, <3>4, <4>2 DEF VmTakes
    <3>5. CASE UNCHANGED pool /\ pc'[h] \in {"idle", "vm-test"}
      BY <2>4, <3>2, <3>3, <3>5 DEF VmHolding
    <3>6. QED
      BY <3>1, <3>4, <3>5
  <2>9. CASE pc[h] = "vm-mkdir"
    <3>1. /\ UNCHANGED pool /\ vmDir[n] = NoDir /\ vmDir'[n] = Bare
          /\ pc'[h] = "vm-prepare" /\ job'[h] = job[h]
      BY <1>3, <2>1, <2>2, <2>9, VmEffects
    <3>2. QED
      BY <2>4, <2>5, <2>9, <3>1 DEF VmHolding
  <2>10. CASE pc[h] = "vm-prepare"
    <3> DEFINE d == [status |-> "creating", ip |-> job[h].ips[1]]
    <3>1. /\ UNCHANGED pool /\ vmDir[n] = Bare /\ job'[h] = job[h]
          /\ \/ vmDir'[n] = d /\ pc'[h] \in {"vm-apply", "vm-return"}
             \/ vmDir'[n] = Bare /\ pc'[h] = "vm-return"
      BY <1>3, <2>1, <2>2, <2>10, VmEffects
    <3>2. job[h].ips[1] \in BlockIps
      BY <1>0, <2>10, Holds DEF HasIps
    <3>3. d \in BlockVm /\ d.ip = job[h].ips[1]
      BY <3>2 DEF BlockVm, VmStatus
    <3>4. d \notin {NoDir, Bare}
      BY <1>0, <3>3, Records
    <3> HIDE DEF d
    <3>5. pc'[h] = "vm-apply" => n \in VmRecords' /\ vmDir'[n].ip = job[h].ips[1]
      BY <3>1, <3>3, <3>4 DEF VmRecords
    <3>6. n \notin VmRecords
      BY <2>5, <3>1
    <3>7. pc'[h] = "vm-apply" \/ pc'[h] = "vm-return"
      BY <3>1
    <3>8. \A x : VmHas(n, x) <=> job[h].ips[1] = x
      BY <2>4, <2>10, <3>6 DEF VmHolding
    <3>9. \A x : VmHas(n, x)' <=> job[h].ips[1] = x
      BY <2>4, <3>1, <3>5, <3>7 DEF VmHolding, VmEnding
    <3>10. QED
      BY <3>1, <3>8, <3>9
  <2>11. CASE pc[h] \in {"vm-apply", "vm-running", "vm-failed"}
    <3>1. /\ UNCHANGED pool
          /\ pc'[h] \in {"vm-running", "vm-failed", "idle", "vm-test"}
      BY <1>3, <2>1, <2>2, <2>11, VmEffects
    <3>2. n \in VmRecords /\ vmDir[n].ip = job[h].ips[1]
      BY <1>3, <2>1, <2>2, <2>11, VmEffects
    <3>3. pc[h] \in {"vm-running", "vm-failed"} => n \in VmRecords' /\ vmDir'[n].ip = job[h].ips[1]
      BY <1>3, <2>1, <2>2, VmEffects
    <3>4. pc[h] = "vm-apply" => vmDir' = vmDir
      BY <1>3, <2>1, <2>2, VmEffects
    <3>5. n \in VmRecords' /\ vmDir'[n].ip = vmDir[n].ip
      BY <2>5, <2>11, <3>2, <3>3, <3>4
    <3>6. pc[h] \notin VmHolding \cup VmEnding /\ pc'[h] \notin VmHolding \cup VmEnding
      BY <2>11, <3>1 DEF VmHolding, VmEnding
    <3>7. QED
      BY <2>4, <3>1, <3>2, <3>5, <3>6
  <2>12. CASE pc[h] \in {"vm-find", "vm-mark"}
    <3>1. UNCHANGED pool /\ n \in VmRecords /\ pc'[h] \in {"vm-mark", "vm-destroy"}
      BY <1>3, <2>1, <2>2, <2>12, VmEffects
    <3>2. n \in VmRecords' /\ vmDir'[n].ip = vmDir[n].ip
      <4>1. pc[h] = "vm-find" => vmDir' = vmDir
        BY <1>3, <2>1, <2>2, VmEffects DEF vms
      <4>2. pc[h] = "vm-mark" => n \in VmRecords' /\ vmDir'[n].ip = vmDir[n].ip
        BY <1>3, <2>1, <2>2, VmEffects
      <4>3. QED
        BY <2>5, <2>12, <3>1, <4>1, <4>2
    <3>3. pc[h] \notin VmHolding \cup VmEnding /\ pc'[h] \notin VmHolding \cup VmEnding
      BY <2>12, <3>1 DEF VmHolding, VmEnding
    <3>4. QED
      BY <2>4, <3>1, <3>2, <3>3
  <2>13. CASE pc[h] = "vm-destroy"
    <3>1. /\ UNCHANGED pool /\ n \in VmRecords
          /\ job[h].ips = << vmDir[n].ip >> /\ pc'[h] = "vm-return" /\ job'[h] = job[h]
      BY <1>3, <2>1, <2>2, <2>13, VmEffects
    <3>2. job'[h].ips[1] = vmDir[n].ip
      BY <3>1
    <3>3. QED
      BY <2>4, <2>13, <3>1, <3>2 DEF VmHolding, VmEnding
  <2>14. CASE pc[h] = "vm-return"
    <3>1. UNCHANGED vms /\ ReleaseIp(job[h].ips[1]) /\ pc'[h] = "vm-remove"
      BY <1>3, <2>1, <2>2, <2>14, VmEffects
    <3>2. PICK y \in BlockIps : y = job[h].ips[1]
      BY <1>0, <2>14, Holds DEF HasIps
    <3>3. \A x : VmHas(n, x) <=> x = y
      BY <2>4, <2>14, <3>2 DEF VmHolding, VmEnding
    <3>4. \A x : ~VmHas(n, x)'
      BY <2>4, <3>1 DEF VmHolding, VmEnding
    <3>5. QED
      BY <3>1, <3>2, <3>3, <3>4 DEF VmGivesBack
  <2>15. CASE pc[h] = "vm-remove"
    <3>1. UNCHANGED pool /\ vmDir'[n] = NoDir /\ pc'[h] \in {"idle", "vm-test"}
      BY <1>3, <2>1, <2>2, <2>15, VmEffects
    <3>2. \A x : ~VmHas(n, x)
      BY <2>4, <2>15 DEF VmHolding, VmEnding
    <3>3. \A x : ~VmHas(n, x)'
      BY <2>4, <2>5, <3>1 DEF VmHolding
    <3>4. QED
      BY <3>1, <3>2, <3>3
  <2>16. QED
    BY <2>1, <2>7, <2>8, <2>9, <2>10, <2>11, <2>12, <2>13, <2>14, <2>15 DEF VmSteps
<1>4. QED
  BY <1>2, <1>3

\* It leaves clusters alone.
LEMMA VmLeavesClusters ==
  ASSUME TypeInv, AloneInv, NEW h \in Handlers, VmStep(h), UNCHANGED clusters, NEW c \in Clusters, NEW x
  PROVE  /\ ClusterHas(c, x)' <=> ClusterHas(c, x)
         /\ Releasing(c)' <=> Releasing(c)
<1>1. JobsInv
  BY DEF TypeInv
<1>2. pc[h] = "idle" \/ Name(h) \in VmNames
  BY <1>1, VmStepIs, Holds
<1>3. c \notin VmNames
  BY VmAssumption, ClusterAssumption
<1>4. QED
  BY <1>1, <1>2, <1>3, ClusterHasSame DEF clusters

\* A cluster's step takes an address for its next node, gives one back that it has, or
\* takes none; it loses one then only without writing a record.
ClTakes(c, node) ==
  /\ AllocateIp(node) /\ UNCHANGED clusters
  /\ \A x : ClusterHas(c, x)' <=> ClusterHas(c, x) \/ x = AddressFor(node)
ClGivesBack(c, y) ==
  /\ ReleaseIp(y) /\ UNCHANGED clusters /\ ClusterHas(c, y)
  /\ \A x : ClusterHas(c, x)' => ClusterHas(c, x)
  /\ \A x : ClusterHas(c, x) => x = y \/ ClusterHas(c, x)'
ClKeeps(c) ==
  /\ UNCHANGED pool
  /\ \A x : ClusterHas(c, x)' => ClusterHas(c, x)
  /\ \A x : ClusterHas(c, x) => ClusterHas(c, x)' \/ "manifest" \in faults'
LEMMA ClusterClaims ==
  ASSUME TypeInv, AloneInv, DirsInv, Tidy', NEW h \in Handlers, ClusterStep(h), pc[h] # "idle",
         NEW c \in Clusters, c = Name(h)
  PROVE  \/ ClKeeps(c)
         \/ pc[h] = "cl-allocate" /\ ClTakes(c, NodeOf(h))
         \/ pc[h] \in {"cl-undo", "cl-return"} /\ ClGivesBack(c, Head(job[h].ips))
<1>0. JobsInv /\ ClusterInv
  BY DEF TypeInv
<1>1. pc[h] \in ClusterSteps /\ ClusterAt(h)
  BY ClusterStepIs DEF DirsInv
<1>2. /\ \A x : ClusterHas(c, x) <=>
           \/ pc[h] \in ClHolding /\ x \in Range(job[h].ips)
           \/ c \in ClusterRecords /\ x \in Range(clusterDir[c].ips) /\ pc[h] \notin ClEnding
      /\ \A x : ClusterHas(c, x)' <=>
           \/ pc'[h] \in ClHolding /\ x \in Range(job'[h].ips)
           \/ c \in ClusterRecords' /\ x \in Range(clusterDir'[c].ips) /\ pc'[h] \notin ClEnding
  <2>1. SUFFICES ASSUME NEW x
        PROVE  /\ ClusterHas(c, x) <=>
                    \/ pc[h] \in ClHolding /\ x \in Range(job[h].ips)
                    \/ c \in ClusterRecords /\ x \in Range(clusterDir[c].ips) /\ pc[h] \notin ClEnding
               /\ ClusterHas(c, x)' <=>
                    \/ pc'[h] \in ClHolding /\ x \in Range(job'[h].ips)
                    \/ c \in ClusterRecords' /\ x \in Range(clusterDir'[c].ips) /\ pc'[h] \notin ClEnding
    OBVIOUS
  <2>2. QED
    BY <1>0, ClusterHasMine
<1>4. /\ clusterDir[c] \in {NoDir, Bare} => c \notin ClusterRecords
      /\ clusterDir'[c] \in {NoDir, Bare} => c \notin ClusterRecords'
      /\ UNCHANGED clusterDir => clusterDir'[c] = clusterDir[c] /\ (c \in ClusterRecords' <=> c \in ClusterRecords)
  BY DEF ClusterRecords
<1>5. \A x : x \notin Range(<< >>)
  BY DEF Range
<1>7. CASE pc[h] = "cl-test"
  <2>1. UNCHANGED pool /\ UNCHANGED clusterDir /\ pc'[h] \in {"cl-mkdir", "idle"}
    BY <1>1, <1>7, ClusterEffects DEF clusters
  <2>2. QED
    BY <1>2, <1>4, <1>7, <2>1 DEF ClKeeps, ClHolding, ClEnding
<1>8. CASE pc[h] = "cl-mkdir"
  <2>1. /\ UNCHANGED pool /\ clusterDir[c] = NoDir
        /\ \/ clusterDir' = clusterDir /\ pc'[h] = "idle"
           \/ clusterDir'[c] = Bare /\ pc'[h] = "cl-allocate" /\ job'[h] = job[h]
    BY <1>1, <1>8, ClusterEffects
  <2>2. job[h].ips = << >>
    BY <1>0, <1>8, Holds DEF NoIpsYet
  <2>3. c \notin ClusterRecords /\ c \notin ClusterRecords'
    BY <1>4, <2>1
  <2>4. \A x : ~ClusterHas(c, x) /\ ~ClusterHas(c, x)'
    BY <1>2, <1>5, <1>8, <2>1, <2>2, <2>3 DEF ClHolding
  <2>5. QED
    BY <2>1, <2>4 DEF ClKeeps
<1>9. CASE pc[h] = "cl-allocate"
  <2> DEFINE a == AddressFor(NodeOf(h))
  <2>1. /\ UNCHANGED clusters /\ clusterDir[c] = Bare
        /\ \/ /\ AllocateIp(NodeOf(h)) /\ pc'[h] \in {"cl-manifest", "cl-allocate"}
              /\ job'[h].ips = Append(job[h].ips, a)
           \/ UNCHANGED pool /\ pc'[h] = "idle" /\ job[h].ips = << >>
           \/ UNCHANGED pool /\ pc'[h] = "cl-undo" /\ job'[h] = job[h]
    BY <1>1, <1>9, ClusterEffects
  <2>2. c \notin ClusterRecords /\ c \notin ClusterRecords' /\ clusterDir'[c] = Bare
    BY <1>4, <1>9, <2>1 DEF clusters
  <2>3. \A x : ClusterHas(c, x) <=> x \in Range(job[h].ips)
    BY <1>2, <1>9, <2>2 DEF ClHolding
  <2>4. CASE AllocateIp(NodeOf(h)) /\ pc'[h] \in {"cl-manifest", "cl-allocate"}
             /\ job'[h].ips = Append(job[h].ips, a)
    <3>1. NodeOf(h) \in Names /\ job[h].ips \in Seq(BlockIps)
      BY <1>0, <1>9, NextNode DEF NodeOf
    <3>2. a \in BlockIps
      BY <2>4, <3>1, AllocateIpKeeps DEF TypeInv
    <3> HIDE DEF a
    <3>3. Range(Append(job[h].ips, a)) = Range(job[h].ips) \cup {a}
      BY <3>1, <3>2, AppendRange
    <3>4. \A x : ClusterHas(c, x)' <=> x \in Range(job[h].ips) \/ x = a
      BY <1>2, <2>2, <2>4, <3>3 DEF ClHolding
    <3>5. QED
      BY <1>9, <2>1, <2>2, <2>3, <2>4, <3>4 DEF ClTakes, a
  <2>5. CASE UNCHANGED pool /\ pc'[h] = "idle" /\ job[h].ips = << >>
    <3>1. \A x : ~ClusterHas(c, x) /\ ~ClusterHas(c, x)'
      BY <1>2, <1>5, <2>2, <2>3, <2>5 DEF ClHolding
    <3>2. QED
      BY <2>2, <2>5, <3>1 DEF ClKeeps
  <2>6. CASE UNCHANGED pool /\ pc'[h] = "cl-undo" /\ job'[h] = job[h]
    <3>1. \A x : ClusterHas(c, x)' <=> x \in Range(job[h].ips)
      BY <1>2, <2>2, <2>6 DEF ClHolding
    <3>2. QED
      BY <2>2, <2>3, <2>6, <3>1 DEF ClKeeps
  <2>7. QED
    BY <2>1, <2>4, <2>5, <2>6
<1>10. ASSUME pc[h] \in {"cl-undo", "cl-return"}, ReleaseIp(Head(job[h].ips)), UNCHANGED clusters,
              \A x : ClusterHas(c, x) <=> x \in Range(job[h].ips),
              \/ /\ job'[h].ips = Tail(job[h].ips)
                 /\ \A x : ClusterHas(c, x)' <=> x \in Range(job'[h].ips)
              \/ /\ Len(job[h].ips) = 1
                 /\ \A x : ~ClusterHas(c, x)'
       PROVE  ClGivesBack(c, Head(job[h].ips))
  <2> DEFINE s == job[h].ips
  <2>1. s \in Seq(BlockIps) /\ s # << >>
    BY <1>0, <1>10, Holds DEF HasIps
  <2>2. Head(s) \in Range(s)
    BY <2>1, Parts
  <2>3. Range(Tail(s)) \subseteq Range(s) /\ Range(s) \subseteq Range(Tail(s)) \cup {Head(s)}
        /\ (Len(s) = 1 => Range(s) = {Head(s)})
    BY <2>1, TailRange
  <2> HIDE DEF s
  <2>4. ClusterHas(c, Head(s))
    BY <1>10, <2>2 DEF s
  <2>5. \A x : ClusterHas(c, x)' => ClusterHas(c, x)
    BY <1>10, <2>3 DEF s
  <2>6. \A x : ClusterHas(c, x) => x = Head(s) \/ ClusterHas(c, x)'
    BY <1>10, <2>3 DEF s
  <2>7. QED
    BY <1>10, <2>4, <2>5, <2>6 DEF ClGivesBack, s
<1>11. CASE pc[h] = "cl-undo"
  <2>1. /\ UNCHANGED clusters /\ clusterDir[c] = Bare /\ ReleaseIp(Head(job[h].ips))
        /\ \/ pc'[h] = "cl-undo" /\ job'[h].ips = Tail(job[h].ips)
           \/ pc'[h] = "idle" /\ Len(job[h].ips) = 1
    BY <1>1, <1>11, ClusterEffects
  <2>2. c \notin ClusterRecords /\ c \notin ClusterRecords'
    BY <1>4, <1>11, <2>1 DEF clusters
  <2>3. \A x : ClusterHas(c, x) <=> x \in Range(job[h].ips)
    BY <1>2, <1>11, <2>2 DEF ClHolding
  <2>4. /\ pc'[h] = "cl-undo" => \A x : ClusterHas(c, x)' <=> x \in Range(job'[h].ips)
        /\ pc'[h] = "idle" => \A x : ~ClusterHas(c, x)'
    BY <1>2, <2>2 DEF ClHolding
  <2>5. QED
    BY <1>10, <1>11, <2>1, <2>2, <2>3, <2>4
<1>12. CASE pc[h] = "cl-manifest"
  <2>1. /\ UNCHANGED pool /\ clusterDir[c] = Bare
        /\ \/ /\ c \in ClusterRecords' /\ clusterDir'[c].ips = job[h].ips
              /\ pc'[h] = "cl-apply" /\ job'[h] = job[h]
           \/ UNCHANGED clusterDir /\ pc'[h] = "idle" /\ "manifest" \in faults'
    BY <1>1, <1>12, ClusterEffects
  <2>2. c \notin ClusterRecords
    BY <1>4, <1>12, <2>1
  <2>3. \A x : ClusterHas(c, x) <=> x \in Range(job[h].ips)
    BY <1>2, <1>12, <2>2 DEF ClHolding
  <2>4. CASE /\ c \in ClusterRecords' /\ clusterDir'[c].ips = job[h].ips
             /\ pc'[h] = "cl-apply" /\ job'[h] = job[h]
    <3>1. \A x : ClusterHas(c, x)' <=> x \in Range(job[h].ips)
      BY <1>2, <2>4 DEF ClHolding, ClEnding
    <3>2. QED
      BY <2>1, <2>2, <2>3, <3>1 DEF ClKeeps
  <2>5. CASE UNCHANGED clusterDir /\ pc'[h] = "idle" /\ "manifest" \in faults'
    <3>1. c \notin ClusterRecords'
      BY <1>4, <2>1, <2>5
    <3>2. \A x : ~ClusterHas(c, x)'
      BY <1>2, <2>5, <3>1 DEF ClHolding
    <3>3. QED
      BY <2>1, <2>5, <3>2 DEF ClKeeps
  <2>6. QED
    BY <2>1, <2>4, <2>5
<1>13. CASE pc[h] \in {"cl-apply", "cl-applied", "cl-failed", "cl-delete"}
  <2>1. /\ UNCHANGED pool /\ c \in ClusterRecords /\ c \in ClusterRecords'
        /\ clusterDir'[c].ips = clusterDir[c].ips
        /\ pc'[h] \in {"cl-applied", "cl-failed", "idle", "cl-read"}
    <3>1. CASE pc[h] \in {"cl-apply", "cl-delete"}
      <4>1. /\ UNCHANGED << pool, clusterDir >> /\ c \in ClusterRecords
            /\ pc'[h] \in {"cl-applied", "cl-failed", "idle", "cl-read"}
        BY <1>1, <3>1, ClusterEffects
      <4>2. QED
        BY <1>4, <4>1
    <3>2. CASE pc[h] \in {"cl-applied", "cl-failed"}
      BY <1>1, <3>2, ClusterEffects
    <3>3. QED
      BY <1>13, <3>1, <3>2
  <2>3. QED
    BY <1>2, <1>13, <2>1 DEF ClKeeps, ClHolding, ClEnding
<1>14. CASE pc[h] = "cl-read"
  <2>1. /\ UNCHANGED pool /\ UNCHANGED clusterDir /\ c \in ClusterRecords
        /\ job'[h].ips = clusterDir[c].ips
        /\ \/ pc'[h] = "cl-remove" /\ clusterDir[c].ips = << >>
           \/ pc'[h] = "cl-return"
    BY <1>1, <1>14, ClusterEffects DEF clusters
  <2>3. \A x : ClusterHas(c, x) <=> x \in Range(clusterDir[c].ips)
    BY <1>2, <1>14, <2>1 DEF ClHolding, ClEnding
  <2>4. /\ pc'[h] = "cl-remove" => \A x : ~ClusterHas(c, x)'
        /\ pc'[h] = "cl-return" => \A x : ClusterHas(c, x)' <=> x \in Range(job'[h].ips)
    BY <1>2 DEF ClHolding, ClEnding
  <2>5. QED
    BY <1>5, <2>1, <2>3, <2>4 DEF ClKeeps
<1>15. CASE pc[h] = "cl-return"
  <2>1. /\ UNCHANGED clusters /\ c \in ClusterRecords /\ ReleaseIp(Head(job[h].ips))
        /\ \/ pc'[h] = "cl-return" /\ job'[h].ips = Tail(job[h].ips)
           \/ pc'[h] = "cl-remove" /\ Len(job[h].ips) = 1
    BY <1>1, <1>15, ClusterEffects
  <2>3. \A x : ClusterHas(c, x) <=> x \in Range(job[h].ips)
    BY <1>2, <1>15 DEF ClHolding, ClEnding
  <2>4. /\ pc'[h] = "cl-return" => \A x : ClusterHas(c, x)' <=> x \in Range(job'[h].ips)
        /\ pc'[h] = "cl-remove" => \A x : ~ClusterHas(c, x)'
    BY <1>2 DEF ClHolding, ClEnding
  <2>5. QED
    BY <1>10, <1>15, <2>1, <2>3, <2>4
<1>16. CASE pc[h] = "cl-remove"
  <2>1. UNCHANGED pool /\ clusterDir'[c] = NoDir /\ pc'[h] = "idle"
    BY <1>1, <1>16, ClusterEffects
  <2>2. c \in ClusterRecords
    BY <1>1, <1>16 DEF ClusterAt
  <2>3. c \notin ClusterRecords'
    BY <1>4, <2>1
  <2>4. \A x : ~ClusterHas(c, x)
    BY <1>2, <1>16 DEF ClHolding, ClEnding
  <2>5. \A x : ~ClusterHas(c, x)'
    BY <1>2, <2>1, <2>3 DEF ClHolding
  <2>6. QED
    BY <2>1, <2>4, <2>5 DEF ClKeeps
<1>17. QED
  BY <1>1, <1>7, <1>8, <1>9, <1>11, <1>12, <1>13, <1>14, <1>15, <1>16 DEF ClusterSteps

\* It leaves VMs and other clusters alone.
LEMMA ClusterLeaves ==
  ASSUME TypeInv, AloneInv, NEW h \in Handlers, ClusterStep(h), UNCHANGED vms, NEW x
  PROVE  /\ \A n \in VmNames : VmHas(n, x)' <=> VmHas(n, x)
         /\ \A c \in Clusters : pc[h] = "idle" \/ c # Name(h) =>
              /\ clusterDir'[c] = clusterDir[c] /\ nodeIps'[c] = nodeIps[c]
              /\ ClusterHas(c, x)' <=> ClusterHas(c, x)
              /\ Releasing(c)' <=> Releasing(c)
<1>1. JobsInv
  BY DEF TypeInv
<1>2. pc[h] = "idle" \/ Name(h) \in Clusters
  BY <1>1, ClusterStepIs, Holds
<1>3. \A n \in VmNames : n \notin Clusters
  BY VmAssumption, ClusterAssumption
<1>4. ASSUME NEW n \in VmNames PROVE VmHas(n, x)' <=> VmHas(n, x)
  BY <1>1, <1>2, <1>3, VmHasSame DEF vms
<1>5. ASSUME NEW c \in Clusters, pc[h] = "idle" \/ c # Name(h)
      PROVE  /\ clusterDir'[c] = clusterDir[c] /\ nodeIps'[c] = nodeIps[c]
             /\ ClusterHas(c, x)' <=> ClusterHas(c, x)
             /\ Releasing(c)' <=> Releasing(c)
  <2>1. SameCluster(c)
    BY <1>5, ClusterFrame
  <2>2. QED
    BY <1>1, <1>5, <2>1, ClusterHasSame DEF SameCluster
<1>6. QED
  BY <1>4, <1>5

-----------------------------------------------------------------------------
(* Every lease can be found again. *)

LEMMA TrackedStays ==
  ASSUME NEW n, NEW x, Tracked(n, x),
         n \in VmNames /\ VmHas(n, x) => VmHas(n, x)',
         \A c \in Clusters : ClusterHas(c, x) => ClusterHas(c, x)'
  PROVE  Tracked(n, x)'
  BY DEF Tracked

\* Unless it times out, release-ip removes the line.
LEMMA Released ==
  ASSUME "timeout" \notin faults', NEW y, ReleaseIp(y), NEW n \in Names, NEW x \in BlockIps, lease'[n] = x
  PROVE  lease[n] = x /\ x # y
<1>1. lease' = [m \in Names |-> IF lease[m] = y THEN NoIp ELSE lease[m]]
  BY DEF ReleaseIp, Fault
<1>2. x # NoIp
  BY BlockNumbers
<1>3. QED
  BY <1>1, <1>2

LEMMA VmTracks ==
  ASSUME TypeInv, AloneInv, DirsInv, TrackedInv, faults' \cap Untracked = {},
         NEW h \in Handlers, VmStep(h), UNCHANGED clusters,
         NEW n \in Names, NEW x \in BlockIps, lease'[n] = x
  PROVE  Tracked(n, x)'
<1>1. \A c \in Clusters : ClusterHas(c, x) => ClusterHas(c, x)'
  BY VmLeavesClusters
<1>2. lease[n] = x => Tracked(n, x)
  BY DEF TrackedInv
<1>3. CASE UNCHANGED pool /\ \A m \in VmNames : \A z : VmHas(m, z)' <=> VmHas(m, z)
  <2>1. lease[n] = x
    BY <1>3 DEF pool
  <2>2. n \in VmNames /\ VmHas(n, x) => VmHas(n, x)'
    BY <1>3
  <2>3. QED
    BY <1>1, <1>2, <2>1, <2>2, TrackedStays
<1>4. ASSUME NEW k \in VmNames, VmTakes(k), \A m \in VmNames : m # k => \A z : VmHas(m, z)' <=> VmHas(m, z)
      PROVE  Tracked(n, x)'
  <2>1. lease' = [lease EXCEPT ![k] = AddressFor(k)] /\ k \in Names
    BY <1>4, VmAssumption DEF VmTakes, AllocateIp
  <2>2. CASE n = k
    <3>1. x = AddressFor(k)
      BY <2>1, <2>2 DEF TypeInv, PoolInv
    <3>2. VmHas(n, x)'
      BY <1>4, <2>2, <3>1 DEF VmTakes
    <3>3. QED
      BY <1>4, <2>2, <3>2 DEF Tracked
  <2>3. CASE n # k
    <3>1. lease[n] = x
      BY <2>1, <2>3 DEF TypeInv, PoolInv
    <3>2. n \in VmNames /\ VmHas(n, x) => VmHas(n, x)'
      BY <1>4, <2>3
    <3>3. QED
      BY <1>1, <1>2, <3>1, <3>2, TrackedStays
  <2>4. QED
    BY <2>2, <2>3
<1>5. ASSUME NEW k \in VmNames, NEW y \in BlockIps, VmGivesBack(k, y),
             \A m \in VmNames : m # k => \A z : VmHas(m, z)' <=> VmHas(m, z)
      PROVE  Tracked(n, x)'
  <2>1. lease[n] = x /\ x # y
    BY <1>5, Released DEF VmGivesBack, Untracked
  <2>2. n \in VmNames /\ VmHas(n, x) => VmHas(n, x)'
    BY <1>5, <2>1 DEF VmGivesBack
  <2>3. QED
    BY <1>1, <1>2, <2>1, <2>2, TrackedStays
<1>6. QED
  BY <1>3, <1>4, <1>5, VmClaims DEF Untracked, Tidy

LEMMA ClusterTracks ==
  ASSUME TypeInv, AloneInv, DirsInv, TrackedInv, faults' \cap Untracked = {},
         NEW h \in Handlers, ClusterStep(h), UNCHANGED vms,
         NEW n \in Names, NEW x \in BlockIps, lease'[n] = x
  PROVE  Tracked(n, x)'
<1>1. /\ \A m \in VmNames : VmHas(m, x) => VmHas(m, x)'
      /\ \A c \in Clusters : pc[h] = "idle" \/ c # Name(h) =>
           (ClusterHas(c, x) => ClusterHas(c, x)')
  BY ClusterLeaves
<1>2. lease[n] = x => Tracked(n, x)
  BY DEF TrackedInv
<1>3. CASE pc[h] = "idle"
  <2>1. UNCHANGED pool
    BY <1>3, ClMoves DEF ClBegins, TypeInv, ClusterSteps
  <2>2. lease[n] = x
    BY <2>1 DEF pool
  <2>3. QED
    BY <1>1, <1>2, <1>3, <2>2, TrackedStays
<1>4. CASE pc[h] # "idle"
  <2>1. Name(h) \in Clusters
    BY <1>4, ClusterStepIs, Holds DEF TypeInv
  <2>2. PICK c \in Clusters : c = Name(h)
    BY <2>1
  <2>3. \/ ClKeeps(c)
        \/ pc[h] = "cl-allocate" /\ ClTakes(c, NodeOf(h))
        \/ ClGivesBack(c, Head(job[h].ips))
    BY <1>4, <2>2, ClusterClaims DEF Untracked, Tidy
  <2>4. ASSUME lease[n] = x, ClusterHas(c, x) => ClusterHas(c, x)'
        PROVE  Tracked(n, x)'
    <3>1. ASSUME NEW d \in Clusters
          PROVE  ClusterHas(d, x) => ClusterHas(d, x)'
      <4>1. CASE d = c
        BY <2>3, <2>4, <4>1
      <4>2. CASE d # c
        BY <1>1, <2>2, <4>2
      <4>3. QED
        BY <4>1, <4>2
    <3>2. QED
      BY <1>1, <1>2, <2>4, <3>1, TrackedStays
  <2>5. CASE ClKeeps(c)
    BY <2>4, <2>5 DEF ClKeeps, pool, Untracked
  <2>6. CASE pc[h] = "cl-allocate" /\ ClTakes(c, NodeOf(h))
    <3>1. NodeOf(h) \in Names /\ NodeOf(h) \in Range(Nodes[c])
      <4>1. /\ Len(job[h].ips) + 1 \in 1 .. Len(Nodes[c])
            /\ Nodes[c] \in Seq(Names) /\ NodeOf(h) = Nodes[c][Len(job[h].ips) + 1]
            /\ NodeOf(h) \in Names
        BY <2>2, <2>6, NextNode, ClusterAssumption DEF TypeInv, NodeOf
      <4>2. QED
        BY <4>1, RangeIs
    <3>2. PICK node \in Names : node = NodeOf(h)
      BY <3>1
    <3>3. lease' = [lease EXCEPT ![node] = AddressFor(node)]
      BY <2>6, <3>2 DEF ClTakes, AllocateIp
    <3>4. CASE n = node
      <4>1. x = AddressFor(node)
        BY <3>3, <3>4 DEF TypeInv, PoolInv
      <4>2. ClusterHas(c, x)'
        BY <2>6, <3>2, <4>1 DEF ClTakes
      <4>3. QED
        BY <3>1, <3>2, <3>4, <4>2 DEF Tracked
    <3>5. CASE n # node
      <4>1. lease[n] = x
        BY <3>3, <3>5 DEF TypeInv, PoolInv
      <4>2. QED
        BY <2>4, <2>6, <4>1 DEF ClTakes
    <3>6. QED
      BY <3>4, <3>5
  <2>7. CASE ClGivesBack(c, Head(job[h].ips))
    <3>1. lease[n] = x /\ x # Head(job[h].ips)
      BY <2>7, Released DEF ClGivesBack, Untracked
    <3>2. QED
      BY <2>4, <2>7, <3>1 DEF ClGivesBack
  <2>8. QED
    BY <2>3, <2>5, <2>6, <2>7
<1>5. QED
  BY <1>3, <1>4

\* A user without VM directories and clusters, for whom no request works, has no leases.
LEMMA NothingTracked ==
  ASSUME TypeInv, TrackedInv, Idle, VmDirs = {}, ~HasClusters
  PROVE  Leased = {}
<1> SUFFICES ASSUME NEW n \in Leased PROVE FALSE
  OBVIOUS
<1>1. PICK x \in BlockIps : lease[n] = x
  BY DEF TypeInv, PoolInv, Leased
<1>2. Tracked(n, x)
  BY <1>1 DEF TrackedInv, Leased
<1>3. \A S, m : ("idle" \notin S) => \A h \in Handlers : ~On(h, S, m)
  BY DEF Idle, On
<1>4. ~(n \in VmNames /\ VmHas(n, x))
  BY <1>3 DEF VmHas, VmHolding, VmRecords, VmDirs
<1>5. ASSUME NEW c \in Clusters PROVE ~ClusterHas(c, x)
  <2>1. clusterDir[c] = NoDir
    BY DEF HasClusters
  <2>2. QED
    BY <1>3, <2>1 DEF ClusterHas, ClHolding, ClusterRecords
<1>6. QED
  BY <1>2, <1>4, <1>5 DEF Tracked

\* An account that is gone has nothing left that a request could begin with.
LEMMA NoAccountNoStep ==
  ASSUME JobsInv, NEW h \in Handlers, pc[h] = "idle", ~account, VmRecords = {}
  PROVE  ~VmStep(h) /\ ~ClusterStep(h)
<1>1. ~VmStep(h)
  BY DEF VmStep, ApiCreateVM, VmTest, VmAllocate, VmMkdir, VmPrepare, VmApply, VmReport, ApiDeleteVM,
     VmFind, VmMark, VmDestroy, VmReturn, VmRemove
<1>2. ~ClusterStep(h)
  BY DEF ClusterStep, ApiCreateCluster, ClTest, ClMkdir, ClAllocate, ClUndo, ClManifest, ClApply, ClMark,
     ApiDeleteCluster, ClDelete, ClRead, ClReturn, ClRelease, ClRemove
<1>3. QED
  BY <1>1, <1>2

\* What everybody has depends on the requests and the directories.
LEMMA HasSame ==
  ASSUME UNCHANGED << vmDir, clusterDir, pc, job >>, NEW n, NEW x
  PROVE  /\ VmHas(n, x)' <=> VmHas(n, x)
         /\ ClusterHas(n, x)' <=> ClusterHas(n, x)
         /\ Releasing(n)' <=> Releasing(n)
<1>1. ASSUME NEW S, NEW m, NEW h PROVE On(h, S, m)' <=> On(h, S, m)
  BY DEF On, Name
<1>2. VmRecords' = VmRecords /\ ClusterRecords' = ClusterRecords
  BY DEF VmRecords, ClusterRecords
<1>3. VmHas(n, x)' <=> VmHas(n, x)
  BY <1>1, <1>2 DEF VmHas
<1>4. ClusterHas(n, x)' <=> ClusterHas(n, x)
  BY <1>1, <1>2 DEF ClusterHas
<1>5. Releasing(n)' <=> Releasing(n)
  BY <1>1 DEF Releasing
<1>6. QED
  BY <1>3, <1>4, <1>5
LEMMA TrackedSame ==
  ASSUME UNCHANGED << vmDir, clusterDir, pc, job >>, NEW n, NEW x
  PROVE  Tracked(n, x)' <=> Tracked(n, x)
<1>1. VmHas(n, x)' <=> VmHas(n, x)
  BY HasSame
<1>2. ASSUME NEW c PROVE ClusterHas(c, x)' <=> ClusterHas(c, x)
  BY HasSame
<1>3. QED
  BY <1>1, <1>2 DEF Tracked

LEMMA TrackedKeeps ==
  ASSUME TypeInv, AdminInv, AloneInv, DirsInv, RunningInv, TrackedInv,
         faults' \cap Untracked = {}, [Next]_vars
  PROVE  TrackedInv'
<1>0. /\ JobsInv /\ "overlap" \notin faults' /\ "restart" \notin faults' /\ "orphan" \notin faults'
      /\ \A n \in Names : lease[n] # NoIp => lease[n] \in BlockIps
  BY DEF TypeInv, PoolInv, Untracked
<1>1. At("idle") <=> admin = NoTask
  BY DEF AdminInv
<1>2. ASSUME NEW h \in Handlers, VmStep(h) \/ ClusterStep(h), UNCHANGED users,
             \A n \in Names, x \in BlockIps : lease'[n] = x => Tracked(n, x)'
      PROVE  TrackedInv'
  <2>1. admin = NoTask /\ admin' = admin /\ account' = account
    BY <1>0, <1>2, StepsAlone DEF users
  <2>2. account
    BY <1>0, <1>2, NoAccountNoStep DEF TrackedInv
  <2>3. QED
    BY <1>2, <2>1, <2>2 DEF TrackedInv, NoTask, At
<1>3. ASSUME UNCHANGED << lease, vms, clusters, pc, job >>
      PROVE  /\ \A n \in Names, x \in BlockIps : lease'[n] = x => Tracked(n, x)'
             /\ Leased' = Leased /\ VmRecords' = VmRecords
  <2>1. ASSUME NEW n \in Names, NEW x \in BlockIps, lease'[n] = x PROVE Tracked(n, x)'
    <3>1. lease[n] = x
      BY <1>3, <2>1
    <3>2. Tracked(n, x)
      BY <3>1 DEF TrackedInv
    <3>3. QED
      BY <1>3, <3>2, TrackedSame DEF vms, clusters
  <2>2. QED
    BY <1>3, <2>1 DEF Leased, VmRecords, vms
<1>4. CASE AdminStep
  <2>1. UNCHANGED << pc, job >>
    BY <1>4, AdminJobs
  <2>2. CASE UserAdd \/ AllocateBlock \/ FolderByHand
    <3>1. UNCHANGED << lease, vms, clusters, admin >> /\ (account' = account \/ account')
      BY <2>2 DEF UserAdd, AllocateBlock, FolderByHand, users, pool
    <3>2. QED
      BY <1>3, <2>1, <3>1 DEF TrackedInv, At
  <2>3. CASE ~(UserAdd \/ AllocateBlock \/ FolderByHand)
    <3>1. Idle /\ \A h \in Handlers : pc'[h] = "idle"
      BY <1>0, <1>4, <2>1, <2>3, AdminAlone DEF Idle
    <3>2. ASSUME UNCHANGED << lease, vms, clusters, account >>,
                 (IF admin'.purge THEN admin'.step \in {"users", "data", "userdel"}
                  ELSE admin'.step # "idle") => Leased = {}
          PROVE  TrackedInv'
      BY <1>3, <2>1, <3>1, <3>2 DEF TrackedInv, At
    <3>3. CASE UserDelete \/ UserPurge
      <4>1. UNCHANGED << lease, vms, clusters, account >> /\ ~HasClusters
        BY <1>0, <3>3 DEF UserDelete, UserPurge, AdminBegins, Fault, pool
      <4>2. UserDelete => Leased = {}
        BY <3>1, <4>1, NothingTracked DEF UserDelete
      <4>3. UserPurge => admin'.purge /\ admin'.step = "confirm"
        BY DEF UserPurge, AdminBegins
      <4>4. QED
        BY <3>2, <3>3, <4>1, <4>2, <4>3
    <3>4. CASE Confirmed \/ DeleteFolder \/ FreeBlock \/ RemoveUserDir
      <4>1. UNCHANGED << lease, vms, clusters, account >> /\ admin'.purge = admin.purge /\ ~At("idle")
        BY <3>4 DEF Confirmed, DeleteFolder, FolderGone, FreeBlock, RemoveUserDir, AdminGoto, pool,
           TypeInv, UserTypeOK, At
      <4>2. admin'.step \in {"users", "data", "userdel"} => ~admin.purge \/ At("users")
        <5>1. \/ admin'.step \in {"folder", "destroy", "leases"}
              \/ admin'.step = (IF admin.purge THEN "block" ELSE "users")
              \/ At("users")
          BY <3>4 DEF Confirmed, DeleteFolder, FolderGone, FreeBlock, RemoveUserDir, AdminGoto,
             TypeInv, UserTypeOK
        <5>2. QED
          BY <5>1
      <4>3. QED
        BY <3>2, <4>1, <4>2 DEF TrackedInv, At
    <3>5. CASE PurgeVm
      <4>1. UNCHANGED << lease, vmDir, clusters, account >> /\ admin'.purge = admin.purge /\ At("destroy")
            /\ admin'.step \in {"destroy", "folder"}
        BY <3>5 DEF PurgeVm, pool, TypeInv, UserTypeOK, At
      <4>2. admin'.purge
        BY <4>1 DEF RunningInv, At
      <4>3. ASSUME NEW n \in Names, NEW x \in BlockIps, lease'[n] = x PROVE Tracked(n, x)'
        <5>1. lease[n] = x
          BY <4>1, <4>3
        <5>2. Tracked(n, x)
          BY <5>1 DEF TrackedInv
        <5>3. QED
          BY <2>1, <4>1, <5>2, TrackedSame DEF clusters
      <4>4. VmRecords' = VmRecords /\ Leased' = Leased
        BY <4>1 DEF VmRecords, Leased
      <4>5. QED
        BY <3>1, <4>1, <4>2, <4>3, <4>4 DEF TrackedInv
    <3>6. ASSUME Leased' = {}, account' PROVE TrackedInv'
      <4>1. \A n \in Names : lease'[n] = NoIp
        BY <3>6 DEF Leased
      <4>2. QED
        BY <3>6, <4>1, BlockNumbers DEF TrackedInv
    <3>7. CASE FreeLeases \/ RemoveData \/ RemoveDataFails
      <4>1. ~At("idle") /\ account' = account
        BY <3>7 DEF FreeLeases, RemoveData, RemoveDataFails, At
      <4>2. account'
        BY <4>1 DEF AdminInv
      <4>3. FreeLeases => Leased' = {}
        BY DEF FreeLeases, Leased
      <4>4. RemoveData \/ RemoveDataFails => Leased' = {}
        <5>1. RemoveData \/ RemoveDataFails => Leased = {} /\ lease' = lease
          BY DEF RemoveData, RemoveDataFails, TrackedInv, At, pool
        <5>2. QED
          BY <5>1 DEF Leased
      <4>5. QED
        BY <3>6, <3>7, <4>2, <4>3, <4>4
    <3>8. CASE Userdel
      <4>1. At("userdel") /\ admin' = NoTask /\ UNCHANGED << lease, vms, clusters >>
        BY <3>8 DEF Userdel, AdminEnds, pool
      <4>2. Leased = {} /\ VmRecords = {}
        BY <4>1 DEF TrackedInv, RunningInv, At, VmRecords, VmDirs
      <4>3. QED
        BY <1>3, <2>1, <3>1, <4>1, <4>2 DEF TrackedInv, At, NoTask
    <3>9. CASE AdminStops
      BY <3>2, <3>9 DEF AdminStops, AdminEnds, NoTask, pool
    <3>10. QED
      BY <1>4, <2>3, <3>3, <3>4, <3>5, <3>7, <3>8, <3>9 DEF AdminStep
  <2>4. QED
    BY <2>2, <2>3
<1>5. CASE UNCHANGED vars
  BY <1>3, <1>5 DEF vars, users, pool, TrackedInv, At
<1>6. CASE Restart
  <2>1. Idle
    BY <1>0, <1>6 DEF Restart, Fault, Idle
  <2>2. QED
    BY <1>5, <1>6, <2>1, IdleRestart
<1>7. QED
  <2>1. ASSUME NEW h \in Handlers, VmStep(h), UNCHANGED << clusters, users >> PROVE TrackedInv'
    BY <1>2, <2>1, VmTracks DEF clusters
  <2>2. ASSUME NEW h \in Handlers, ClusterStep(h), UNCHANGED << vms, users >> PROVE TrackedInv'
    BY <1>2, <2>2, ClusterTracks DEF vms
  <2>3. QED
    BY <1>4, <1>5, <1>6, <2>1, <2>2 DEF Next

-----------------------------------------------------------------------------
(* What is leased stays leased to the same name while somebody has it. *)

\* All leases stay but those of the addresses in S.
KeepsBut(S) == \A n \in Names, x \in BlockIps \ S : lease[n] = x => lease'[n] = x

LEMMA MatchesKeep ==
  ASSUME TypeInv, NEW S, KeepsBut(S)
  PROVE  /\ \A c \in Clusters, ips \in Seq(BlockIps) :
              Matches(c, ips) /\ Range(ips) \cap S = {} => Matches(c, ips)'
         /\ \A z \in LeasedIps \ S : z \in LeasedIps'
<1>1. ASSUME NEW c \in Clusters, NEW ips \in Seq(BlockIps), Matches(c, ips), Range(ips) \cap S = {}
      PROVE  Matches(c, ips)'
  <2>1. Nodes[c] \in Seq(Names) /\ Len(Nodes[c]) \in Nat /\ Len(ips) \in Nat
    BY ClusterAssumption, LenProperties
  <2>2. ASSUME NEW i \in 1 .. Len(ips) PROVE lease'[Nodes[c][i]] = ips[i]
    <3>1. i \in 1 .. Len(Nodes[c])
      BY <1>1, <2>1 DEF Matches
    <3>2. Nodes[c][i] \in Names /\ ips[i] \in BlockIps
      BY <2>1, <3>1, ElementOfSeq
    <3>3. ips[i] \notin S
      BY <1>1, RangeIs
    <3>4. lease[Nodes[c][i]] = ips[i]
      BY <1>1 DEF Matches
    <3>5. QED
      BY <3>2, <3>3, <3>4 DEF KeepsBut
  <2>3. QED
    BY <1>1, <2>2 DEF Matches
<1>2. ASSUME NEW z \in LeasedIps \ S PROVE z \in LeasedIps'
  <2>1. PICK n \in Leased : z = lease[n]
    BY DEF LeasedIps
  <2>2. n \in Names /\ z \in BlockIps
    BY <2>1 DEF Leased, TypeInv, PoolInv
  <2>3. lease'[n] = z /\ z # NoIp
    BY <2>1, <2>2, BlockNumbers DEF KeepsBut
  <2>4. QED
    BY <2>2, <2>3 DEF LeasedIps, Leased
<1>3. QED
  BY <1>1, <1>2

\* What the records and the requests have.
LEMMA ClusterHolds ==
  ASSUME TypeInv
  PROVE  /\ \A c \in ClusterRecords : ~Releasing(c) => \A z \in Range(clusterDir[c].ips) : ClusterHas(c, z)
         /\ \A g \in Handlers : pc[g] \in ClHolding => \A z \in Range(job[g].ips) : ClusterHas(Name(g), z)
<1>1. ASSUME NEW c \in ClusterRecords, ~Releasing(c), NEW z \in Range(clusterDir[c].ips)
      PROVE  ClusterHas(c, z)
  BY <1>1 DEF ClusterHas, Releasing
<1>2. ASSUME NEW g \in Handlers, pc[g] \in ClHolding, NEW z \in Range(job[g].ips)
      PROVE  ClusterHas(Name(g), z)
  <2>1. On(g, ClHolding, Name(g))
    BY <1>2 DEF On
  <2>2. QED
    BY <1>2, <2>1 DEF ClusterHas
<1>3. QED
  BY <1>1, <1>2

LEMMA RecordKeeps ==
  ASSUME TypeInv, NEW c \in Clusters, RecordAt(c), clusterDir'[c] = clusterDir[c],
         Releasing(c)' <=> Releasing(c), NEW S, KeepsBut(S), \A z \in S : ~ClusterHas(c, z)
  PROVE  RecordAt(c)'
<1>1. SUFFICES ASSUME c \in ClusterRecords, ~Releasing(c)
      PROVE  Matches(c, clusterDir[c].ips)' /\ Injective(clusterDir[c].ips)'
  BY DEF RecordAt, ClusterRecords
<1>2. clusterDir[c].ips \in Seq(BlockIps)
  BY <1>1, ClusterRecordsAre DEF TypeInv, BlockCluster
<1>3. PICK ips \in Seq(BlockIps) : ips = clusterDir[c].ips
  BY <1>2
<1>4. Matches(c, ips) /\ Injective(ips)
  BY <1>1, <1>3 DEF RecordAt
<1>5. Range(ips) \cap S = {}
  BY <1>1, <1>3, ClusterHolds
<1>6. Matches(c, ips)'
  BY <1>4, <1>5, MatchesKeep
<1>7. clusterDir'[c].ips = ips
  BY <1>3
<1>8. QED
  BY <1>4, <1>6, <1>7 DEF Matches, Injective

LEMMA HeldKeeps ==
  ASSUME TypeInv, NEW g \in Handlers, HeldAt(g), pc'[g] = pc[g], job'[g] = job[g],
         NEW S, KeepsBut(S), pc[g] \in ClHolding => \A z \in S : ~ClusterHas(Name(g), z)
  PROVE  HeldAt(g)'
<1>1. {"cl-allocate", "cl-manifest"} \subseteq ClHolding /\ ClHolding \subseteq ClusterSteps
  BY DEF ClHolding, ClusterSteps
<1>2. SUFFICES ASSUME pc[g] \in ClHolding PROVE HeldAt(g)'
  BY <1>1 DEF HeldAt
<1>3. Name(g) \in Clusters /\ job[g].ips \in Seq(BlockIps)
  BY <1>1, <1>2, Holds DEF TypeInv, ClusterSteps
<1>4. PICK c \in Clusters, ips \in Seq(BlockIps) : c = Name(g) /\ ips = job[g].ips
  BY <1>3
<1>5. Range(ips) \cap S = {}
  BY <1>2, <1>4, ClusterHolds
<1>6. /\ pc[g] \in {"cl-allocate", "cl-manifest"} => Matches(c, ips)'
      /\ Injective(ips) /\ Range(ips) \subseteq LeasedIps'
  BY <1>2, <1>4, <1>5, MatchesKeep DEF HeldAt
<1>7. job'[g].ips = ips /\ Head(job'[g].names) = c
  BY <1>4 DEF Name
<1>8. QED
  BY <1>6, <1>7 DEF HeldAt, Matches, Injective, Name

\* Whatever somebody has is leased.
LEMMA HasLeased ==
  ASSUME TypeInv, AddressInv
  PROVE  /\ \A c \in Clusters : \A x : ClusterHas(c, x) => x \in LeasedIps /\ x \in BlockIps
         /\ \A n \in VmNames : \A x : VmHas(n, x) =>
              /\ x \in BlockIps
              /\ ~(At("users") \/ At("data")) => lease[n] = x /\ n \in Leased /\ x \in LeasedIps
<1>0. \A z \in LeasedIps : z \in BlockIps
  BY DEF LeasedIps, Leased, TypeInv, PoolInv
<1>1. ASSUME NEW c \in Clusters, NEW x, ClusterHas(c, x) PROVE x \in LeasedIps
  <2>1. ASSUME NEW h \in Handlers, On(h, ClHolding, c), x \in Range(job[h].ips)
        PROVE  x \in LeasedIps
    BY <2>1 DEF AddressInv, HeldAt, On
  <2>2. ASSUME c \in ClusterRecords, x \in Range(clusterDir[c].ips),
               \A h \in Handlers : ~On(h, ClEnding, c)
        PROVE  x \in LeasedIps
    <3>1. clusterDir[c].ips \in Seq(BlockIps)
      BY <2>2, ClusterRecordsAre DEF TypeInv, BlockCluster
    <3>2. PICK i \in 1 .. Len(clusterDir[c].ips) : x = clusterDir[c].ips[i]
      BY <2>2, <3>1, RangeIs
    <3>3. Matches(c, clusterDir[c].ips)
      BY <2>2 DEF AddressInv, RecordAt, Releasing
    <3>4. Nodes[c] \in Seq(Names) /\ Len(Nodes[c]) \in Nat /\ Len(clusterDir[c].ips) \in Nat
      BY <3>1, ClusterAssumption, LenProperties
    <3>5. i \in 1 .. Len(Nodes[c])
      BY <3>3, <3>4 DEF Matches
    <3>6. Nodes[c][i] \in Names /\ x \in BlockIps
      BY <3>1, <3>2, <3>4, <3>5, ElementOfSeq
    <3>7. lease[Nodes[c][i]] = x
      BY <3>2, <3>3 DEF Matches
    <3>8. QED
      BY <3>6, <3>7, BlockNumbers DEF LeasedIps, Leased
  <2>3. QED
    BY <1>1, <2>1, <2>2 DEF ClusterHas
<1>2. ASSUME NEW n \in VmNames, NEW x, VmHas(n, x)
      PROVE  /\ x \in BlockIps
             /\ ~(At("users") \/ At("data")) => lease[n] = x /\ n \in Leased /\ x \in LeasedIps
  <2>1. ASSUME NEW h \in Handlers, On(h, VmHolding, n), job[h].ips[1] = x
        PROVE  x \in BlockIps
    <3>1. pc[h] \in HasIps /\ pc[h] # "idle"
      BY <2>1 DEF On, VmHolding, HasIps
    <3>2. QED
      BY <2>1, <3>1, Holds DEF TypeInv
  <2>2. n \in VmRecords => vmDir[n].ip \in BlockIps
    BY Records DEF TypeInv, BlockVm
  <2>3. x \in BlockIps
    BY <1>2, <2>1, <2>2 DEF VmHas
  <2>4. x # NoIp /\ n \in Names
    BY <2>3, BlockNumbers, VmAssumption
  <2>5. ~(At("users") \/ At("data")) => lease[n] = x
    BY <1>2, <2>3 DEF AddressInv, VmLeasesInv
  <2>6. QED
    BY <2>3, <2>4, <2>5 DEF LeasedIps, Leased
<1>3. QED
  BY <1>0, <1>1, <1>2

\* Without reuse, allocate-ip answers an address that nobody has.
LEMMA Fresh ==
  ASSUME TypeInv, "reuse" \notin faults', NEW k \in Names, AllocateIp(k)
  PROVE  /\ AddressFor(k) \in BlockIps /\ AddressFor(k) \notin LeasedIps /\ AddressFor(k) \in LeasedIps'
         /\ lease'[k] = AddressFor(k)
         /\ KeepsBut({})
<1>1. k \notin Leased /\ CanLease(k)
  BY DEF AllocateIp, Fault
<1> DEFINE a == AddressFor(k)
<1>2. a \in BlockIps /\ \A m \in Leased : lease[m] # a
  BY <1>1, AddressForIs DEF TypeInv
<1>3. lease' = [lease EXCEPT ![k] = a] /\ lease'[k] = a
  BY AllocateIpKeeps DEF TypeInv
<1> HIDE DEF a
<1>4. a # NoIp
  BY <1>2, BlockNumbers
<1>5. a \notin LeasedIps /\ a \in LeasedIps'
  BY <1>2, <1>3, <1>4 DEF LeasedIps, Leased
<1>6. KeepsBut({})
  <2>1. SUFFICES ASSUME NEW n \in Names, NEW x \in BlockIps, lease[n] = x PROVE lease'[n] = x
    BY DEF KeepsBut
  <2>2. n \in Leased
    BY <2>1, BlockNumbers DEF Leased
  <2>3. QED
    BY <1>1, <1>3, <2>1, <2>2 DEF TypeInv, PoolInv
<1>7. QED
  BY <1>2, <1>3, <1>5, <1>6 DEF a

LEMMA Freed == ASSUME NEW y, ReleaseIp(y) PROVE KeepsBut({y})
  BY DEF ReleaseIp, KeepsBut

LEMMA VmKeepsAddresses ==
  ASSUME TypeInv, AloneInv, DirsInv, AddressInv, faults' \subseteq Harmless,
         NEW h \in Handlers, VmStep(h), UNCHANGED << clusters, users >>
  PROVE  AddressInv'
<1>0. /\ JobsInv /\ Tidy' /\ "overlap" \notin faults' /\ "reuse" \notin faults'
      /\ admin = NoTask /\ admin' = admin
  <2>1. JobsInv /\ Tidy' /\ "overlap" \notin faults' /\ "reuse" \notin faults'
    BY DEF TypeInv, Harmless, Tidy
  <2>2. QED
    BY <2>1, StepsAlone DEF users
<1>1. ASSUME NEW c \in Clusters, NEW x
      PROVE  /\ ClusterHas(c, x)' <=> ClusterHas(c, x)
             /\ Releasing(c)' <=> Releasing(c)
             /\ clusterDir'[c] = clusterDir[c]
  BY VmLeavesClusters DEF clusters
<1>2. /\ \A c \in Clusters : \A x : ClusterHas(c, x) => x \in LeasedIps
      /\ \A n \in VmNames : \A x : VmHas(n, x) => lease[n] = x /\ n \in Leased /\ x \in BlockIps
  BY <1>0, HasLeased DEF At, NoTask
<1>3. \A n \in VmNames, c \in Clusters, x \in BlockIps : VmHas(n, x) => ~ClusterHas(c, x)
  BY DEF AddressInv, ApartInv
<1> DEFINE Clear(S) ==
             /\ KeepsBut(S)
             /\ \A c \in Clusters : \A z \in S : ~ClusterHas(c, z)
             /\ \A n \in VmNames, x \in BlockIps : VmHas(n, x)' =>
                  lease'[n] = x /\ \A c \in Clusters : ~ClusterHas(c, x)
<1>4. \E S : Clear(S)
  <2>1. ASSUME UNCHANGED pool, \A n \in VmNames : \A x : VmHas(n, x)' <=> VmHas(n, x) PROVE Clear({})
    <3>1. lease' = lease /\ KeepsBut({})
      BY <2>1 DEF pool, KeepsBut
    <3>2. QED
      BY <1>2, <1>3, <2>1, <3>1
  <2>2. ASSUME NEW k \in VmNames, VmTakes(k), \A m \in VmNames : m # k => \A x : VmHas(m, x)' <=> VmHas(m, x)
        PROVE  Clear({})
    <3>1. /\ AddressFor(k) \notin LeasedIps /\ lease'[k] = AddressFor(k) /\ KeepsBut({})
          /\ \A n \in VmNames : n \in Names
      BY <1>0, <2>2, Fresh, VmAssumption DEF VmTakes
    <3>2. ASSUME NEW n \in VmNames, NEW x \in BlockIps, VmHas(n, x)'
          PROVE  lease'[n] = x /\ \A c \in Clusters : ~ClusterHas(c, x)
      <4>1. CASE n = k
        <5>1. x = AddressFor(k)
          BY <2>2, <3>2, <4>1 DEF VmTakes
        <5>2. QED
          BY <1>2, <3>1, <4>1, <5>1
      <4>2. CASE n # k
        <5>1. VmHas(n, x)
          BY <2>2, <3>2, <4>2
        <5>2. QED
          BY <1>2, <1>3, <3>1, <5>1 DEF KeepsBut
      <4>3. QED
        BY <4>1, <4>2
    <3>3. QED
      BY <3>1, <3>2
  <2>3. ASSUME NEW k \in VmNames, NEW y \in BlockIps, VmGivesBack(k, y),
               \A m \in VmNames : m # k => \A x : VmHas(m, x)' <=> VmHas(m, x)
        PROVE  Clear({y})
    <3>1. KeepsBut({y}) /\ VmHas(k, y)
      BY <2>3, Freed DEF VmGivesBack
    <3>2. \A c \in Clusters : ~ClusterHas(c, y)
      BY <1>3, <3>1
    <3>3. ASSUME NEW n \in VmNames, NEW x \in BlockIps, VmHas(n, x)'
          PROVE  lease'[n] = x /\ \A c \in Clusters : ~ClusterHas(c, x)
      <4>1. n # k /\ VmHas(n, x)
        BY <2>3, <3>3 DEF VmGivesBack
      <4>2. lease[n] = x /\ n \in Leased /\ lease[k] = y /\ k \in Leased
        BY <1>2, <3>1, <4>1
      <4>3. x # y /\ n \in Names
        BY <4>1, <4>2, VmAssumption DEF TypeInv, PoolInv
      <4>4. QED
        BY <1>3, <3>1, <4>1, <4>2, <4>3 DEF KeepsBut
    <3>4. QED
      BY <3>1, <3>2, <3>3
  <2> HIDE DEF Clear
  <2>4. QED
    BY <1>0, <2>1, <2>2, <2>3, VmClaims
<1>5. PICK S : /\ KeepsBut(S)
               /\ \A c \in Clusters : \A z \in S : ~ClusterHas(c, z)
               /\ \A n \in VmNames, x \in BlockIps : VmHas(n, x)' =>
                    lease'[n] = x /\ \A c \in Clusters : ~ClusterHas(c, x)
  BY <1>4
<1> HIDE DEF Clear
<1>6. ASSUME NEW c \in Clusters PROVE RecordAt(c)'
  BY <1>1, <1>5, RecordKeeps DEF AddressInv
<1>7. ASSUME NEW g \in Handlers PROVE HeldAt(g)'
  <2>1. CASE g # h
    <3>1. pc'[g] = pc[g] /\ job'[g] = job[g]
      BY <1>0, <2>1, OthersStay
    <3>2. pc[g] \in ClHolding => Name(g) \in Clusters
      BY <1>0, Holds DEF ClHolding, ClusterSteps
    <3>3. QED
      BY <1>5, <3>1, <3>2, HeldKeeps DEF AddressInv
  <2>2. CASE g = h
    <3>1. pc'[h] \in VmSteps \cup {"idle"}
      BY <1>0, VmMoves DEF VmBegins, Begin, JobsInv, VmSteps
    <3>2. QED
      BY <2>2, <3>1 DEF HeldAt, VmSteps, ClHolding
  <2>3. QED
    BY <2>1, <2>2
<1>8. VmLeasesInv'
  BY <1>5 DEF VmLeasesInv
<1>9. ApartInv'
  <2>1. \A n \in VmNames, c \in Clusters, x \in BlockIps : ~(VmHas(n, x)' /\ ClusterHas(c, x)')
    BY <1>1, <1>5
  <2>2. \A c, d \in Clusters, x \in BlockIps : ClusterHas(c, x)' /\ ClusterHas(d, x)' => c = d
    BY <1>1 DEF AddressInv, ApartInv
  <2>3. QED
    BY <2>1, <2>2 DEF ApartInv
<1>10. QED
  BY <1>6, <1>7, <1>8, <1>9 DEF AddressInv

\* Taking one more address, and giving back the first, leaves a request with addresses
\* that are all leased, and no two the same.
LEMMA AppendHeld ==
  ASSUME TypeInv, NEW c \in Clusters, NEW s \in Seq(BlockIps), NEW a \in BlockIps,
         Len(s) < Len(Nodes[c]), Matches(c, s), Injective(s), Range(s) \subseteq LeasedIps,
         a \notin LeasedIps, a \in LeasedIps', KeepsBut({}), lease'[Nodes[c][Len(s) + 1]] = a
  PROVE  /\ Append(s, a) \in Seq(BlockIps)
         /\ Matches(c, Append(s, a))' /\ Injective(Append(s, a))
         /\ Range(Append(s, a)) \subseteq LeasedIps'
<1>1. Matches(c, s)' /\ Range(s) \subseteq LeasedIps'
  BY MatchesKeep
<1>2. /\ Len(s) \in Nat /\ Append(s, a) \in Seq(BlockIps) /\ Len(Append(s, a)) = Len(s) + 1
      /\ \A i \in 1 .. Len(s) : Append(s, a)[i] = s[i]
      /\ Append(s, a)[Len(s) + 1] = a
      /\ Len(Nodes[c]) \in Nat
  BY AppendProperties, LenProperties, ClusterAssumption
<1>3. \A i \in 1 .. Len(s) + 1 : i \in 1 .. Len(s) \/ i = Len(s) + 1
  BY <1>2
<1>4. PICK t \in Seq(BlockIps) : t = Append(s, a)
  BY <1>2
<1>5. Matches(c, t)'
  <2>1. \A i \in 1 .. Len(s) : lease'[Nodes[c][i]] = s[i]
    BY <1>1 DEF Matches
  <2>2. \A i \in 1 .. Len(t) : lease'[Nodes[c][i]] = t[i]
    BY <1>2, <1>3, <1>4, <2>1
  <2>3. Len(t) <= Len(Nodes[c])
    BY <1>2, <1>4
  <2>4. QED
    BY <2>2, <2>3 DEF Matches
<1>6. Injective(t)
  <2>1. \A i \in 1 .. Len(s) : s[i] # a
    BY RangeIs
  <2>2. \A i, j \in 1 .. Len(s) : s[i] = s[j] => i = j
    BY DEF Injective
  <2>3. \A i, j \in 1 .. Len(t) : t[i] = t[j] => i = j
    BY <1>2, <1>3, <1>4, <2>1, <2>2
  <2>4. QED
    BY <2>3 DEF Injective
<1>7. Range(t) \subseteq LeasedIps'
  BY <1>1, <1>4, AppendRange
<1>8. QED
  BY <1>4, <1>5, <1>6, <1>7

LEMMA TailHeld ==
  ASSUME TypeInv, NEW s \in Seq(BlockIps), s # << >>, Injective(s), Range(s) \subseteq LeasedIps,
         ReleaseIp(Head(s))
  PROVE  Injective(Tail(s)) /\ Range(Tail(s)) \subseteq LeasedIps'
<1>1. /\ Tail(s) \in Seq(BlockIps) /\ Head(s) = s[1] /\ 1 \in 1 .. Len(s)
      /\ \A i \in 1 .. Len(Tail(s)) : i \in Int /\ i + 1 \in 1 .. Len(s) /\ i + 1 # 1 /\ Tail(s)[i] = s[i + 1]
  BY TailParts, Parts
<1>2. Injective(Tail(s))
  <2>1. \A i, j \in 1 .. Len(Tail(s)) : Tail(s)[i] = Tail(s)[j] => i + 1 = j + 1
    BY <1>1 DEF Injective
  <2>2. \A i, j \in 1 .. Len(Tail(s)) : i + 1 = j + 1 => i = j
    BY <1>1
  <2>3. QED
    BY <2>1, <2>2 DEF Injective
<1>3. ASSUME NEW z \in Range(Tail(s)) PROVE z \in LeasedIps'
  <2>0. Range(Tail(s)) = {Tail(s)[i] : i \in 1 .. Len(Tail(s))}
    BY <1>1, RangeIs
  <2>1. PICK i \in 1 .. Len(Tail(s)) : z = Tail(s)[i]
    BY <2>0
  <2>2. z = s[i + 1] /\ i + 1 \in 1 .. Len(s) /\ i + 1 # 1
    BY <1>1, <2>1
  <2>3. z # Head(s)
    BY <1>1, <2>2 DEF Injective
  <2>4. z \in LeasedIps
    BY <2>2, RangeIs
  <2>5. KeepsBut({Head(s)})
    BY Freed
  <2>6. QED
    BY <2>3, <2>4, <2>5, MatchesKeep
<1>4. QED
  BY <1>2, <1>3

\* What the cluster a request works on has keeps matching its nodes.
LEMMA ClusterMine ==
  ASSUME TypeInv, AloneInv, DirsInv, AddressInv, faults' \subseteq Harmless,
         NEW h \in Handlers, ClusterStep(h), pc[h] # "idle", NEW c \in Clusters, c = Name(h)
  PROVE  RecordAt(c)' /\ HeldAt(h)'
<1>0. /\ JobsInv /\ Tidy' /\ "reuse" \notin faults' /\ RecordAt(c) /\ HeldAt(h)
      /\ pc[h] \in ClusterSteps /\ ClusterAt(h) /\ job[h].ips \in Seq(BlockIps)
  <2>1. JobsInv /\ Tidy' /\ "reuse" \notin faults' /\ RecordAt(c) /\ HeldAt(h)
    BY DEF TypeInv, Harmless, Tidy, AddressInv
  <2>2. QED
    BY <2>1, ClusterStepIs, Holds DEF DirsInv
<1> DEFINE s == job[h].ips
<1>1. pc'[h] \in ClHolding => Head(job'[h].names) = c
  <2>1. GoesOn(h, "vm-test")
    BY <1>0, ClMoves DEF ClBegins
  <2>2. pc'[h] \in ClHolding => pc'[h] \notin {"idle", "vm-test"}
    BY DEF ClHolding
  <2>3. QED
    BY <2>1, <2>2 DEF GoesOn, Name
<1>2. /\ Releasing(c) <=> pc[h] \in ClEnding
      /\ Releasing(c)' <=> pc'[h] \in ClEnding
  BY <1>0, ClusterHasMine
<1>3. UNCHANGED pool => KeepsBut({})
  BY DEF pool, KeepsBut
<1>4. ASSUME UNCHANGED pool, clusterDir'[c] = clusterDir[c], pc[h] \notin ClEnding, pc'[h] \notin ClEnding
      PROVE  RecordAt(c)'
  BY <1>0, <1>2, <1>3, <1>4, RecordKeeps
<1>5. clusterDir'[c] \in {NoDir, Bare} \/ pc'[h] \in ClEnding => RecordAt(c)'
  BY <1>2 DEF RecordAt, ClusterRecords
<1>6. ASSUME NEW ips \in Seq(BlockIps), clusterDir'[c].ips = ips, Matches(c, ips)', Injective(ips)
      PROVE  RecordAt(c)'
  BY <1>6 DEF RecordAt, Matches, Injective
<1>7. pc'[h] \notin ClHolding => HeldAt(h)'
  BY DEF HeldAt, ClHolding
<1>8. ASSUME NEW ips, pc'[h] \in ClHolding, job'[h].ips = ips, Injective(ips), Range(ips) \subseteq LeasedIps',
             pc'[h] \in {"cl-allocate", "cl-manifest"} => Matches(c, ips)'
      PROVE  HeldAt(h)'
  BY <1>1, <1>8 DEF HeldAt, Matches, Injective, Name
<1>9. UNCHANGED pool => LeasedIps' = LeasedIps /\ \A ips : Matches(c, ips) => Matches(c, ips)'
  BY DEF pool, LeasedIps, Leased, Matches
<1>10. pc[h] \in ClHolding => Injective(s) /\ Range(s) \subseteq LeasedIps
  BY <1>0 DEF HeldAt
<1>11. pc[h] \in {"cl-allocate", "cl-manifest"} => Matches(c, s)
  BY <1>0 DEF HeldAt
<1> HIDE DEF s
<1>12. CASE pc[h] \in {"cl-test", "cl-apply", "cl-delete"}
  <2>1. UNCHANGED pool /\ UNCHANGED clusterDir /\ pc'[h] \in {"cl-mkdir", "idle", "cl-applied", "cl-failed", "cl-read"}
    <3>1. CASE pc[h] = "cl-test"
      BY <1>0, <3>1, ClusterEffects DEF clusters
    <3>2. CASE pc[h] = "cl-apply"
      BY <1>0, <3>2, ClusterEffects
    <3>3. CASE pc[h] = "cl-delete"
      BY <1>0, <3>3, ClusterEffects
    <3>4. QED
      BY <1>12, <3>1, <3>2, <3>3
  <2>2. pc[h] \notin ClEnding /\ pc'[h] \notin ClEnding /\ pc'[h] \notin ClHolding
    BY <1>12, <2>1 DEF ClEnding, ClHolding
  <2>3. QED
    BY <1>4, <1>7, <2>1, <2>2
<1>13. CASE pc[h] = "cl-mkdir"
  <2>1. /\ clusterDir'[c] \in {NoDir, Bare}
        /\ \/ pc'[h] = "idle"
           \/ pc'[h] = "cl-allocate" /\ job'[h] = job[h]
    <3>1. \/ UNCHANGED clusterDir /\ clusterDir[c] = NoDir /\ pc'[h] = "idle"
          \/ clusterDir'[c] = Bare /\ pc'[h] = "cl-allocate" /\ job'[h] = job[h]
      BY <1>0, <1>13, ClusterEffects
    <3>2. QED
      BY <3>1
  <2>2. s = << >>
    BY <1>0, <1>13, Holds DEF NoIpsYet, s
  <2>3. /\ << >> \in Seq(BlockIps) /\ Range(<< >>) = {} /\ Injective(<< >>)
        /\ Len(Nodes[c]) \in Nat
    BY EmptySeq, ClusterAssumption, LenProperties DEF Range, Injective
  <2>4. Matches(c, << >>)'
    BY <2>3 DEF Matches
  <2>5. pc'[h] = "cl-allocate" => job'[h].ips = << >>
    BY <2>1, <2>2 DEF s
  <2>6. pc'[h] = "cl-allocate" => HeldAt(h)'
    BY <1>8, <2>3, <2>4, <2>5 DEF ClHolding
  <2>7. QED
    BY <1>5, <1>7, <2>1, <2>6 DEF ClHolding
<1>14. CASE pc[h] = "cl-allocate"
  <2> DEFINE a == AddressFor(NodeOf(h))
  <2>1. /\ UNCHANGED clusters /\ clusterDir[c] = Bare
        /\ \/ /\ AllocateIp(NodeOf(h)) /\ pc'[h] \in {"cl-manifest", "cl-allocate"}
              /\ job'[h].ips = Append(s, a)
           \/ UNCHANGED pool /\ pc'[h] = "idle"
           \/ UNCHANGED pool /\ pc'[h] = "cl-undo" /\ job'[h] = job[h]
    BY <1>0, <1>14, ClusterEffects DEF s
  <2>2. RecordAt(c)'
    BY <1>5, <2>1 DEF clusters
  <2>3. ASSUME AllocateIp(NodeOf(h)), pc'[h] \in {"cl-manifest", "cl-allocate"}, job'[h].ips = Append(s, a)
        PROVE  HeldAt(h)'
    <3>1. NodeOf(h) \in Names /\ NodeOf(h) = Nodes[c][Len(s) + 1] /\ s \in Seq(BlockIps)
          /\ Len(s) < Len(Nodes[c])
      BY <1>0, <1>14, NextNode DEF NodeOf, s, Name, JobsInv, JobAt
    <3>2. PICK k \in Names : k = NodeOf(h)
      BY <3>1
    <3>3. /\ a \in BlockIps /\ a \notin LeasedIps /\ a \in LeasedIps'
          /\ lease'[k] = a /\ KeepsBut({})
      <4>1. /\ AddressFor(k) \in BlockIps /\ AddressFor(k) \notin LeasedIps
            /\ AddressFor(k) \in LeasedIps' /\ lease'[k] = AddressFor(k) /\ KeepsBut({})
        BY <1>0, <2>3, <3>2, Fresh
      <4>2. QED
        BY <3>2, <4>1
    <3>4. PICK b \in BlockIps : b = a
      BY <3>3
    <3> HIDE DEF a
    <3>5. PICK t \in Seq(BlockIps) : t = s
      BY <3>1
    <3>6. /\ Matches(c, t) /\ Injective(t) /\ Range(t) \subseteq LeasedIps
          /\ Len(t) < Len(Nodes[c]) /\ lease'[Nodes[c][Len(t) + 1]] = b
      BY <1>10, <1>11, <1>14, <3>1, <3>2, <3>3, <3>4, <3>5 DEF ClHolding
    <3>7. /\ Matches(c, Append(t, b))' /\ Injective(Append(t, b))
          /\ Range(Append(t, b)) \subseteq LeasedIps'
      BY <3>3, <3>4, <3>6, AppendHeld
    <3>8. job'[h].ips = Append(t, b) /\ pc'[h] \in ClHolding
      BY <2>3, <3>4, <3>5 DEF ClHolding
    <3>9. QED
      BY <1>8, <3>7, <3>8
  <2>4. ASSUME UNCHANGED pool, pc'[h] = "cl-undo", job'[h] = job[h] PROVE HeldAt(h)'
    <3>1. job'[h].ips = s /\ Injective(s) /\ Range(s) \subseteq LeasedIps'
      BY <1>9, <1>10, <1>14, <2>4 DEF s, ClHolding
    <3>2. QED
      BY <1>8, <2>4, <3>1 DEF ClHolding
  <2>5. QED
    BY <1>7, <2>1, <2>2, <2>3, <2>4 DEF ClHolding
<1>15. ASSUME pc[h] \in {"cl-undo", "cl-return"}, ReleaseIp(Head(s)), pc'[h] = pc[h], job'[h].ips = Tail(s)
       PROVE  HeldAt(h)'
  <2>1. s \in Seq(BlockIps) /\ s # << >> /\ Injective(s) /\ Range(s) \subseteq LeasedIps
    BY <1>0, <1>10, <1>15, Holds DEF HasIps, ClHolding, s
  <2>2. Injective(Tail(s)) /\ Range(Tail(s)) \subseteq LeasedIps'
    BY <1>15, <2>1, TailHeld
  <2>3. PICK t : t = Tail(s)
    OBVIOUS
  <2>4. job'[h].ips = t /\ Injective(t) /\ Range(t) \subseteq LeasedIps'
    BY <1>15, <2>2, <2>3
  <2>5. pc'[h] \in ClHolding /\ pc'[h] \notin {"cl-allocate", "cl-manifest"}
    BY <1>15 DEF ClHolding
  <2>6. QED
    BY <1>8, <2>4, <2>5
<1>16. CASE pc[h] = "cl-undo"
  <2>1. /\ UNCHANGED clusters /\ clusterDir[c] = Bare /\ ReleaseIp(Head(s))
        /\ (pc'[h] = "cl-undo" /\ job'[h].ips = Tail(s)) \/ pc'[h] = "idle"
    BY <1>0, <1>16, ClusterEffects DEF s
  <2>2. QED
    BY <1>5, <1>7, <1>15, <1>16, <2>1 DEF ClHolding, clusters
<1>17. CASE pc[h] = "cl-manifest"
  <2>1. /\ UNCHANGED pool /\ clusterDir[c] = Bare
        /\ \/ clusterDir'[c].ips = s /\ pc'[h] = "cl-apply"
           \/ UNCHANGED clusterDir /\ pc'[h] = "idle"
    BY <1>0, <1>17, ClusterEffects DEF s
  <2>2. PICK t \in Seq(BlockIps) : t = s
    BY <1>0 DEF s
  <2>3. Matches(c, t)' /\ Injective(t)
    BY <1>9, <1>10, <1>11, <1>17, <2>1, <2>2 DEF ClHolding
  <2>4. clusterDir'[c].ips = t => RecordAt(c)'
    BY <1>6, <2>3
  <2>5. QED
    BY <1>5, <1>7, <2>1, <2>2, <2>4 DEF ClHolding
<1>18. CASE pc[h] \in {"cl-applied", "cl-failed"}
  <2>1. /\ UNCHANGED pool /\ c \in ClusterRecords
        /\ clusterDir'[c].ips = clusterDir[c].ips /\ pc'[h] = "idle"
    BY <1>0, <1>18, ClusterEffects
  <2>2. Matches(c, clusterDir[c].ips) /\ Injective(clusterDir[c].ips)
    BY <1>0, <1>2, <1>18, <2>1 DEF RecordAt, ClEnding
  <2>3. PICK t \in Seq(BlockIps) : t = clusterDir[c].ips
    BY <2>1, ClusterRecordsAre DEF TypeInv, BlockCluster
  <2>4. Matches(c, t)' /\ Injective(t)
    BY <1>9, <2>1, <2>2, <2>3
  <2>5. RecordAt(c)'
    BY <1>6, <2>1, <2>3, <2>4
  <2>6. QED
    BY <1>7, <2>1, <2>5 DEF ClHolding
<1>19. CASE pc[h] = "cl-read"
  <2>1. /\ UNCHANGED pool /\ c \in ClusterRecords /\ job'[h].ips = clusterDir[c].ips
        /\ pc'[h] \in {"cl-remove", "cl-return"}
    BY <1>0, <1>19, ClusterEffects
  <2>2. ~Releasing(c)
    BY <1>2, <1>19 DEF ClEnding
  <2>3. Injective(clusterDir[c].ips)
    BY <1>0, <2>1, <2>2 DEF RecordAt
  <2>4. Range(clusterDir[c].ips) \subseteq LeasedIps'
    <3>1. Range(clusterDir[c].ips) \subseteq LeasedIps
      BY <2>1, <2>2, ClusterHolds, HasLeased
    <3>2. QED
      BY <1>9, <2>1, <3>1
  <2>5. pc'[h] = "cl-return" => HeldAt(h)'
    BY <1>8, <2>1, <2>3, <2>4 DEF ClHolding
  <2>6. QED
    BY <1>5, <1>7, <2>1, <2>5 DEF ClHolding, ClEnding
<1>20. CASE pc[h] = "cl-return"
  <2>1. /\ ReleaseIp(Head(s))
        /\ (pc'[h] = "cl-return" /\ job'[h].ips = Tail(s)) \/ pc'[h] = "cl-remove"
    BY <1>0, <1>20, ClusterEffects DEF s
  <2>2. QED
    BY <1>5, <1>7, <1>15, <1>20, <2>1 DEF ClHolding, ClEnding
<1>21. CASE pc[h] = "cl-remove"
  <2>1. clusterDir'[c] = NoDir /\ pc'[h] = "idle"
    BY <1>0, <1>21, ClusterEffects
  <2>2. QED
    BY <1>5, <1>7, <2>1 DEF ClHolding
<1>22. QED
  BY <1>0, <1>12, <1>13, <1>14, <1>16, <1>17, <1>18, <1>19, <1>20, <1>21 DEF ClusterSteps

LEMMA ClusterKeepsAddresses ==
  ASSUME TypeInv, AloneInv, DirsInv, AddressInv, faults' \subseteq Harmless,
         NEW h \in Handlers, ClusterStep(h), UNCHANGED << vms, users >>
  PROVE  AddressInv'
<1>0. /\ JobsInv /\ Tidy' /\ "overlap" \notin faults' /\ "reuse" \notin faults'
      /\ admin = NoTask /\ admin' = admin
  <2>1. JobsInv /\ Tidy' /\ "overlap" \notin faults' /\ "reuse" \notin faults'
    BY DEF TypeInv, Harmless, Tidy
  <2>2. QED
    BY <2>1, StepsAlone DEF users
<1>1. ASSUME NEW x
      PROVE  /\ \A n \in VmNames : VmHas(n, x)' <=> VmHas(n, x)
             /\ \A d \in Clusters : pc[h] = "idle" \/ d # Name(h) =>
                  /\ clusterDir'[d] = clusterDir[d]
                  /\ ClusterHas(d, x)' <=> ClusterHas(d, x)
                  /\ Releasing(d)' <=> Releasing(d)
  BY ClusterLeaves DEF vms
<1>2. /\ \A d \in Clusters : \A x : ClusterHas(d, x) => x \in LeasedIps /\ x \in BlockIps
      /\ \A n \in VmNames : \A x : VmHas(n, x) => lease[n] = x /\ x \in LeasedIps /\ x \in BlockIps
  BY <1>0, HasLeased DEF At, NoTask
<1>3. /\ \A n \in VmNames, d \in Clusters, x \in BlockIps : ~(VmHas(n, x) /\ ClusterHas(d, x))
      /\ \A d, e \in Clusters, x \in BlockIps : ClusterHas(d, x) /\ ClusterHas(e, x) => d = e
  BY DEF AddressInv, ApartInv
<1>4. ASSUME NEW g \in Handlers, g # h
      PROVE  /\ pc'[g] = pc[g] /\ job'[g] = job[g] /\ HeldAt(g)
             /\ pc[g] \in ClHolding => Name(g) \in Clusters /\ (pc[h] = "idle" \/ Name(g) # Name(h))
  <2>1. pc'[g] = pc[g] /\ job'[g] = job[g] /\ HeldAt(g)
    BY <1>0, <1>4, OthersStay DEF AddressInv
  <2>2. pc[g] \in ClHolding => pc[g] \in ClusterSteps /\ pc[g] # "idle"
    BY DEF ClHolding, ClusterSteps
  <2>3. QED
    BY <1>0, <1>4, <2>1, <2>2, Holds, NotMine
<1>5. ASSUME NEW S, KeepsBut(S), \A n \in VmNames, z \in S : ~VmHas(n, z)
      PROVE  VmLeasesInv'
  <2>1. ASSUME NEW n \in VmNames, NEW x \in BlockIps, VmHas(n, x)' PROVE lease'[n] = x
    <3>1. VmHas(n, x)
      BY <1>1, <2>1
    <3>2. lease[n] = x /\ x \notin S /\ n \in Names
      BY <1>2, <1>5, <3>1, VmAssumption
    <3>3. QED
      BY <1>5, <3>2 DEF KeepsBut
  <2>2. QED
    BY <2>1 DEF VmLeasesInv
<1>6. CASE pc[h] = "idle"
  <2>1. ClBegins(h)
    BY <1>0, <1>6, ClMoves DEF ClusterSteps
  <2>2. UNCHANGED pool /\ KeepsBut({})
    BY <2>1 DEF ClBegins, pool, KeepsBut
  <2>3. pc'[h] \in {"cl-test", "cl-delete"}
    <3>1. \A step, names : Begin(h, step, names) => pc'[h] = step
      BY <1>0 DEF Begin, JobsInv
    <3>2. QED
      BY <2>1, <3>1 DEF ClBegins
  <2>4. ASSUME NEW d \in Clusters PROVE RecordAt(d)'
    BY <1>1, <1>6, <2>2, RecordKeeps DEF AddressInv
  <2>5. ASSUME NEW g \in Handlers PROVE HeldAt(g)'
    <3>1. g = h => HeldAt(g)'
      BY <2>3 DEF HeldAt, ClHolding
    <3>2. g # h => HeldAt(g)'
      BY <1>4, <2>2, HeldKeeps
    <3>3. QED
      BY <3>1, <3>2
  <2>6. VmLeasesInv'
    BY <1>5, <2>2
  <2>7. ApartInv'
    BY <1>1, <1>3, <1>6 DEF ApartInv
  <2>8. QED
    BY <2>4, <2>5, <2>6, <2>7 DEF AddressInv
<1>7. CASE pc[h] # "idle"
  <2>1. PICK c \in Clusters : c = Name(h)
    BY <1>0, <1>7, ClusterStepIs, Holds
  <2>2. RecordAt(c)' /\ HeldAt(h)'
    BY <1>7, <2>1, ClusterMine
  <2>3. \/ ClKeeps(c)
        \/ pc[h] = "cl-allocate" /\ ClTakes(c, NodeOf(h))
        \/ pc[h] \in {"cl-undo", "cl-return"} /\ ClGivesBack(c, Head(job[h].ips))
    BY <1>0, <1>7, <2>1, ClusterClaims
  <2>4. ASSUME NEW S, KeepsBut(S), \A z \in S : ClusterHas(c, z),
               \A x \in BlockIps : ClusterHas(c, x)' => ClusterHas(c, x) \/ x \notin LeasedIps
        PROVE  AddressInv'
    <3>1. /\ \A n \in VmNames, z \in S : ~VmHas(n, z)
          /\ \A d \in Clusters, z \in S : d # c => ~ClusterHas(d, z)
      BY <1>2, <1>3, <2>4
    <3>2. ASSUME NEW d \in Clusters PROVE RecordAt(d)'
      <4>1. d # c => RecordAt(d)'
        BY <1>1, <2>1, <2>4, <3>1, RecordKeeps DEF AddressInv
      <4>2. QED
        BY <2>2, <4>1
    <3>3. ASSUME NEW g \in Handlers PROVE HeldAt(g)'
      <4>1. CASE g # h
        <5>1. pc[g] \in ClHolding => Name(g) \in Clusters /\ Name(g) # c
          BY <1>4, <1>7, <2>1, <4>1
        <5>2. pc[g] \in ClHolding => \A z \in S : ~ClusterHas(Name(g), z)
          BY <3>1, <5>1
        <5>3. QED
          BY <1>4, <2>4, <4>1, <5>2, HeldKeeps
      <4>2. QED
        BY <2>2, <4>1
    <3>4. VmLeasesInv'
      BY <1>5, <2>4, <3>1
    <3>5. \A d \in Clusters, x \in BlockIps : ClusterHas(d, x)' => ClusterHas(d, x) \/ (d = c /\ x \notin LeasedIps)
      BY <1>1, <2>1, <2>4
    <3>6. \A n \in VmNames, d \in Clusters, x \in BlockIps : ~(VmHas(n, x)' /\ ClusterHas(d, x)')
      BY <1>1, <1>2, <1>3, <3>5
    <3>7. \A d, e \in Clusters, x \in BlockIps : ClusterHas(d, x)' /\ ClusterHas(e, x)' => d = e
      BY <1>2, <1>3, <3>5
    <3>8. ApartInv'
      BY <3>6, <3>7 DEF ApartInv
    <3>9. QED
      BY <3>2, <3>3, <3>4, <3>8 DEF AddressInv
  <2>5. CASE ClKeeps(c)
    <3>1. KeepsBut({})
      BY <2>5 DEF ClKeeps, pool, KeepsBut
    <3>2. QED
      BY <2>4, <2>5, <3>1 DEF ClKeeps
  <2>6. CASE pc[h] = "cl-allocate" /\ ClTakes(c, NodeOf(h))
    <3>1. PICK k \in Names : k = NodeOf(h)
      BY <1>0, <2>6, NextNode DEF NodeOf
    <3>2. ClTakes(c, k)
      BY <2>6, <3>1
    <3>3. KeepsBut({}) /\ AddressFor(k) \notin LeasedIps
      BY <1>0, <3>2, Fresh DEF ClTakes
    <3>4. \A x \in BlockIps : ClusterHas(c, x)' => ClusterHas(c, x) \/ x \notin LeasedIps
      BY <3>2, <3>3 DEF ClTakes
    <3>5. QED
      BY <2>4, <3>3, <3>4
  <2>7. CASE pc[h] \in {"cl-undo", "cl-return"} /\ ClGivesBack(c, Head(job[h].ips))
    <3>1. PICK y : y = Head(job[h].ips)
      OBVIOUS
    <3>2. ClGivesBack(c, y)
      BY <2>7, <3>1
    <3>3. KeepsBut({y}) /\ \A z \in {y} : ClusterHas(c, z)
      BY <3>2, Freed DEF ClGivesBack
    <3>4. \A x \in BlockIps : ClusterHas(c, x)' => ClusterHas(c, x) \/ x \notin LeasedIps
      BY <3>2 DEF ClGivesBack
    <3>5. QED
      BY <2>4, <3>3, <3>4
  <2>8. QED
    BY <2>3, <2>5, <2>6, <2>7
<1>8. QED
  BY <1>6, <1>7

\* Machines and nodes have records that name their addresses.
LEMMA VmKeepsMachines ==
  ASSUME TypeInv, AloneInv, DirsInv, MachinesInv, NodesInv, faults' \subseteq Harmless,
         NEW h \in Handlers, VmStep(h), UNCHANGED << clusters, users >>
  PROVE  MachinesInv' /\ NodesInv'
<1>0. /\ JobsInv /\ VmInv /\ Tidy' /\ "overlap" \notin faults' /\ "destroy" \notin faults'
      /\ admin = NoTask /\ admin' = admin
  <2>1. JobsInv /\ VmInv /\ Tidy' /\ "overlap" \notin faults' /\ "destroy" \notin faults'
    BY DEF TypeInv, Harmless, Tidy
  <2>2. QED
    BY <2>1, StepsAlone DEF users
<1>1. ASSUME NEW n \in VmNames, vmMachine'[n] # NoIp
      PROVE  /\ n \in vmState' /\ n \in VmRecords' /\ vmDir'[n].ip = vmMachine'[n]
             /\ \A g \in Handlers : ~On(g, VmEnding, n)'
  <2>1. VmEnding \cap Beginnings = {}
    BY DEF VmEnding, Beginnings
  <2>2. vmMachine[n] # NoIp =>
          /\ n \in vmState /\ n \in VmRecords /\ vmDir[n].ip = vmMachine[n]
          /\ \A g \in Handlers : ~On(g, VmEnding, n)
    BY DEF MachinesInv
  <2>3. CASE pc[h] = "idle" \/ n # Name(h)
    <3>1. SameVm(n)
      BY <2>3, VmFrame
    <3>2. /\ \A g \in Handlers : g # h => (On(g, VmEnding, n)' <=> On(g, VmEnding, n))
          /\ ~On(h, VmEnding, n)'
      BY <1>0, <2>1, <2>3, OnStep
    <3>3. QED
      BY <1>1, <2>2, <3>1, <3>2 DEF SameVm, VmRecords
  <2>4. CASE pc[h] # "idle" /\ n = Name(h)
    <3>1. /\ \A g \in Handlers : g # h => ~On(g, VmEnding, n)'
          /\ On(h, VmEnding, n) <=> pc[h] \in VmEnding
          /\ On(h, VmEnding, n)' <=> pc'[h] \in VmEnding
      BY <1>0, <2>1, <2>4, OnStep
    <3>2. SUFFICES n \in vmState' /\ n \in VmRecords' /\ vmDir'[n].ip = vmMachine'[n] /\ pc'[h] \notin VmEnding
      BY <3>1
    <3>3. VmAt(h) /\ pc[h] \in VmSteps
      BY <2>4, VmStepIs DEF DirsInv
    <3>4. n \in VmRecords \/ vmMachine[n] = NoIp
      BY <2>2
    <3>5. CASE pc[h] \in {"vm-test", "vm-allocate"}
      <4>1. UNCHANGED vms /\ pc'[h] \in {"vm-allocate", "idle", "vm-test", "vm-mkdir"}
        <5>1. pc[h] = "vm-test" => UNCHANGED vms /\ pc'[h] \in {"vm-allocate", "idle", "vm-test"}
          BY <1>0, <2>4, <3>3, VmEffects
        <5>2. pc[h] = "vm-allocate" => UNCHANGED vms /\ pc'[h] \in {"vm-mkdir", "idle", "vm-test"}
          BY <1>0, <2>4, <3>3, VmEffects
        <5>3. QED
          BY <3>5, <5>1, <5>2
      <4>2. QED
        BY <1>1, <2>2, <4>1 DEF vms, VmEnding, VmRecords
    <3>6. CASE pc[h] \in {"vm-mkdir", "vm-prepare"}
      <4>1. vmMachine' = vmMachine /\ vmDir[n] \in {NoDir, Bare}
        <5>1. pc[h] = "vm-mkdir" => vmMachine' = vmMachine /\ vmDir[n] = NoDir
          BY <1>0, <2>4, <3>3, VmEffects
        <5>2. pc[h] = "vm-prepare" => vmMachine' = vmMachine /\ vmDir[n] = Bare
          BY <1>0, <2>4, <3>3, VmEffects
        <5>3. QED
          BY <3>6, <5>1, <5>2
      <4>2. QED
        BY <1>1, <3>4, <4>1 DEF VmRecords
    <3>7. CASE pc[h] = "vm-apply"
      <4>1. /\ vmDir' = vmDir /\ n \in VmRecords /\ vmDir[n].ip = job[h].ips[1]
            /\ \/ vmMachine'[n] = job[h].ips[1] /\ n \in vmState'
               \/ UNCHANGED << vmMachine, vmState >>
            /\ pc'[h] \in {"vm-running", "vm-failed"}
        BY <1>0, <2>4, <3>3, <3>7, VmEffects
      <4>2. QED
        BY <1>1, <2>2, <4>1 DEF VmEnding, VmRecords
    <3>12. CASE pc[h] \in {"vm-running", "vm-failed"}
      <4>1. /\ UNCHANGED << vmMachine, vmState >>
            /\ vmDir[n].ip = job[h].ips[1]
            /\ n \in VmRecords' /\ vmDir'[n].ip = job[h].ips[1]
            /\ pc'[h] \in {"idle", "vm-test"}
        BY <1>0, <2>4, <3>3, <3>12, VmEffects
      <4>2. QED
        BY <1>1, <2>2, <4>1 DEF VmEnding
    <3>8. CASE pc[h] = "vm-find"
      <4>1. UNCHANGED vms /\ pc'[h] = "vm-mark"
        BY <1>0, <2>4, <3>3, <3>8, VmEffects
      <4>2. QED
        BY <1>1, <2>2, <4>1 DEF vms, VmEnding, VmRecords
    <3>13. CASE pc[h] = "vm-mark"
      <4>1. /\ UNCHANGED << pool, vmMachine, vmState >>
            /\ n \in VmRecords' /\ vmDir'[n].ip = vmDir[n].ip /\ pc'[h] = "vm-destroy"
        BY <1>0, <2>4, <3>3, <3>13, VmEffects
      <4>2. QED
        BY <1>1, <2>2, <4>1 DEF VmEnding
    <3>9. CASE pc[h] = "vm-destroy"
      <4>1. Destroy(n)
        BY <1>0, <2>4, <3>3, <3>9, VmEffects
      <4>2. vmMachine' = [vmMachine EXCEPT ![n] = IF n \in vmState THEN NoIp ELSE vmMachine[n]]
        BY <1>0, <4>1 DEF Destroy, Fault
      <4>3. vmMachine'[n] = IF n \in vmState THEN NoIp ELSE vmMachine[n]
        BY <1>0, <4>2 DEF VmInv
      <4>4. QED
        BY <1>1, <2>2, <4>3
    <3>10. CASE pc[h] \in {"vm-return", "vm-remove"}
      <4>1. vmMachine' = vmMachine
        <5>1. pc[h] = "vm-return" => UNCHANGED vms
          BY <1>0, <2>4, <3>3, VmEffects
        <5>2. pc[h] = "vm-remove" => UNCHANGED << pool, vmMachine >>
          BY <1>0, <2>4, <3>3, VmEffects
        <5>3. QED
          BY <3>10, <5>1, <5>2 DEF vms
      <4>2. On(h, VmEnding, n)
        BY <3>1, <3>10 DEF VmEnding
      <4>3. QED
        BY <1>1, <2>2, <4>1, <4>2
    <3>11. QED
      BY <3>3, <3>5, <3>6, <3>7, <3>8, <3>9, <3>10, <3>12, <3>13 DEF VmSteps
  <2>5. QED
    BY <2>3, <2>4
<1>2. MachinesInv'
  BY <1>0, <1>1 DEF MachinesInv, NoTask, At
<1>3. ASSUME NEW c \in Clusters, NEW g \in Handlers
      PROVE  On(g, ClRemoving, c)' <=> On(g, ClRemoving, c)
  <2>1. ClRemoving \cap Beginnings = {}
    BY DEF Beginnings, ClRemoving
  <2>2. pc[h] = "idle" \/ Name(h) \in VmNames
    BY <1>0, VmStepIs, Holds
  <2>3. pc[h] = "idle" \/ c # Name(h)
    BY <2>2, VmAssumption, ClusterAssumption
  <2>4. QED
    BY <1>0, <2>1, <2>3, OnStep
<1>4. NodesInv'
  <2>1. UNCHANGED << clusterDir, nodeIps >> /\ ClusterRecords' = ClusterRecords
    BY DEF clusters, ClusterRecords
  <2>2. QED
    BY <1>0, <1>3, <2>1 DEF NodesInv, NoTask, At
<1>5. QED
  BY <1>2, <1>4

LEMMA ClusterKeepsMachines ==
  ASSUME TypeInv, AloneInv, DirsInv, MachinesInv, NodesInv, faults' \subseteq Harmless,
         NEW h \in Handlers, ClusterStep(h), UNCHANGED << vms, users >>
  PROVE  MachinesInv' /\ NodesInv'
<1>0. /\ JobsInv /\ ClusterInv /\ Tidy' /\ "overlap" \notin faults' /\ "destroy" \notin faults'
      /\ admin = NoTask /\ admin' = admin /\ NoDir # Bare
  <2>1. JobsInv /\ ClusterInv /\ Tidy' /\ "overlap" \notin faults' /\ "destroy" \notin faults' /\ NoDir # Bare
    BY ProvisionerAssumption DEF TypeInv, Harmless, Tidy
  <2>2. QED
    BY <2>1, StepsAlone DEF users
<1>1. ASSUME NEW c \in Clusters, nodeIps'[c] # << >>
      PROVE  /\ c \in ClusterRecords' /\ clusterDir'[c].ips = nodeIps'[c]
             /\ \A g \in Handlers : ~On(g, ClRemoving, c)'
  <2>1. ClRemoving \cap Beginnings = {}
    BY DEF Beginnings, ClRemoving
  <2>2. nodeIps[c] # << >> =>
          /\ c \in ClusterRecords /\ clusterDir[c].ips = nodeIps[c]
          /\ \A g \in Handlers : ~On(g, ClRemoving, c)
    BY DEF NodesInv
  <2>3. clusterDir'[c] = clusterDir[c] => (c \in ClusterRecords' <=> c \in ClusterRecords)
    BY DEF ClusterRecords
  <2>4. CASE pc[h] = "idle" \/ c # Name(h)
    <3>1. SameCluster(c)
      BY <2>4, ClusterFrame
    <3>2. /\ \A g \in Handlers : g # h => (On(g, ClRemoving, c)' <=> On(g, ClRemoving, c))
          /\ ~On(h, ClRemoving, c)'
      BY <1>0, <2>1, <2>4, OnStep
    <3>3. QED
      BY <1>1, <2>2, <2>3, <3>1, <3>2 DEF SameCluster
  <2>5. CASE pc[h] # "idle" /\ c = Name(h)
    <3>1. /\ \A g \in Handlers : g # h => ~On(g, ClRemoving, c)'
          /\ On(h, ClRemoving, c) <=> pc[h] \in ClRemoving
          /\ On(h, ClRemoving, c)' <=> pc'[h] \in ClRemoving
      BY <1>0, <2>1, <2>5, OnStep
    <3>2. SUFFICES c \in ClusterRecords' /\ clusterDir'[c].ips = nodeIps'[c] /\ pc'[h] \notin ClRemoving
      BY <3>1
    <3>3. ClusterAt(h) /\ pc[h] \in ClusterSteps
      BY <2>5, ClusterStepIs DEF DirsInv
    <3>4. CASE pc[h] = "cl-test"
      <4>1. UNCHANGED << pool, clusters >> /\ pc'[h] \in {"cl-mkdir", "idle"}
        BY <1>0, <2>5, <3>3, <3>4, ClusterEffects
      <4>2. QED
        BY <1>1, <2>2, <2>3, <4>1 DEF clusters, ClRemoving
    <3>5. CASE pc[h] \in {"cl-mkdir", "cl-allocate", "cl-undo", "cl-manifest"}
      <4>1. nodeIps' = nodeIps /\ clusterDir[c] \in {NoDir, Bare}
        <5>1. pc[h] = "cl-mkdir" => nodeIps' = nodeIps /\ clusterDir[c] = NoDir
          BY <1>0, <2>5, <3>3, ClusterEffects
        <5>2. pc[h] = "cl-allocate" => UNCHANGED clusters /\ clusterDir[c] = Bare
          BY <1>0, <2>5, <3>3, ClusterEffects
        <5>3. pc[h] = "cl-undo" => UNCHANGED clusters /\ clusterDir[c] = Bare
          BY <1>0, <2>5, <3>3, ClusterEffects
        <5>4. pc[h] = "cl-manifest" => nodeIps' = nodeIps /\ clusterDir[c] = Bare
          BY <1>0, <2>5, <3>3, ClusterEffects
        <5>5. QED
          BY <3>5, <5>1, <5>2, <5>3, <5>4 DEF clusters
      <4>2. QED
        BY <1>1, <2>2, <4>1 DEF ClusterRecords
    <3>6. CASE pc[h] = "cl-apply"
      <4>1. /\ UNCHANGED << pool, clusterDir >>
            /\ c \in ClusterRecords /\ clusterDir[c].ips = job[h].ips
            /\ nodeIps'[c] \in {nodeIps[c], job[h].ips}
            /\ pc'[h] \in {"cl-applied", "cl-failed"}
        BY <1>0, <2>5, <3>3, <3>6, ClusterEffects
      <4>2. QED
        BY <1>1, <2>2, <2>3, <4>1 DEF ClRemoving
    <3>7. CASE pc[h] \in {"cl-applied", "cl-failed"}
      <4>1. /\ UNCHANGED << pool, nodeIps >>
            /\ c \in ClusterRecords' /\ clusterDir'[c].ips = clusterDir[c].ips
            /\ pc'[h] = "idle"
        BY <1>0, <2>5, <3>3, <3>7, ClusterEffects
      <4>2. QED
        BY <1>1, <2>2, <4>1 DEF ClRemoving
    <3>8. CASE pc[h] = "cl-delete"
      <4>1. nodeIps'[c] = << >> \/ "destroy" \in faults'
        BY <1>0, <2>5, <3>3, <3>8, ClusterEffects
      <4>2. QED
        BY <1>0, <1>1, <4>1
    <3>9. CASE pc[h] \in ClRemoving
      <4>1. nodeIps' = nodeIps
        <5>1. pc[h] = "cl-read" => UNCHANGED << pool, clusters >>
          BY <1>0, <2>5, <3>3, ClusterEffects
        <5>2. pc[h] = "cl-return" => UNCHANGED clusters
          BY <1>0, <2>5, <3>3, ClusterEffects
        <5>3. pc[h] = "cl-remove" => UNCHANGED << pool, nodeIps >>
          BY <1>0, <2>5, <3>3, ClusterEffects
        <5>4. QED
          BY <3>9, <5>1, <5>2, <5>3 DEF clusters, ClRemoving
      <4>2. QED
        BY <1>1, <2>2, <3>1, <3>9, <4>1
    <3>10. QED
      BY <3>3, <3>4, <3>5, <3>6, <3>7, <3>8, <3>9 DEF ClusterSteps, ClRemoving
  <2>6. QED
    BY <2>4, <2>5
<1>2. NodesInv'
  BY <1>0, <1>1 DEF NodesInv, NoTask, At
<1>3. ASSUME NEW n \in VmNames, NEW g \in Handlers
      PROVE  On(g, VmEnding, n)' <=> On(g, VmEnding, n)
  <2>1. VmEnding \cap Beginnings = {}
    BY DEF Beginnings, VmEnding
  <2>2. pc[h] = "idle" \/ Name(h) \in Clusters
    BY <1>0, ClusterStepIs, Holds
  <2>3. pc[h] = "idle" \/ n # Name(h)
    BY <2>2, VmAssumption, ClusterAssumption
  <2>4. QED
    BY <1>0, <2>1, <2>3, OnStep
<1>4. MachinesInv'
  <2>1. UNCHANGED << vmDir, vmMachine, vmState >> /\ VmDirs' = VmDirs /\ VmRecords' = VmRecords
    BY DEF vms, VmDirs, VmRecords
  <2>2. QED
    BY <1>0, <1>3, <2>1 DEF MachinesInv, NoTask, At
<1>5. QED
  BY <1>2, <1>4

\* When no request is under way and no cluster is left, all that counts is the machines,
\* their records and leases, and how far the administrator has got.
LEMMA IdleLive ==
  ASSUME \A h \in Handlers : pc'[h] = "idle",
         \A c \in Clusters : clusterDir'[c] = NoDir /\ nodeIps'[c] = << >>,
         \A n \in VmNames : vmMachine'[n] # NoIp =>
           /\ n \in vmState' /\ n \in VmRecords' /\ vmDir'[n].ip = vmMachine'[n]
           /\ admin'.step \in {"idle", "confirm", "destroy"}
           /\ admin'.step = "destroy" => n \in admin'.vms,
         admin'.step = "confirm" /\ admin'.vms = {} => VmDirs' = {},
         ~admin'.purge /\ admin'.step # "idle" => VmDirs' = {},
         admin'.step \notin {"users", "data"} => \A n \in VmRecords' : lease'[n] = vmDir'[n].ip
  PROVE  LiveInv'
<1>1. ASSUME NEW S, "idle" \notin S, NEW h \in Handlers, NEW m PROVE ~On(h, S, m)'
  BY <1>1 DEF On
<1>2. "idle" \notin VmHolding /\ "idle" \notin VmEnding /\ "idle" \notin ClHolding
  BY DEF VmHolding, VmEnding, ClHolding
<1>3. ~HasClusters' /\ ClusterRecords' = {}
  BY DEF HasClusters, ClusterRecords
<1>4. MachinesInv'
  BY <1>1, <1>2 DEF MachinesInv, At
<1>5. NodesInv'
  BY <1>3 DEF NodesInv
<1>6. VmLeasesInv'
  <2>1. ASSUME NEW n \in VmNames, NEW x, VmHas(n, x)' PROVE n \in VmRecords' /\ vmDir'[n].ip = x
    BY <1>1, <1>2, <2>1 DEF VmHas
  <2>2. QED
    BY <2>1 DEF VmLeasesInv, At
<1>7. \A c \in Clusters : \A x : ~ClusterHas(c, x)'
  BY <1>1, <1>2, <1>3 DEF ClusterHas
<1>8. AddressInv'
  <2>1. ApartInv'
    BY <1>7 DEF ApartInv
  <2>2. \A c \in Clusters : RecordAt(c)'
    BY <1>3 DEF RecordAt
  <2>3. \A h \in Handlers : HeldAt(h)'
    BY <1>2 DEF HeldAt
  <2>4. QED
    BY <1>6, <2>1, <2>2, <2>3 DEF AddressInv
<1>9. QED
  BY <1>4, <1>5, <1>8 DEF LiveInv

LEMMA LiveSame ==
  ASSUME LiveInv, UNCHANGED << lease, vms, clusters, pc, job, admin >>
  PROVE  LiveInv'
<1>1. UNCHANGED << vmDir, vmMachine, vmState, clusterDir, nodeIps >>
  BY DEF vms, clusters
<1>2. /\ VmDirs' = VmDirs /\ VmRecords' = VmRecords /\ ClusterRecords' = ClusterRecords /\ LeasedIps' = LeasedIps
      /\ HasClusters' <=> HasClusters
      /\ \A step : admin'.step = step <=> admin.step = step
  BY <1>1 DEF VmDirs, VmRecords, ClusterRecords, LeasedIps, Leased, HasClusters
<1>3. ASSUME NEW S, NEW h, NEW m PROVE On(h, S, m)' <=> On(h, S, m)
  BY DEF On, Name
<1>4. MachinesInv'
  BY <1>1, <1>2, <1>3 DEF LiveInv, MachinesInv, At
<1>5. NodesInv'
  BY <1>1, <1>2, <1>3 DEF LiveInv, NodesInv, At
<1>6. ASSUME NEW n, NEW x
      PROVE  /\ VmHas(n, x)' <=> VmHas(n, x)
             /\ ClusterHas(n, x)' <=> ClusterHas(n, x)
             /\ Releasing(n)' <=> Releasing(n)
  BY <1>1, HasSame
<1>7. VmLeasesInv' /\ ApartInv'
  BY <1>2, <1>6 DEF LiveInv, AddressInv, VmLeasesInv, ApartInv, At
<1>8. ASSUME NEW c \in Clusters PROVE RecordAt(c)'
  BY <1>1, <1>2, <1>6 DEF LiveInv, AddressInv, RecordAt, Matches, Injective
<1>9. ASSUME NEW h \in Handlers PROVE HeldAt(h)'
  BY <1>2 DEF LiveInv, AddressInv, HeldAt, Matches, Injective, Name
<1>10. QED
  BY <1>4, <1>5, <1>7, <1>8, <1>9 DEF LiveInv, AddressInv

LEMMA AdminKeepsLive ==
  ASSUME TypeInv, AdminInv, AloneInv, RunningInv, LiveInv, faults' \subseteq Harmless, AdminStep
  PROVE  LiveInv'
<1>0. /\ VmInv /\ "overlap" \notin faults' /\ "orphan" \notin faults' /\ "destroy" \notin faults'
      /\ "unleased" \notin faults' /\ UNCHANGED << pc, job >>
      /\ admin \in [step : AdminSteps, purge : BOOLEAN, vms : SUBSET VmNames]
  BY AdminJobs DEF TypeInv, UserTypeOK, Harmless
<1>1. CASE UserAdd \/ AllocateBlock \/ FolderByHand
  BY <1>0, <1>1, LiveSame DEF UserAdd, AllocateBlock, FolderByHand, pool, users
<1>2. CASE ~(UserAdd \/ AllocateBlock \/ FolderByHand)
  <2>1. \A h \in Handlers : pc[h] = "idle" /\ pc'[h] = "idle"
    BY <1>0, <1>2, AdminAlone DEF Idle
  <2>2. ~HasClusters
    <3>1. UserDelete \/ UserPurge => ~HasClusters
      BY <1>0 DEF UserDelete, UserPurge, AdminBegins, Fault
    <3>2. Confirmed \/ PurgeVm \/ DeleteFolder \/ FreeBlock \/ FreeLeases => ~At("idle")
      BY DEF Confirmed, PurgeVm, DeleteFolder, FreeBlock, FreeLeases, At
    <3>3. RemoveUserDir \/ RemoveData \/ RemoveDataFails \/ Userdel \/ AdminStops => ~At("idle")
      BY DEF RemoveUserDir, RemoveData, RemoveDataFails, Userdel, AdminStops, At
    <3>4. QED
      BY <1>2, <3>1, <3>2, <3>3 DEF LiveInv, NodesInv, AdminStep
  <2>3. \A c \in Clusters : clusterDir'[c] = NoDir /\ nodeIps'[c] = << >>
    <3>1. CASE UserDelete \/ UserPurge \/ Confirmed \/ PurgeVm \/ DeleteFolder
      BY <2>2, <3>1 DEF UserDelete, UserPurge, AdminBegins, Confirmed, PurgeVm, DeleteFolder,
         clusters, HasClusters
    <3>2. CASE FreeBlock \/ FreeLeases \/ RemoveUserDir \/ Userdel \/ AdminStops
      BY <2>2, <3>2 DEF FreeBlock, FreeLeases, RemoveUserDir, Userdel, AdminStops,
         clusters, HasClusters
    <3>3. CASE RemoveData
      BY <2>2, <3>3 DEF RemoveData, HasClusters
    <3>4. CASE RemoveDataFails
      <4>1. nodeIps' = nodeIps
        BY <3>4 DEF RemoveDataFails
      <4>2. QED
        BY <2>2, <3>4, <4>1, RemoveDataFailsKeeps DEF HasClusters
    <3>5. QED
      BY <1>2, <3>1, <3>2, <3>3, <3>4 DEF AdminStep
  <2>4. ASSUME NEW n \in VmNames, vmMachine[n] # NoIp
        PROVE  /\ n \in vmState /\ n \in VmRecords /\ n \in VmDirs /\ vmDir[n] # NoDir /\ vmDir[n].ip = vmMachine[n]
               /\ admin.step \in {"idle", "confirm", "destroy"}
               /\ admin.step = "destroy" => n \in admin.vms
    BY <1>0, <2>4 DEF LiveInv, MachinesInv, VmInv, VmRecords, VmDirs, At
  <2>5. admin.step \notin {"users", "data"} => \A n \in VmRecords : lease[n] = vmDir[n].ip
    <3>1. SUFFICES ASSUME admin.step \notin {"users", "data"}, NEW n \in VmRecords
          PROVE  lease[n] = vmDir[n].ip
      OBVIOUS
    <3>2. n \in VmNames /\ vmDir[n].ip \in BlockIps
      BY <1>0, Records DEF BlockVm, VmRecords
    <3>3. VmHas(n, vmDir[n].ip)
      BY <2>1 DEF VmHas, On, VmEnding
    <3>4. QED
      BY <3>1, <3>2, <3>3 DEF LiveInv, AddressInv, VmLeasesInv, At
  <2>6. /\ admin.step = "confirm" /\ admin.vms = {} => VmDirs = {}
        /\ ~admin.purge /\ admin.step # "idle" => VmDirs = {}
        /\ admin.step \in {"confirm", "destroy", "block", "leases"} => admin.purge
    BY DEF LiveInv, MachinesInv, RunningInv, At
  <2>7. VmDirs = {} => (\A n \in VmNames : vmMachine[n] = NoIp) /\ VmRecords = {}
    BY <2>4 DEF VmDirs, VmRecords
  <2>8. UNCHANGED vms => UNCHANGED << vmDir, vmMachine, vmState >> /\ VmDirs' = VmDirs /\ VmRecords' = VmRecords
    BY DEF vms, VmDirs, VmRecords
  <2>9. CASE UserDelete
    <3>1. /\ UNCHANGED vms /\ UNCHANGED lease /\ VmDirs = {}
          /\ admin' = [step |-> "folder", purge |-> FALSE, vms |-> {}]
      BY <2>9 DEF UserDelete, AdminBegins, pool
    <3>2. \A n \in VmNames : vmMachine'[n] = NoIp
      BY <2>7, <2>8, <3>1
    <3>3. QED
      BY <2>1, <2>3, <2>7, <2>8, <3>1, <3>2, IdleLive
  <2>10. CASE UserPurge
    <3>1. /\ UNCHANGED vms /\ UNCHANGED lease /\ At("idle")
          /\ admin' = [step |-> "confirm", purge |-> TRUE, vms |-> VmDirs]
      BY <2>10 DEF UserPurge, AdminBegins, pool
    <3>2. \A n \in VmRecords : lease[n] = vmDir[n].ip
      BY <2>5, <3>1 DEF At
    <3>3. QED
      BY <2>1, <2>3, <2>4, <2>8, <3>1, <3>2, IdleLive
  <2>11. CASE Confirmed
    <3> DEFINE names == IF admin.vms = {} THEN {} ELSE VmDirs
    <3>1. /\ UNCHANGED vms /\ UNCHANGED lease /\ admin.step = "confirm"
          /\ admin'.step = (IF names = {} THEN "folder" ELSE "destroy")
          /\ admin'.purge = admin.purge /\ admin'.vms = names
      BY <1>0, <2>11 DEF Confirmed, pool, At
    <3>2. names = VmDirs
      BY <2>6, <3>1
    <3> HIDE DEF names
    <3>3. \A n \in VmRecords : lease[n] = vmDir[n].ip
      BY <2>5, <3>1
    <3>4. \A n \in VmNames : vmMachine'[n] # NoIp =>
            /\ n \in vmState' /\ n \in VmRecords' /\ vmDir'[n].ip = vmMachine'[n]
            /\ admin'.step \in {"idle", "confirm", "destroy"}
            /\ admin'.step = "destroy" => n \in admin'.vms
      BY <2>4, <2>8, <3>1, <3>2
    <3>5. admin'.step # "confirm" /\ admin'.purge
      BY <2>6, <3>1
    <3>6. QED
      BY <2>1, <2>3, <2>8, <3>1, <3>3, <3>4, <3>5, IdleLive
  <2>12. CASE PurgeVm
    <3>1. PICK n \in admin.vms :
            /\ admin' = [admin EXCEPT !.vms = @ \ {n},
                                      !.step = IF admin.vms = {n} THEN "folder" ELSE @]
            /\ IF vmDir[n] = NoDir THEN UNCHANGED << vmMachine, vmState, faults >> ELSE Destroy(n)
      BY <2>12 DEF PurgeVm
    <3>2. /\ UNCHANGED << lease, vmDir >> /\ admin.step = "destroy" /\ n \in VmNames
      BY <1>0, <2>12 DEF PurgeVm, pool, At
    <3>3. /\ admin'.step = (IF admin.vms = {n} THEN "folder" ELSE "destroy")
          /\ admin'.purge = admin.purge /\ admin'.vms = admin.vms \ {n}
      BY <1>0, <3>1, <3>2
    <3>4. /\ vmMachine'[n] = NoIp
          /\ \A m \in VmNames : m # n => vmMachine'[m] = vmMachine[m] /\ (m \in vmState' <=> m \in vmState)
      <4>1. CASE vmDir[n] = NoDir
        BY <2>4, <3>1, <3>2, <4>1
      <4>2. CASE vmDir[n] # NoDir
        <5>1. /\ vmMachine' = [vmMachine EXCEPT ![n] = IF n \in vmState THEN NoIp ELSE vmMachine[n]]
              /\ vmState' = vmState \ {n}
          BY <1>0, <3>1, <4>2 DEF Destroy, Fault
        <5>2. vmMachine'[n] = IF n \in vmState THEN NoIp ELSE vmMachine[n]
          BY <1>0, <3>2, <5>1 DEF VmInv
        <5>3. \A m \in VmNames : m # n => vmMachine'[m] = vmMachine[m]
          BY <1>0, <5>1 DEF VmInv
        <5>4. QED
          BY <2>4, <3>2, <5>1, <5>2, <5>3
      <4>3. QED
        BY <4>1, <4>2
    <3>5. ASSUME NEW m \in VmNames, vmMachine'[m] # NoIp
          PROVE  /\ m \in vmState' /\ m \in VmRecords' /\ vmDir'[m].ip = vmMachine'[m]
                 /\ admin'.step = "destroy" /\ m \in admin'.vms
      <4>1. m # n /\ vmMachine[m] # NoIp
        BY <3>4, <3>5
      <4>2. m \in vmState /\ m \in VmRecords /\ vmDir[m].ip = vmMachine[m] /\ m \in admin.vms
        BY <2>4, <3>2, <4>1
      <4>3. QED
        BY <3>2, <3>3, <3>4, <4>1, <4>2 DEF VmRecords
    <3>6. VmRecords' = VmRecords
      BY <3>2 DEF VmRecords
    <3>7. \A m \in VmRecords' : lease'[m] = vmDir'[m].ip
      BY <2>5, <3>2, <3>6
    <3>8. admin'.step # "confirm" /\ admin'.purge
      BY <2>6, <3>2, <3>3
    <3>9. QED
      BY <2>1, <2>3, <3>5, <3>7, <3>8, IdleLive
  <2>13. ASSUME admin.step \notin {"idle", "confirm", "destroy"}, UNCHANGED vms, admin'.purge = admin.purge,
                admin'.step # "confirm",
                admin'.step \notin {"users", "data"} => admin.step \notin {"users", "data"} /\ UNCHANGED lease
         PROVE  LiveInv'
    <3>1. \A n \in VmNames : vmMachine'[n] = NoIp
      BY <2>4, <2>8, <2>13
    <3>2. admin'.step \notin {"users", "data"} => \A n \in VmRecords' : lease'[n] = vmDir'[n].ip
      BY <2>5, <2>8, <2>13
    <3>3. QED
      BY <2>1, <2>3, <2>6, <2>8, <2>13, <3>1, <3>2, IdleLive
  <2>14. CASE DeleteFolder \/ FreeBlock \/ FreeLeases \/ RemoveUserDir
    <3>1. UNCHANGED vms /\ admin'.purge = admin.purge
      BY <1>0, <2>14 DEF DeleteFolder, FolderGone, FreeBlock, FreeLeases, RemoveUserDir, AdminGoto
    <3>2. \/ admin.step = "folder" /\ admin'.step \in {"block", "users"} /\ UNCHANGED lease
          \/ admin.step = "block" /\ admin'.step = "leases" /\ UNCHANGED lease
          \/ admin.step = "leases" /\ admin'.step = "users"
          \/ admin.step = "users" /\ admin'.step = "data"
      BY <1>0, <2>14 DEF DeleteFolder, FolderGone, FreeBlock, FreeLeases, RemoveUserDir, AdminGoto, At, pool
    <3>3. QED
      BY <2>13, <3>1, <3>2
  <2>15. CASE RemoveData
    <3>1. /\ vmDir' = [n \in VmNames |-> NoDir] /\ vmMachine' = vmMachine
          /\ admin.step = "data" /\ admin'.step = "userdel"
      BY <1>0, <2>15 DEF RemoveData, AdminGoto, At
    <3>2. VmDirs' = {} /\ VmRecords' = {}
      BY <3>1 DEF VmDirs, VmRecords
    <3>3. \A n \in VmNames : vmMachine'[n] = NoIp
      BY <2>4, <3>1
    <3>4. QED
      BY <2>1, <2>3, <3>1, <3>2, <3>3, IdleLive
  <2>16. CASE Userdel \/ AdminStops
    <3>1. /\ UNCHANGED vms /\ UNCHANGED lease
          /\ admin'.step = "idle"
      BY <2>16 DEF Userdel, AdminStops, AdminEnds, NoTask, pool
    <3>2. \A n \in VmRecords : lease[n] = vmDir[n].ip
      <4>1. CASE admin.step \notin {"users", "data"}
        BY <2>5, <4>1
      <4>2. CASE admin.step \in {"users", "data"}
        <5>1. AdminStops
          BY <2>16, <4>2 DEF Userdel, At
        <5>2. ~admin.purge
          BY <1>0, <4>2, <5>1 DEF AdminStops, Fault, At
        <5>3. QED
          BY <2>6, <2>7, <4>2, <5>2
      <4>3. QED
        BY <4>1, <4>2
    <3>3. QED
      BY <2>1, <2>3, <2>4, <2>8, <3>1, <3>2, IdleLive
  <2>18. CASE RemoveDataFails
    <3>1. /\ vmMachine' = vmMachine /\ admin' = NoTask
          /\ admin.step = "data" /\ ~admin.purge
      BY <1>0, <2>18 DEF RemoveDataFails, AdminEnds, Fault, At
    <3>2. VmDirs = {} /\ admin'.step = "idle"
      BY <2>6, <3>1 DEF NoTask
    <3>3. \A n \in VmNames : vmDir'[n] = NoDir
      BY <2>18, <3>2, RemoveDataFailsKeeps DEF VmDirs
    <3>4. VmRecords' = {} /\ VmDirs' = {}
      BY <3>3 DEF VmRecords, VmDirs
    <3>5. \A n \in VmNames : vmMachine'[n] = NoIp
      BY <2>7, <3>1, <3>2
    <3>6. QED
      BY <2>1, <2>3, <3>2, <3>4, <3>5, IdleLive
  <2>17. QED
    BY <1>2, <2>9, <2>10, <2>11, <2>12, <2>14, <2>15, <2>16, <2>18 DEF AdminStep
<1>3. QED
  BY <1>1, <1>2

LEMMA LiveKeeps ==
  ASSUME TypeInv, AdminInv, AloneInv, DirsInv, RunningInv, LiveInv, faults' \subseteq Harmless, [Next]_vars
  PROVE  LiveInv'
<1>0. "overlap" \notin faults' /\ "restart" \notin faults' /\ MachinesInv /\ NodesInv /\ AddressInv
  BY DEF Harmless, LiveInv
<1>1. ASSUME NEW h \in Handlers, VmStep(h), UNCHANGED << clusters, users >> PROVE LiveInv'
  BY <1>0, <1>1, VmKeepsMachines, VmKeepsAddresses DEF LiveInv
<1>2. ASSUME NEW h \in Handlers, ClusterStep(h), UNCHANGED << vms, users >> PROVE LiveInv'
  BY <1>0, <1>2, ClusterKeepsMachines, ClusterKeepsAddresses DEF LiveInv
<1>3. CASE UNCHANGED vars
  BY <1>3, LiveSame DEF vars, pool, users
<1>4. CASE Restart
  <2>1. Idle
    BY <1>0, <1>4 DEF Restart, Fault, Idle
  <2>2. QED
    BY <1>3, <1>4, <2>1, IdleRestart
<1>5. CASE AdminStep
  BY <1>5, AdminKeepsLive
<1>6. QED
  BY <1>1, <1>2, <1>3, <1>4, <1>5 DEF Next

\* A directory without metadata.json has somebody who will write it or remove the
\* directory.
LEMMA StuckKeeps ==
  ASSUME TypeInv, AdminInv, AloneInv, DirsInv, RunningInv, StuckInv,
         faults' \cap Sticking = {}, [Next]_vars
  PROVE  StuckInv'
<1>0. /\ JobsInv /\ VmInv /\ Tidy' /\ NoDir # Bare /\ Ending \cap Beginnings = {}
      /\ "restart" \notin faults' /\ "unleased" \notin faults'
  BY ProvisionerAssumption DEF TypeInv, Sticking, Tidy, Ending, Beginnings
<1>1. ASSUME UNCHANGED << pc, job >>, \A n \in VmNames : vmDir'[n] = Bare => vmDir[n] = Bare
      PROVE  StuckInv'
  BY <1>1 DEF StuckInv, On, Name
<1>2. ASSUME NEW h \in Handlers, VmStep(h), NEW n \in VmNames, vmDir'[n] = Bare
      PROVE  \E g \in Handlers : On(g, Ending, n)'
  <2>1. CASE pc[h] = "idle" \/ n # Name(h)
    <3>1. vmDir[n] = Bare
      BY <1>2, <2>1, VmFrame DEF SameVm
    <3>2. PICK g \in Handlers : On(g, Ending, n)
      BY <3>1 DEF StuckInv
    <3>3. ~On(h, Ending, n) /\ \A k \in Handlers : k # h => (On(k, Ending, n)' <=> On(k, Ending, n))
      BY <1>0, <1>2, <2>1, OnStep
    <3>4. QED
      BY <3>2, <3>3
  <2>2. CASE pc[h] # "idle" /\ n = Name(h)
    <3>1. VmAt(h) /\ pc[h] \in VmSteps
      BY <1>2, <2>2, VmStepIs DEF DirsInv
    <3>2. On(h, Ending, n)' <=> pc'[h] \in Ending
      BY <1>0, <1>2, <2>2, OnStep
    <3>3. vmDir[n] = Bare => pc[h] \in Ending
      <4>1. ASSUME vmDir[n] = Bare PROVE \E g \in Handlers : On(g, Ending, n)
        BY <4>1 DEF StuckInv
      <4>2. (\A g \in Handlers : g # h => ~On(g, Ending, n)) /\ (On(h, Ending, n) <=> pc[h] \in Ending)
        BY <1>0, <1>2, <2>2, OnStep
      <4>3. QED
        BY <4>1, <4>2
    <3>4. n \in VmRecords' => vmDir'[n] # Bare
      BY DEF VmRecords
    <3>5. CASE pc[h] \in {"vm-test", "vm-allocate", "vm-apply", "vm-find"}
      <4>1. UNCHANGED vmDir
        <5>1. pc[h] \in {"vm-test", "vm-allocate", "vm-find"} => UNCHANGED vms
          BY <1>0, <1>2, <2>2, <3>1, VmEffects
        <5>2. pc[h] = "vm-apply" => UNCHANGED << pool, vmDir >>
          BY <1>0, <1>2, <2>2, <3>1, VmEffects
        <5>3. QED
          BY <3>5, <5>1, <5>2 DEF vms
      <4>2. QED
        BY <1>2, <3>3, <3>5, <4>1 DEF Ending
    <3>6. CASE pc[h] = "vm-mkdir"
      <4>1. pc'[h] = "vm-prepare"
        BY <1>0, <1>2, <2>2, <3>1, <3>6, VmEffects
      <4>2. QED
        BY <1>2, <3>2, <4>1 DEF Ending
    <3>7. CASE pc[h] = "vm-prepare"
      <4>1. vmDir'[n] = [status |-> "creating", ip |-> job[h].ips[1]] \/ pc'[h] = "vm-return"
        BY <1>0, <1>2, <2>2, <3>1, <3>7, VmEffects
      <4>2. [status |-> "creating", ip |-> job[h].ips[1]] # Bare
        <5>1. job[h].ips[1] \in BlockIps
          BY <1>0, <3>7, Holds DEF HasIps
        <5>2. [status |-> "creating", ip |-> job[h].ips[1]] \in BlockVm
          BY <5>1 DEF BlockVm, VmStatus
        <5>3. QED
          BY <1>0, <5>2, Records
      <4>3. QED
        BY <1>2, <3>2, <4>1, <4>2 DEF Ending
    <3>8. CASE pc[h] \in {"vm-running", "vm-failed"}
      <4>1. n \in VmRecords'
        BY <1>0, <1>2, <2>2, <3>1, <3>8, VmEffects
      <4>2. QED
        BY <1>2, <3>4, <4>1
    <3>9. CASE pc[h] = "vm-mark"
      <4>1. n \in VmRecords'
        BY <1>0, <1>2, <2>2, <3>1, <3>9, VmEffects
      <4>2. QED
        BY <1>2, <3>4, <4>1
    <3>10. CASE pc[h] \in {"vm-destroy", "vm-return"}
      <4>1. pc'[h] \in {"vm-return", "vm-remove"}
        BY <1>0, <1>2, <2>2, <3>1, <3>10, VmEffects
      <4>2. QED
        BY <1>2, <3>2, <4>1 DEF Ending
    <3>11. CASE pc[h] = "vm-remove"
      <4>1. vmDir'[n] = NoDir
        BY <1>0, <1>2, <2>2, <3>1, <3>11, VmEffects
      <4>2. QED
        BY <1>0, <1>2, <4>1
    <3>12. QED
      BY <3>1, <3>5, <3>6, <3>7, <3>8, <3>9, <3>10, <3>11 DEF VmSteps
  <2>3. QED
    BY <2>1, <2>2
<1>3. ASSUME NEW h \in Handlers, ClusterStep(h), UNCHANGED << vms, users >> PROVE StuckInv'
  <2>1. ASSUME NEW n \in VmNames, NEW g \in Handlers PROVE On(g, Ending, n)' <=> On(g, Ending, n)
    <3>1. pc[h] = "idle" \/ Name(h) \in Clusters
      BY <1>0, <1>3, ClusterStepIs, Holds
    <3>2. pc[h] = "idle" \/ n # Name(h)
      BY <3>1, VmAssumption, ClusterAssumption
    <3>3. QED
      BY <1>0, <1>3, <3>2, OnStep
  <2>2. QED
    BY <1>3, <2>1 DEF StuckInv, vms
<1>4. CASE UNCHANGED vars
  BY <1>1, <1>4 DEF vars, vms
<1>5. CASE AdminStep
  <2>1. UNCHANGED << pc, job >>
    BY <1>5, AdminJobs
  <2>2. CASE RemoveData
    <3>1. \A n \in VmNames : vmDir'[n] = NoDir
      BY <2>2 DEF RemoveData
    <3>2. QED
      BY <1>0, <1>1, <2>1, <3>1
  <2>3. CASE RemoveDataFails
    <3>1. admin.step = "data" /\ ~admin.purge
      BY <1>0, <2>3 DEF RemoveDataFails, Fault, At
    <3>2. VmDirs = {}
      BY <3>1 DEF RunningInv, At
    <3>3. \A n \in VmNames : vmDir'[n] = NoDir
      BY <2>3, <3>2, RemoveDataFailsKeeps DEF VmDirs
    <3>4. QED
      BY <1>0, <1>1, <2>1, <3>3
  <2>4. CASE UserAdd \/ AllocateBlock \/ FolderByHand \/ UserDelete \/ UserPurge
    BY <1>1, <2>1, <2>4 DEF UserAdd, AllocateBlock, FolderByHand, UserDelete, UserPurge, AdminBegins, vms
  <2>5. CASE Confirmed \/ PurgeVm \/ DeleteFolder \/ FreeBlock \/ FreeLeases
    BY <1>1, <2>1, <2>5 DEF Confirmed, PurgeVm, DeleteFolder, FreeBlock, FreeLeases, vms
  <2>6. CASE RemoveUserDir \/ Userdel \/ AdminStops
    BY <1>1, <2>1, <2>6 DEF RemoveUserDir, Userdel, AdminStops, vms
  <2>7. QED
    BY <1>5, <2>2, <2>3, <2>4, <2>5, <2>6 DEF AdminStep
<1>6. CASE Restart
  <2>1. Idle
    BY <1>0, <1>6 DEF Restart, Fault, Idle
  <2>2. QED
    BY <1>4, <1>6, <2>1, IdleRestart
<1>7. ASSUME NEW h \in Handlers, VmStep(h) PROVE StuckInv'
  BY <1>2, <1>7 DEF StuckInv
<1>8. QED
  BY <1>3, <1>4, <1>5, <1>6, <1>7 DEF Next

-----------------------------------------------------------------------------
(* The invariant, and what it is for. *)

LEMMA NothingYet == Init => IInv2
<1> SUFFICES ASSUME Init PROVE IInv2
  OBVIOUS
<1>1. /\ \A h \in Handlers : pc[h] = "idle" /\ job[h] = NoJob
      /\ \A n \in VmNames : vmDir[n] = NoDir /\ vmMachine[n] = NoIp
      /\ \A c \in Clusters : clusterDir[c] = NoDir /\ nodeIps[c] = << >>
      /\ \A n \in Names : lease[n] = NoIp
      /\ admin = NoTask /\ admin.step = "idle" /\ ~admin.purge
  BY DEF Init, PoolInit, VmInit, ClusterInit, UserInit, NoTask
<1>2. VmRecords = {} /\ VmDirs = {} /\ ClusterRecords = {} /\ ~HasClusters /\ Leased = {}
  BY <1>1 DEF VmRecords, VmDirs, ClusterRecords, HasClusters, Leased
<1>3. ASSUME NEW S, "idle" \notin S, NEW h \in Handlers, NEW n PROVE ~On(h, S, n)
  BY <1>1, <1>3 DEF On
<1>4. "idle" \notin VmHolding /\ "idle" \notin ClHolding
  BY DEF VmHolding, ClHolding
<1>5. AloneInv
  <2>1. Range(<< >>) = {}
    BY DEF Range
  <2>2. QED
    BY <1>1, <2>1 DEF AloneInv, NoJob
<1>6. DirsInv
  BY <1>1 DEF DirsInv, VmAt, ClusterAt
<1>7. RunningInv
  BY <1>1, <1>2 DEF RunningInv, At
<1>8. TrackedInv
  BY <1>1, <1>2, BlockNumbers DEF TrackedInv, At
<1>9. LiveInv
  <2>1. /\ \A n, x : ~VmHas(n, x)
        /\ \A c, x : ~ClusterHas(c, x)
    BY <1>2, <1>3, <1>4 DEF VmHas, ClusterHas
  <2>2. VmLeasesInv /\ ApartInv
    BY <2>1 DEF VmLeasesInv, ApartInv
  <2>3. /\ \A c \in Clusters : RecordAt(c)
        /\ \A h \in Handlers : HeldAt(h)
    BY <1>1, <1>2, <1>4 DEF RecordAt, HeldAt
  <2>4. MachinesInv /\ NodesInv
    BY <1>1, <1>2 DEF MachinesInv, NodesInv, At
  <2>5. QED
    BY <2>2, <2>3, <2>4 DEF LiveInv, AddressInv
<1>10. StuckInv
  BY <1>1, ProvisionerAssumption DEF StuckInv
<1>11. QED
  BY <1>5, <1>6, <1>7, <1>8, <1>9, <1>10 DEF IInv2

\* Who has what stays known as long as nothing goes wrong that hides it: what has gone
\* wrong is never forgotten.
THEOREM ResourcesOwners == Spec => []IInv2
<1>1. ASSUME IInv, IInv2, [Next]_vars PROVE IInv2'
  <2>1. TypeInv /\ AdminInv /\ faults \subseteq faults'
    BY <1>1, HistoryKeeps DEF IInv
  <2>2. ASSUME Tidy' PROVE /\ AloneInv /\ DirsInv /\ RunningInv
                           /\ AloneInv' /\ DirsInv' /\ RunningInv'
    <3>1. AloneInv /\ DirsInv /\ RunningInv /\ "overlap" \notin faults'
      BY <1>1, <2>1, <2>2 DEF IInv2, Tidy
    <3>2. QED
      BY <1>1, <2>1, <2>2, <3>1, AloneKeeps, DirsKeep, RunningKeeps
  <2>3. ASSUME faults' \cap Untracked = {} PROVE TrackedInv'
    <3>1. Tidy' /\ faults \cap Untracked = {}
      BY <2>1, <2>3 DEF Untracked, Tidy
    <3>2. AloneInv /\ DirsInv /\ RunningInv /\ TrackedInv
      BY <1>1, <2>2, <3>1 DEF IInv2
    <3>3. QED
      BY <1>1, <2>1, <2>3, <3>2, TrackedKeeps
  <2>4. ASSUME faults' \subseteq Harmless PROVE LiveInv'
    <3>1. Tidy' /\ faults \subseteq Harmless
      BY <2>1, <2>4 DEF Harmless, Tidy
    <3>2. AloneInv /\ DirsInv /\ RunningInv /\ LiveInv
      BY <1>1, <2>2, <3>1 DEF IInv2
    <3>3. QED
      BY <1>1, <2>1, <2>4, <3>2, LiveKeeps
  <2>5. ASSUME faults' \cap Sticking = {} PROVE StuckInv'
    <3>1. Tidy' /\ faults \cap Sticking = {}
      BY <2>1, <2>5 DEF Sticking, Tidy
    <3>2. AloneInv /\ DirsInv /\ RunningInv /\ StuckInv
      BY <1>1, <2>2, <3>1 DEF IInv2
    <3>3. QED
      BY <1>1, <2>1, <2>5, <3>2, StuckKeeps
  <2>6. QED
    BY <2>2, <2>3, <2>4, <2>5 DEF IInv2
<1>2. IInv /\ IInv2 /\ [Next]_vars => IInv2'
  BY <1>1
<1>3. QED
  BY <1>2, NothingYet, ResourcesInvariant, PTL DEF Spec

\* What VmApply has reported as running stays there until the record says otherwise:
\* delete-vm marks it first, and only a purge destroys machines before their records.
THEOREM ResourcesRunning == Spec => []RunningIsLive
<1>1. IInv2 => RunningIsLive
  BY DEF IInv2, Tidy, RunningInv, RunningIsLive
<1>2. QED
  BY <1>1, ResourcesOwners, PTL

\* What a goroutine is at a step for, it is busy with.
LEMMA OnBusy ==
  ASSUME JobsInv, NEW h \in Handlers, NEW S, NEW n, "idle" \notin S, On(h, S, n)
  PROVE  Busy(n)
<1>1. n \in Range(job[h].names)
  BY Holds DEF On
<1>2. QED
  BY <1>1 DEF Busy

\* As long as requests for one name do not overlap, no disk is full, the server is not
\* restarted and no purge stops among the directories, a directory without
\* metadata.json is one that a request still works on: create-vm writes the file or
\* removes the directory, and delete-vm removes it.
THEOREM ResourcesNeverStuck == Spec => []NameNeverStuck
<1>1. IInv /\ IInv2 => NameNeverStuck
  <2>1. IInv => JobsInv
    BY DEF IInv, TypeInv
  <2>2. "idle" \notin Ending
    BY DEF Ending
  <2>3. QED
    BY <2>1, <2>2, OnBusy DEF IInv2, StuckInv, Sticking, NameNeverStuck
<1>2. QED
  BY <1>1, ResourcesInvariant, ResourcesOwners, PTL

\* Every lease is named by the record of a VM or cluster, which a delete request reads,
\* or is in the hands of a request: none is lost by a failed terraform, a failed destroy,
\* a failed allocation or a command of the administrator that stops.
THEOREM ResourcesLeasesFound == Spec => []LeaseHasRecord
<1>1. IInv /\ IInv2 => LeaseHasRecord
  <2> SUFFICES ASSUME IInv, IInv2, faults \cap Untracked = {}, NEW n \in Leased
               PROVE  \/ n \in VmNames /\ (Busy(n) \/ (n \in VmRecords /\ vmDir[n].ip = lease[n]))
                      \/ \E c \in Clusters : n \in Range(Nodes[c]) /\
                           (Busy(c) \/ (c \in ClusterRecords /\ lease[n] \in Range(clusterDir[c].ips)))
    BY DEF LeaseHasRecord, Untracked
  <2>0. JobsInv /\ PoolInv
    BY DEF IInv, TypeInv
  <2>1. PICK x \in BlockIps : n \in Names /\ lease[n] = x
    BY <2>0 DEF PoolInv, Leased
  <2>2. Tracked(n, x)
    BY <2>1 DEF IInv2, TrackedInv
  <2>3. "idle" \notin VmHolding /\ "idle" \notin ClHolding
    BY DEF VmHolding, ClHolding
  <2>4. n \in VmNames /\ VmHas(n, x) => Busy(n) \/ (n \in VmRecords /\ vmDir[n].ip = x)
    BY <2>0, <2>3, OnBusy DEF VmHas
  <2>5. \A c \in Clusters : ClusterHas(c, x) =>
          Busy(c) \/ (c \in ClusterRecords /\ x \in Range(clusterDir[c].ips))
    BY <2>0, <2>3, OnBusy DEF ClusterHas
  <2>6. QED
    BY <2>1, <2>2, <2>4, <2>5 DEF Tracked
<1>2. QED
  BY <1>1, ResourcesInvariant, ResourcesOwners, PTL

\* A user who is deleted or purged leaves no lease, although user_delete looks for VM
\* directories only: whatever a destroy that failed or a command that stopped left
\* behind keeps its directory, and so the account.
THEOREM ResourcesNoLeaseLeft == Spec => []NoLeaseOutlivesUser
<1>1. IInv2 => NoLeaseOutlivesUser
  <2>1. {"destroy", "stopped", "unleased", "reuse"} \cap Untracked = {}
    BY DEF Untracked
  <2>2. QED
    BY <2>1 DEF IInv2, TrackedInv, NoLeaseOutlivesUser
<1>2. QED
  BY <1>1, ResourcesOwners, PTL

\* A machine or node that is there uses an address leased to its name.
THEOREM ResourcesLive == Spec => []LiveHasLease
<1>1. IInv /\ IInv2 => LiveHasLease
  <2> SUFFICES ASSUME IInv, IInv2, faults \subseteq Harmless
               PROVE  /\ \A n \in VmNames : vmMachine[n] # NoIp => lease[n] = vmMachine[n]
                      /\ \A c \in Clusters : \A i \in 1 .. Len(nodeIps[c]) : lease[Nodes[c][i]] = nodeIps[c][i]
    BY DEF LiveHasLease, Harmless
  <2>0. VmInv /\ ClusterInv /\ MachinesInv /\ NodesInv /\ AddressInv
    BY DEF IInv, TypeInv, IInv2, LiveInv
  <2>1. ASSUME NEW n \in VmNames, vmMachine[n] # NoIp PROVE lease[n] = vmMachine[n]
    <3>1. /\ n \in VmRecords /\ vmDir[n].ip = vmMachine[n] /\ \A h \in Handlers : ~On(h, VmEnding, n)
          /\ ~(At("users") \/ At("data"))
      BY <2>0, <2>1 DEF MachinesInv, At
    <3>2. n \in VmRecords /\ vmMachine[n] \in BlockIps
      BY <2>0, <2>1, <3>1 DEF VmInv
    <3>3. VmHas(n, vmMachine[n])
      BY <3>1, <3>2 DEF VmHas
    <3>4. QED
      BY <2>0, <3>1, <3>2, <3>3 DEF AddressInv, VmLeasesInv
  <2>2. ASSUME NEW c \in Clusters, NEW i \in 1 .. Len(nodeIps[c]) PROVE lease[Nodes[c][i]] = nodeIps[c][i]
    <3>1. nodeIps[c] # << >>
      <4>1. nodeIps[c] \in Seq(BlockIps)
        BY <2>0 DEF ClusterInv
      <4>2. QED
        BY <4>1, EmptySeq
    <3>2. c \in ClusterRecords /\ clusterDir[c].ips = nodeIps[c] /\ ~Releasing(c)
      BY <2>0, <3>1 DEF NodesInv, Releasing, On, ClEnding, ClRemoving
    <3>3. QED
      BY <2>0, <3>2 DEF AddressInv, RecordAt, Matches
  <2>3. QED
    BY <2>1, <2>2
<1>2. QED
  BY <1>1, ResourcesInvariant, ResourcesOwners, PTL

\* No two machines or nodes use one address, of VMs, of one cluster or of several.
AddressesApart ==
  faults \subseteq Harmless =>
    /\ \A m, n \in VmNames : vmMachine[m] # NoIp /\ vmMachine[m] = vmMachine[n] => m = n
    /\ \A n \in VmNames, c \in Clusters : vmMachine[n] \notin Range(nodeIps[c])
    /\ \A c, d \in Clusters : \A i \in 1 .. Len(nodeIps[c]), j \in 1 .. Len(nodeIps[d]) :
         nodeIps[c][i] = nodeIps[d][j] => c = d /\ i = j

\* As long as nothing has gone wrong but timeouts and commands that stop, what
\* allocate-ip has given out is used once: requests that run side by side, clusters that
\* give back what they took and a restart between requests change nothing in that.
THEOREM ResourcesApart == Spec => []AddressesApart
<1>1. IInv /\ IInv2 => AddressesApart
  <2> SUFFICES ASSUME IInv, IInv2, faults \subseteq Harmless PROVE AddressesApart
    BY DEF AddressesApart
  <2>0. /\ VmInv /\ ClusterInv /\ PoolInv /\ MachinesInv /\ NodesInv /\ AddressInv
        /\ \A n \in VmNames : n \in Names
    BY VmAssumption DEF IInv, TypeInv, IInv2, LiveInv
  <2>1. ASSUME NEW n \in VmNames, vmMachine[n] # NoIp
        PROVE  VmHas(n, vmMachine[n]) /\ vmMachine[n] \in BlockIps /\ lease[n] = vmMachine[n]
    <3>1. /\ n \in VmRecords /\ vmDir[n].ip = vmMachine[n] /\ \A h \in Handlers : ~On(h, VmEnding, n)
          /\ ~(At("users") \/ At("data"))
      BY <2>0, <2>1 DEF MachinesInv, At
    <3>2. n \in VmRecords /\ vmMachine[n] \in BlockIps
      BY <2>0, <2>1, <3>1 DEF VmInv
    <3>3. VmHas(n, vmMachine[n])
      BY <3>1, <3>2 DEF VmHas
    <3>4. QED
      BY <2>0, <3>1, <3>2, <3>3 DEF AddressInv, VmLeasesInv
  <2>2. ASSUME NEW c \in Clusters, NEW i \in 1 .. Len(nodeIps[c])
        PROVE  /\ ClusterHas(c, nodeIps[c][i]) /\ nodeIps[c][i] \in BlockIps
               /\ nodeIps[c][i] \in Range(nodeIps[c]) /\ Injective(nodeIps[c])
    <3>1. nodeIps[c] \in Seq(BlockIps)
      BY <2>0 DEF ClusterInv
    <3>2. nodeIps[c] # << >> /\ nodeIps[c][i] \in BlockIps /\ nodeIps[c][i] \in Range(nodeIps[c])
      BY <3>1, EmptySeq, ElementOfSeq, RangeIs
    <3>3. c \in ClusterRecords /\ clusterDir[c].ips = nodeIps[c] /\ \A h \in Handlers : ~On(h, ClEnding, c)
      BY <2>0, <3>2 DEF NodesInv, On, ClEnding, ClRemoving
    <3>4. ClusterHas(c, nodeIps[c][i])
      BY <3>2, <3>3 DEF ClusterHas
    <3>5. Injective(nodeIps[c])
      BY <2>0, <3>3 DEF AddressInv, RecordAt, Releasing
    <3>6. QED
      BY <3>2, <3>4, <3>5
  <2>3. \A m, n \in VmNames : vmMachine[m] # NoIp /\ vmMachine[m] = vmMachine[n] => m = n
    BY <2>0, <2>1 DEF PoolInv, Leased
  <2>4. ASSUME NEW n \in VmNames, NEW c \in Clusters PROVE vmMachine[n] \notin Range(nodeIps[c])
    <3>1. SUFFICES ASSUME vmMachine[n] \in Range(nodeIps[c]) PROVE FALSE
      OBVIOUS
    <3>2. nodeIps[c] \in Seq(BlockIps)
      BY <2>0 DEF ClusterInv
    <3>3. PICK i \in 1 .. Len(nodeIps[c]) : vmMachine[n] = nodeIps[c][i]
      BY <3>1, <3>2, RangeIs
    <3>4. ClusterHas(c, vmMachine[n]) /\ vmMachine[n] \in BlockIps
      BY <2>2, <3>3
    <3>5. VmHas(n, vmMachine[n])
      BY <2>1, <3>4, BlockNumbers
    <3>6. QED
      BY <2>0, <3>4, <3>5 DEF AddressInv, ApartInv
  <2>5. ASSUME NEW c \in Clusters, NEW d \in Clusters, NEW i \in 1 .. Len(nodeIps[c]),
               NEW j \in 1 .. Len(nodeIps[d]), nodeIps[c][i] = nodeIps[d][j]
        PROVE  c = d /\ i = j
    <3>1. c = d
      <4>1. ClusterHas(c, nodeIps[c][i]) /\ ClusterHas(d, nodeIps[c][i]) /\ nodeIps[c][i] \in BlockIps
        BY <2>2, <2>5
      <4>2. QED
        BY <2>0, <4>1 DEF AddressInv, ApartInv
    <3>2. Injective(nodeIps[c])
      BY <2>2
    <3>3. QED
      BY <2>5, <3>1, <3>2 DEF Injective
  <2>6. QED
    BY <2>3, <2>4, <2>5 DEF AddressesApart
<1>2. QED
  BY <1>1, ResourcesInvariant, ResourcesOwners, PTL
=============================================================================
