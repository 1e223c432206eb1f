---------------------------- MODULE Provisioner ----------------------------
(***************************************************************************)
(* What virtual machines and clusters have in common: the goroutines of    *)
(* the API server, each of which runs the scripts of one request of one    *)
(* user to their end (provisioner.go), and the user's leases, which the    *)
(* scripts take and give back with allocate-ip and release-ip. Ipam shows  *)
(* that each of those calls is one step of IpPool; here it is one step     *)
(* that may also time out at the ledger's lock.                            *)
(*                                                                         *)
(* Requests of one user may overlap: nothing in the server or the scripts  *)
(* orders them, and a client whose request exceeds the 60 seconds of       *)
(* middleware.Timeout sends it again while the script still runs.          *)
(***************************************************************************)
EXTENDS IpNetwork, FiniteSets, Sequences, Functions

CONSTANTS
  Handlers,   \* goroutines of the API server
  Names,      \* resource names an address can be leased to
  MaxIps,     \* quotas.default.max_ips
  MaxCalls,   \* bound: how many requests and commands are accepted
  NoIp,       \* no lease, no machine
  NoDir,      \* no directory of a VM or cluster
  Bare        \* a directory without metadata.json

ASSUME ProvisionerAssumption ==
  /\ Handlers # {} /\ IsFiniteSet(Handlers)
  /\ MaxIps \in Nat /\ MaxCalls \in Nat
  /\ NoIp \notin Nat
  /\ NoDir # Bare
  /\ FirstBlock \in Blocks

VARIABLES
  account,   \* the system account: UserExists
  hasBlock,  \* whether the user has a block: the first one
  lease,     \* the lines of leases.tsv: the address of each resource
  pc,        \* what each goroutine's script does next
  job,       \* the names it still works on, and the addresses it holds
  admin,     \* what the administrator's user delete or purge does next
  calls,     \* history: how many requests and commands were accepted
  faults     \* history: what has gone wrong so far

pool == << hasBlock, lease >>

NoJob == [names |-> << >>, ips |-> << >>]
NoTask == [step |-> "idle", purge |-> FALSE, vms |-> {}]
Kinds == {"overlap", "reuse", "timeout", "destroy", "restart", "orphan", "stopped",
          "unleased", "disk", "manifest"}

PoolInit ==
  /\ hasBlock = FALSE
  /\ lease = [n \in Names |-> NoIp]
  /\ pc = [h \in Handlers |-> "idle"]
  /\ job = [h \in Handlers |-> NoJob]
  /\ calls = 0
  /\ faults = {}

-----------------------------------------------------------------------------
(* How a request begins, goes on and ends. *)

Name(h) == Head(job[h].names)
Busy(n) == \E h \in Handlers : n \in Range(job[h].names)

AtStep(step) == {Name(h) : h \in {k \in Handlers : pc[k] = step}}

\* Another goroutine's script is at one of these steps for the same name.
OtherAt(h, steps) == \E k \in Handlers \ {h} : pc[k] \in steps /\ Name(k) = Name(h)

\* What rm -rf can leave of a directory: nothing; and when it is interrupted, or a
\* script writes a new file there meanwhile, the directory, whose metadata.json is
\* gone, unless it was not reached yet or is written anew.
CutShort(d) == {NoDir} \cup (IF d = NoDir THEN {} ELSE {Bare, d})
AllCutShort(dir) ==
  {left \in [DOMAIN dir -> Range(dir) \cup {NoDir, Bare}] :
     \A n \in DOMAIN dir : left[n] \in CutShort(dir[n])}

Fault(kinds) == faults' = faults \cup kinds

Begin(h, step, names) ==
  /\ pc[h] = "idle"
  /\ calls < MaxCalls
  /\ calls' = calls + 1
  /\ pc' = [pc EXCEPT ![h] = step]
  /\ job' = [job EXCEPT ![h] = [names |-> names, ips |-> << >>]]
  /\ Fault(IF admin # NoTask \/ \E n \in Range(names) : Busy(n) THEN {"overlap"} ELSE {})

Goto(h, step) == pc' = [pc EXCEPT ![h] = step] /\ UNCHANGED << job, calls >>
Hold(h, step, ips) ==
  /\ pc' = [pc EXCEPT ![h] = step]
  /\ job' = [job EXCEPT ![h] = [names |-> job[h].names, ips |-> ips]]
  /\ UNCHANGED calls
Finish(h) ==
  /\ pc' = [pc EXCEPT ![h] = "idle"]
  /\ job' = [job EXCEPT ![h] = NoJob]
  /\ UNCHANGED calls

-----------------------------------------------------------------------------
(* The internal scripts. *)

Leased == {n \in Names : lease[n] # NoIp}
FreeNow == FreeIps(FirstBlock, {lease[n] : n \in Leased})

\* allocate-ip finds a resource by its name: if it has a lease, that is the
\* answer; the quota and the search come after.
CanLeaseOverQuota(n) == hasBlock /\ (n \in Leased \/ FreeNow # {})
CanLease(n) ==
  hasBlock /\ (n \in Leased \/ (Cardinality(Leased) < MaxIps /\ FreeNow # {}))
AddressFor(n) == IF n \in Leased THEN lease[n] ELSE CHOOSE ip \in FreeNow : IsLeast(ip, FreeNow)

AllocateIp(n) ==
  /\ CanLease(n)
  /\ lease' = [lease EXCEPT ![n] = AddressFor(n)]
  /\ Fault(IF n \in Leased THEN {"reuse"} ELSE {})
  /\ UNCHANGED hasBlock

\* release-ip removes the line of the address if it is the user's, whatever
\* resource it is leased to. All callers ignore its failure.
ReleaseIp(ip) ==
  /\ \/ lease' = [n \in Names |-> IF lease[n] = ip THEN NoIp ELSE lease[n]] /\ Fault({})
     \/ UNCHANGED lease /\ Fault({"timeout"})
  /\ UNCHANGED hasBlock
=============================================================================
