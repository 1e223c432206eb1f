------------------------------- MODULE IpPool -------------------------------
(***************************************************************************)
(* What the IP address manager promises its callers: the two ledgers       *)
(* change only by whole grants and returns. The internal scripts of        *)
(* basphere-cli (allocate-block, allocate-ip, release-ip) keep the promise *)
(* in several steps each, under a file lock: Ipam models those steps and   *)
(* implements this specification.                                          *)
(*                                                                         *)
(* A ledger is the set of its lines, without the timestamps. The order of  *)
(* the lines never matters: every reader filters them by their columns.    *)
(***************************************************************************)
EXTENDS IpNetwork, FiniteSets

CONSTANTS
  Users,
  Resources,   \* resource names: VM names, <cluster>-cp, <cluster>-worker-N
  Types,       \* resource types: "vm", ...
  MaxIps       \* quotas.default.max_ips

ASSUME PoolAssumption == MaxIps \in Nat

VARIABLES
  allocations,  \* allocations.tsv
  leases        \* leases.tsv

poolVars == << allocations, leases >>

Allocation == [user : Users, block : Blocks]
Lease == [ip : Nat, user : Users, resource : Resources, type : Types]

BlocksTaken == {a.block : a \in allocations}
HasBlock(u) == \E a \in allocations : a.user = u
LeasesOf(u) == {l \in leases : l.user = u}
LeasedIps == {l.ip : l \in leases}

PoolInit == allocations = {} /\ leases = {}

\* Some block nobody has becomes the user's.
GrantBlock(u) ==
  /\ ~HasBlock(u)
  /\ \E b \in FreeBlocks(BlocksTaken) :
       allocations' = allocations \cup {[user |-> u, block |-> b]}
  /\ UNCHANGED leases

\* Some address of the user's block that nobody holds is leased to a resource.
GrantIp(u, r, t) ==
  /\ Cardinality(LeasesOf(u)) < MaxIps
  /\ ~ \E l \in leases : l.user = u /\ l.resource = r
  /\ \E a \in allocations :
       /\ a.user = u
       /\ \E ip \in FreeIps(a.block, LeasedIps) :
            leases' = leases \cup
              {[ip |-> ip, user |-> u, resource |-> r, type |-> t]}
  /\ UNCHANGED allocations

\* One leased address becomes free again; no other lease is touched.
ReturnIp(ip) ==
  /\ ip \in LeasedIps
  /\ leases' = {l \in leases : l.ip # ip}
  /\ UNCHANGED allocations

PoolNext ==
  \/ \E u \in Users : GrantBlock(u)
  \/ \E u \in Users, r \in Resources, t \in Types : GrantIp(u, r, t)
  \/ \E ip \in LeasedIps : ReturnIp(ip)

PoolSpec == PoolInit /\ [][PoolNext]_poolVars

-----------------------------------------------------------------------------
PoolTypeOK ==
  /\ allocations \subseteq Allocation
  /\ leases \subseteq Lease

\* A user has one block, and no address lies in the blocks of two users.
BlocksExclusive ==
  \A a, b \in allocations :
    a # b => a.user # b.user /\ IpsOf(a.block) \cap IpsOf(b.block) = {}

\* An address is leased to one resource, and a resource of a user has one address.
LeasesExclusive ==
  \A k, l \in leases :
    k # l => k.ip # l.ip /\ ~(k.user = l.user /\ k.resource = l.resource)

\* A lease lies in the block of its user and never on a reserved address.
LeasesInOwnBlock ==
  \A l \in leases :
    \E a \in allocations :
      a.user = l.user /\ l.ip \in IpsOf(a.block) /\ l.ip \notin Reserved

\* No user holds more addresses than the quota.
WithinQuota == \A u \in Users : Cardinality(LeasesOf(u)) <= MaxIps
=============================================================================
