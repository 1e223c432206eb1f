---------------------------- MODULE IpPoolProofs ----------------------------
(***************************************************************************)
(* The promises of IpPool hold for every network, quota and set of users:  *)
(* their conjunction is inductive. The step lemma is stated without the    *)
(* specification so that Ipam can use it for the steps it maps to IpPool.  *)
(***************************************************************************)
EXTENDS IpPool, FiniteSetTheorems, TLAPS

\* A ledger file has finitely many lines: what the counts of WithinQuota need.
PoolInv ==
  /\ PoolTypeOK
  /\ IsFiniteSet(leases)
  /\ BlocksExclusive
  /\ LeasesExclusive
  /\ LeasesInOwnBlock
  /\ WithinQuota

-----------------------------------------------------------------------------
\* Two blocks that share an address are one block: candidate blocks begin a
\* multiple of BlockSize apart.
LEMMA BlocksDisjoint ==
  ASSUME NEW b \in Blocks, NEW c \in Blocks, IpsOf(b) \cap IpsOf(c) # {}
  PROVE  b = c
<1>1. b \in Int /\ c \in Int /\ NetworkStart \in Int /\ BlockSize \in Nat \ {0}
  BY NetworkAssumption DEF Blocks, FirstBlock, NetworkEnd
<1>2. b - c < BlockSize /\ c - b < BlockSize
  BY <1>1 DEF IpsOf
<1>3. ASSUME NEW x \in Blocks
      PROVE  \E k \in Int : x = NetworkStart + BlockSize * k
  <2>1. x \in Int /\ (x - NetworkStart) % BlockSize = 0
    BY <1>1, NetworkAssumption DEF Blocks, FirstBlock, NetworkEnd
  <2>2. x - NetworkStart = BlockSize * ((x - NetworkStart) \div BlockSize)
    BY <1>1, <2>1
  <2>3. QED
    BY <1>1, <2>1, <2>2
<1>4. PICK m \in Int : b = NetworkStart + BlockSize * m
  BY <1>3
<1>5. PICK n \in Int : c = NetworkStart + BlockSize * n
  BY <1>3
<1>6. b - c = BlockSize * (m - n)
  BY <1>1, <1>4, <1>5
<1>7. m = n
  BY <1>1, <1>2, <1>6
<1>8. QED
  BY <1>4, <1>5, <1>7

-----------------------------------------------------------------------------
LEMMA PoolInitial == PoolInit => PoolInv
<1> SUFFICES ASSUME PoolInit PROVE PoolInv
  OBVIOUS
<1>1. allocations = {} /\ leases = {}
  BY DEF PoolInit
<1>2. WithinQuota
  <2>1. \A u \in Users : LeasesOf(u) = {}
    BY <1>1 DEF LeasesOf
  <2>2. QED
    BY <2>1, FS_EmptySet, PoolAssumption DEF WithinQuota
<1>3. QED
  BY <1>1, <1>2, FS_EmptySet
  DEF PoolInv, PoolTypeOK, BlocksExclusive, LeasesExclusive, LeasesInOwnBlock

LEMMA GrantBlockStep ==
  ASSUME PoolInv, NEW u \in Users, GrantBlock(u)
  PROVE  PoolInv'
<1>1. PICK b \in FreeBlocks(BlocksTaken) :
        allocations' = allocations \cup {[user |-> u, block |-> b]}
  BY DEF GrantBlock
<1> DEFINE new == [user |-> u, block |-> b]
<1>2. leases' = leases /\ ~HasBlock(u) /\ b \in Blocks
  BY DEF GrantBlock, FreeBlocks
<1>3. PoolTypeOK'
  BY <1>1, <1>2 DEF PoolInv, PoolTypeOK, Allocation
<1>4. \A a \in allocations : a.user # u /\ IpsOf(a.block) \cap IpsOf(b) = {}
  <2> SUFFICES ASSUME NEW a \in allocations
               PROVE  a.user # u /\ IpsOf(a.block) \cap IpsOf(b) = {}
    OBVIOUS
  <2>1. a.block \in Blocks
    BY DEF PoolInv, PoolTypeOK, Allocation
  <2>2. a.block # b
    BY DEF FreeBlocks, BlocksTaken
  <2>3. IpsOf(a.block) \cap IpsOf(b) = {}
    BY <1>2, <2>1, <2>2, BlocksDisjoint
  <2>4. QED
    BY <1>2, <2>3 DEF HasBlock
<1>5. BlocksExclusive'
  <2> SUFFICES ASSUME NEW k \in allocations', NEW l \in allocations', k # l
               PROVE  /\ k.user # l.user
                      /\ IpsOf(k.block) \cap IpsOf(l.block) = {}
    BY DEF BlocksExclusive
  <2>1. CASE k \in allocations /\ l \in allocations
    BY <2>1 DEF PoolInv, BlocksExclusive
  <2>2. CASE k \in allocations /\ l = new
    BY <1>4, <2>2
  <2>3. CASE k = new /\ l \in allocations
    BY <1>4, <2>3
  <2>4. QED
    BY <1>1, <2>1, <2>2, <2>3
<1>6. LeasesInOwnBlock'
  BY <1>1, <1>2 DEF PoolInv, LeasesInOwnBlock
<1>7. LeasesExclusive' /\ WithinQuota' /\ IsFiniteSet(leases')
  BY <1>2 DEF PoolInv, LeasesExclusive, WithinQuota, LeasesOf
<1>8. QED
  BY <1>3, <1>5, <1>6, <1>7 DEF PoolInv

LEMMA GrantIpStep ==
  ASSUME PoolInv, NEW u \in Users, NEW r \in Resources, NEW t \in Types,
         GrantIp(u, r, t)
  PROVE  PoolInv'
<1>1. PICK a \in allocations :
        /\ a.user = u
        /\ \E ip \in FreeIps(a.block, LeasedIps) :
             leases' = leases \cup
               {[ip |-> ip, user |-> u, resource |-> r, type |-> t]}
  BY DEF GrantIp
<1>2. PICK ip \in FreeIps(a.block, LeasedIps) :
        leases' = leases \cup
          {[ip |-> ip, user |-> u, resource |-> r, type |-> t]}
  BY <1>1
<1> DEFINE new == [ip |-> ip, user |-> u, resource |-> r, type |-> t]
<1>3. /\ allocations' = allocations
      /\ Cardinality(LeasesOf(u)) < MaxIps
      /\ \A l \in leases : ~(l.user = u /\ l.resource = r)
  BY DEF GrantIp
<1>4. ip \in IpsOf(a.block) /\ ip \notin Reserved /\ \A l \in leases : l.ip # ip
  BY DEF FreeIps, LeasedIps
<1>5. PoolTypeOK'
  <2>1. a.block \in Nat
    BY NetworkAssumption
    DEF PoolInv, PoolTypeOK, Allocation, Blocks, FirstBlock, NetworkEnd
  <2>2. ip \in Nat
    BY <1>4, <2>1, NetworkAssumption DEF IpsOf
  <2>3. QED
    BY <1>2, <1>3, <2>2 DEF PoolInv, PoolTypeOK, Lease
<1>6. IsFiniteSet(leases')
  BY <1>2, FS_AddElement DEF PoolInv
<1>7. LeasesExclusive'
  <2> SUFFICES ASSUME NEW k \in leases', NEW l \in leases', k # l
               PROVE  k.ip # l.ip /\ ~(k.user = l.user /\ k.resource = l.resource)
    BY DEF LeasesExclusive
  <2>1. CASE k \in leases /\ l \in leases
    BY <2>1 DEF PoolInv, LeasesExclusive
  <2>2. CASE k \in leases /\ l = new
    BY <1>3, <1>4, <2>2
  <2>3. CASE k = new /\ l \in leases
    BY <1>3, <1>4, <2>3
  <2>4. QED
    BY <1>2, <2>1, <2>2, <2>3
<1>8. LeasesInOwnBlock'
  BY <1>1, <1>2, <1>3, <1>4 DEF PoolInv, LeasesInOwnBlock
<1>9. WithinQuota'
  <2> SUFFICES ASSUME NEW v \in Users PROVE Cardinality(LeasesOf(v)') <= MaxIps
    BY DEF WithinQuota
  <2>1. IsFiniteSet(LeasesOf(v)) /\ Cardinality(LeasesOf(v)) <= MaxIps
    BY FS_Subset DEF PoolInv, LeasesOf, WithinQuota
  <2>2. CASE v = u
    <3>1. LeasesOf(v)' = LeasesOf(v) \cup {new}
      BY <1>2, <2>2 DEF LeasesOf
    <3>2. new \notin LeasesOf(v)
      BY <1>4 DEF LeasesOf
    <3>3. /\ Cardinality(LeasesOf(v)) \in Nat
          /\ Cardinality(LeasesOf(v) \cup {new}) = Cardinality(LeasesOf(v)) + 1
      BY <2>1, <3>2, <2>2, FS_AddElement, FS_CardinalityType
    <3>4. Cardinality(LeasesOf(v)) < MaxIps
      BY <1>3, <2>2
    <3> HIDE DEF new
    <3>5. QED
      BY <3>1, <3>3, <3>4, PoolAssumption
  <2>3. CASE v # u
    <3>1. LeasesOf(v)' = LeasesOf(v)
      BY <1>2, <2>3 DEF LeasesOf
    <3>2. QED
      BY <2>1, <3>1
  <2>4. QED
    BY <2>2, <2>3
<1>10. BlocksExclusive'
  BY <1>3 DEF PoolInv, BlocksExclusive
<1>11. QED
  BY <1>5, <1>6, <1>7, <1>8, <1>9, <1>10 DEF PoolInv

LEMMA ReturnIpStep ==
  ASSUME PoolInv, NEW ip, ReturnIp(ip)
  PROVE  PoolInv'
<1>1. leases' = {l \in leases : l.ip # ip} /\ allocations' = allocations
  BY DEF ReturnIp
<1>2. leases' \in SUBSET leases
  BY <1>1
<1>3. PoolTypeOK' /\ BlocksExclusive' /\ LeasesExclusive' /\ LeasesInOwnBlock'
  BY <1>1, <1>2 DEF PoolInv, PoolTypeOK, BlocksExclusive, LeasesExclusive,
                    LeasesInOwnBlock
<1>4. IsFiniteSet(leases')
  BY <1>2, FS_Subset DEF PoolInv
<1>5. WithinQuota'
  <2> SUFFICES ASSUME NEW v \in Users PROVE Cardinality(LeasesOf(v)') <= MaxIps
    BY DEF WithinQuota
  <2>1. LeasesOf(v)' \in SUBSET LeasesOf(v)
    BY <1>2 DEF LeasesOf
  <2>2. IsFiniteSet(LeasesOf(v)) /\ Cardinality(LeasesOf(v)) <= MaxIps
    BY FS_Subset DEF PoolInv, LeasesOf, WithinQuota
  <2>3. QED
    BY <2>1, <2>2, FS_Subset, FS_CardinalityType, PoolAssumption
<1>6. QED
  BY <1>3, <1>4, <1>5 DEF PoolInv

\* A grant or a return keeps every promise, whatever state it starts from.
THEOREM PoolStep == PoolInv /\ [PoolNext]_poolVars => PoolInv'
<1> SUFFICES ASSUME PoolInv, [PoolNext]_poolVars PROVE PoolInv'
  OBVIOUS
<1>1. CASE \E u \in Users : GrantBlock(u)
  BY <1>1, GrantBlockStep
<1>2. CASE \E u \in Users, r \in Resources, t \in Types : GrantIp(u, r, t)
  BY <1>2, GrantIpStep
<1>3. CASE \E ip \in LeasedIps : ReturnIp(ip)
  BY <1>3, ReturnIpStep
<1>4. CASE UNCHANGED poolVars
  BY <1>4 DEF poolVars, PoolInv, PoolTypeOK, BlocksExclusive, LeasesExclusive,
              LeasesInOwnBlock, WithinQuota, LeasesOf
<1>5. QED
  BY <1>1, <1>2, <1>3, <1>4 DEF PoolNext

\* The promises of the pool: what every caller of the scripts relies on.
THEOREM PoolSafety ==
  PoolSpec => [](/\ BlocksExclusive /\ LeasesExclusive
                 /\ LeasesInOwnBlock /\ WithinQuota)
<1>1. PoolInit => PoolInv
  BY PoolInitial
<1>2. PoolInv /\ [PoolNext]_poolVars => PoolInv'
  BY PoolStep
<1>3. PoolInv => /\ BlocksExclusive /\ LeasesExclusive
                 /\ LeasesInOwnBlock /\ WithinQuota
  BY DEF PoolInv
<1>4. QED
  BY <1>1, <1>2, <1>3, PTL DEF PoolSpec
=============================================================================
