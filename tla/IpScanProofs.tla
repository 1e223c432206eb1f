---------------------------- MODULE IpScanProofs ----------------------------
(***************************************************************************)
(* The search loops of ipam-common.sh return the lowest free block or      *)
(* address for every network, whatever the ledger holds. It rests on the   *)
(* dotted form being faithful: two addresses never print alike.            *)
(***************************************************************************)
EXTENDS IpScan, TLAPS

\* An address that fits four octets.
Ipv4 == {n \in Nat : n \div 16777216 <= 255}

\* int_to_ip loses nothing that ip_to_int could not read back.
LEMMA RoundTrip ==
  ASSUME NEW n \in Ipv4
  PROVE  FromOctets(Octets(n)) = n
<1> DEFINE a == n \div 16777216
           b == n \div 65536
           c == n \div 256
<1>1. n \in Nat /\ a \in 0..255
  BY SMT DEF Ipv4
<1>2. n = 256 * c + (n % 256) /\ c = 256 * b + (c % 256) /\ b = 256 * a + (b % 256)
      /\ c \in Nat /\ b \in Nat
  BY <1>1, SMT
<1>3. a % 256 = a
  BY <1>1, SMT
<1>4. FromOctets(Octets(n)) = (a % 256) * 16777216 + (b % 256) * 65536
                              + (c % 256) * 256 + (n % 256)
  BY SMT DEF FromOctets, Octets
<1> HIDE DEF a, b, c
<1>5. QED
  BY <1>1, <1>2, <1>3, <1>4, SMT

LEMMA BlocksFit ==
  ASSUME NEW b \in Blocks
  PROVE  b \in Ipv4 /\ IpsOf(b) \subseteq Ipv4
BY NetworkAssumption, SMT DEF Blocks, FirstBlock, NetworkEnd, Ipv4, IpsOf

-----------------------------------------------------------------------------
\* The block loop only visits addresses a multiple of BlockSize from the start.
Aligned(x) == \E k \in Nat : x = NetworkStart + BlockSize * k

\* Nothing the loop has passed is free.
Passed == \A n \in Free(search) : n >= cursor

IInv ==
  /\ TypeOK
  /\ cursor >= Start(search)
  /\ search.kind = "block" => Aligned(cursor)
  /\ Passed
  /\ status = "found" => InRange /\ ~Skipped
  /\ status = "exhausted" => ~InRange

\* A dotted address is in the ledger exactly when its number is among the
\* numbers of the ledger.
LEMMA TakenByNumber ==
  ASSUME TypeOK, NEW n \in Ipv4
  PROVE  Octets(n) \in taken <=> n \in {FromOctets(o) : o \in taken}
<1>1. Range(search) \subseteq Ipv4
  <2>1. CASE search.kind = "block"
    BY <2>1, BlocksFit DEF Range
  <2>2. CASE search.kind # "block"
    <3>1. PICK b \in Blocks : search.block = Octets(b)
      BY <2>2 DEF TypeOK, Searches
    <3>2. FromOctets(search.block) = b
      BY <3>1, BlocksFit, RoundTrip
    <3>3. QED
      BY <2>2, <3>2, BlocksFit DEF Range
  <2>3. QED
    BY <2>1, <2>2
<1>2. \A o \in taken : \E m \in Ipv4 : o = Octets(m) /\ FromOctets(o) = m
  BY <1>1, RoundTrip DEF TypeOK
<1>3. FromOctets(Octets(n)) = n
  BY RoundTrip
<1>4. QED
  BY <1>2, <1>3

LEMMA BlockAligned ==
  ASSUME NEW b \in Blocks
  PROVE  Aligned(b)
<1>1. /\ b \in Nat /\ b >= NetworkStart /\ (b - NetworkStart) % BlockSize = 0
      /\ NetworkStart \in Nat /\ BlockSize \in Nat \ {0}
  BY NetworkAssumption, SMT DEF Blocks, FirstBlock, NetworkEnd
<1>2. /\ (b - NetworkStart) \div BlockSize \in Nat
      /\ b - NetworkStart = BlockSize * ((b - NetworkStart) \div BlockSize)
  BY <1>1, SMT
<1>3. QED
  BY <1>1, <1>2, SMT DEF Aligned

LEMMA AlignedApart ==
  ASSUME NEW x, NEW y, Aligned(x), Aligned(y), x < y
  PROVE  x + BlockSize <= y
<1>1. NetworkStart \in Nat /\ BlockSize \in Nat \ {0}
  BY NetworkAssumption
<1>2. PICK k \in Nat : x = NetworkStart + BlockSize * k
  BY DEF Aligned
<1>3. PICK m \in Nat : y = NetworkStart + BlockSize * m
  BY DEF Aligned
<1>4. k + 1 <= m
  BY <1>1, <1>2, <1>3, SMT
<1>5. BlockSize * (k + 1) <= BlockSize * m
  BY <1>1, <1>4, SMT
<1>6. QED
  BY <1>1, <1>2, <1>3, <1>5, SMT

-----------------------------------------------------------------------------
\* What the second loop is given is the first address of a block.
LEMMA SearchedBlock ==
  ASSUME search \in Searches, search.kind # "block"
  PROVE  FromOctets(search.block) \in Blocks
<1>1. PICK b \in Blocks : search.block = Octets(b)
  BY DEF Searches
<1>2. QED
  BY <1>1, BlocksFit, RoundTrip

\* While the loop runs its cursor is one of the addresses it may return.
LEMMA CursorInRange ==
  ASSUME IInv, InRange
  PROVE  cursor \in Range(search) /\ cursor \in Ipv4
<1>1. cursor \in Int /\ search \in Searches
  BY NetworkAssumption, SMT DEF IInv, TypeOK, FirstBlock, NetworkEnd
<1>2. CASE search.kind = "block"
  <2>1. PICK k \in Nat : cursor = NetworkStart + BlockSize * k
    BY <1>2 DEF IInv, Aligned
  <2>2. (cursor - NetworkStart) % BlockSize = 0
    BY <2>1, NetworkAssumption, SMT
  <2>3. cursor \in Blocks
    BY <1>1, <1>2, <2>2, NetworkAssumption, SMT
    DEF IInv, Start, InRange, Blocks, FirstBlock, NetworkEnd
  <2>4. QED
    BY <1>2, <2>3, BlocksFit DEF Range
<1>3. CASE search.kind # "block"
  <2>1. FromOctets(search.block) \in Blocks
    BY <1>1, <1>3, SearchedBlock
  <2>2. FromOctets(search.block) \in Nat /\ BlockSize \in Nat
    BY <2>1, NetworkAssumption, SMT DEF Blocks, FirstBlock, NetworkEnd
  <2>3. cursor \in IpsOf(FromOctets(search.block))
    BY <1>1, <1>3, <2>2, SMT DEF IInv, Start, InRange, IpsOf
  <2>4. QED
    BY <1>3, <2>1, <2>3, BlocksFit DEF Range
<1>4. QED
  BY <1>2, <1>3

LEMMA SkippedIsTaken ==
  ASSUME IInv, InRange
  PROVE  Skipped <=> cursor \notin Free(search)
<1>1. cursor \in Range(search) /\ cursor \in Ipv4
  BY CursorInRange
<1>2. Octets(cursor) \in taken <=> cursor \in {FromOctets(o) : o \in taken}
  BY <1>1, TakenByNumber DEF IInv
<1>3. Octets(cursor) \in {Octets(r) : r \in Reserved} <=> cursor \in Reserved
  <2>1. Reserved \subseteq Ipv4
    BY NetworkAssumption, SMT DEF Ipv4
  <2>2. \A r \in Reserved : FromOctets(Octets(r)) = r
    BY <2>1, RoundTrip
  <2>3. FromOctets(Octets(cursor)) = cursor
    BY <1>1, RoundTrip
  <2>4. QED
    BY <2>2, <2>3
<1>4. search.kind \in {"block", "ip"}
  BY DEF IInv, TypeOK, Searches
<1>5. QED
  BY <1>1, <1>2, <1>3, <1>4 DEF Skipped, Free, Range, FreeBlocks, FreeIps

LEMMA Initial == Init => IInv
<1> SUFFICES ASSUME Init PROVE IInv
  OBVIOUS
<1>1. /\ search \in Searches /\ cursor = Start(search) /\ status = "scanning"
      /\ taken \in SUBSET {Octets(n) : n \in Range(search)}
  BY DEF Init
<1> DEFINE b == FromOctets(search.block)
<1>2. search.kind # "block" => b \in Blocks
  BY <1>1, SearchedBlock
<1> HIDE DEF b
<1>3. cursor \in FirstBlock .. (NetworkEnd + BlockSize) /\ cursor \in Int
  BY <1>1, <1>2, NetworkAssumption, SMT DEF Start, b, Blocks, FirstBlock, NetworkEnd
<1>4. search.kind = "block" => Aligned(cursor)
  <2>1. FirstBlock = NetworkStart + BlockSize * 1
    BY NetworkAssumption, SMT DEF FirstBlock
  <2>2. QED
    BY <1>1, <2>1 DEF Aligned, Start
<1>5. \A n \in Free(search) : n >= cursor
  <2>1. CASE search.kind = "block"
    BY <1>1, <2>1, NetworkAssumption, SMT
    DEF Free, FreeBlocks, Start, Blocks, FirstBlock, NetworkEnd
  <2>2. CASE search.kind # "block"
    BY <1>1, <2>2, SMT DEF Free, FreeIps, Start, IpsOf
  <2>3. QED
    BY <2>1, <2>2
<1>6. QED
  BY <1>1, <1>3, <1>4, <1>5, SMT DEF IInv, TypeOK, Passed

LEMMA AdvanceKeeps ==
  ASSUME IInv, Advance
  PROVE  IInv'
<1> DEFINE step == IF search.kind = "block" THEN BlockSize ELSE 1
<1>1. /\ status = "scanning" /\ InRange /\ Skipped /\ cursor' = cursor + step
      /\ UNCHANGED << search, taken, status >>
  BY DEF Advance
<1>2. cursor \in Range(search) /\ cursor \in Ipv4 /\ cursor \notin Free(search)
  BY <1>1, CursorInRange, SkippedIsTaken
<1>3. step \in Nat \ {0} /\ cursor \in Nat
  BY <1>2, NetworkAssumption, SMT DEF Ipv4
<1>4. Free(search)' = Free(search) /\ Range(search)' = Range(search)
      /\ Start(search)' = Start(search)
  BY <1>1 DEF Free, Range, Start
<1>5. CASE search.kind = "block"
  <2>1. Aligned(cursor) /\ cursor < NetworkEnd
    BY <1>1, <1>5 DEF IInv, InRange
  <2>2. Aligned(cursor')
    <3>1. PICK k \in Nat : cursor = NetworkStart + BlockSize * k
      BY <2>1 DEF Aligned
    <3>2. cursor' = NetworkStart + BlockSize * (k + 1) /\ k + 1 \in Nat
      BY <1>1, <1>5, <3>1, NetworkAssumption, SMT
    <3>3. QED
      BY <3>2 DEF Aligned
  <2>3. ASSUME NEW n \in Free(search) PROVE n >= cursor'
    <3>1. n \in Blocks /\ n >= cursor /\ n # cursor
      BY <1>2, <1>5, <2>3 DEF IInv, Passed, Free, FreeBlocks
    <3>2. n \in Int
      BY <3>1, BlocksFit DEF Ipv4
    <3>3. cursor < n
      BY <1>3, <3>1, <3>2, SMT
    <3>4. cursor + BlockSize <= n
      BY <2>1, <3>1, <3>3, BlockAligned, AlignedApart
    <3>5. QED
      BY <1>1, <1>5, <3>4, <1>3, <3>2, SMT
  <2>4. cursor' \in FirstBlock .. (NetworkEnd + BlockSize)
    BY <1>1, <1>3, <1>5, <2>1, NetworkAssumption, SMT
    DEF IInv, TypeOK, FirstBlock, NetworkEnd
  <2>5. cursor' >= Start(search)
    BY <1>5, <2>4, NetworkAssumption, SMT DEF Start, FirstBlock, NetworkEnd
  <2>6. Aligned(cursor)'
    BY <2>2 DEF Aligned
  <2>7. QED
    BY <1>1, <1>4, <2>3, <2>4, <2>5, <2>6 DEF IInv, TypeOK, Passed
<1>6. CASE search.kind # "block"
  <2> DEFINE b == FromOctets(search.block)
  <2>1. b \in Blocks
    BY <1>6, SearchedBlock DEF IInv, TypeOK
  <2> HIDE DEF b
  <2>2. b \in Int /\ b <= NetworkEnd - 1 /\ cursor <= b + BlockSize - 1
    BY <1>1, <1>6, <2>1, NetworkAssumption, SMT
    DEF Blocks, FirstBlock, NetworkEnd, InRange, b
  <2>3. cursor' \in FirstBlock .. (NetworkEnd + BlockSize)
    BY <1>1, <1>3, <1>6, <2>2, NetworkAssumption, SMT
    DEF IInv, TypeOK, FirstBlock, NetworkEnd
  <2>4. ASSUME NEW n \in Free(search) PROVE n >= cursor'
    <3>1. n \in Int
      BY <1>6, <2>2, NetworkAssumption, SMT DEF Free, FreeIps, IpsOf, b
    <3>2. n >= cursor /\ n # cursor
      BY <1>2, <2>4 DEF IInv, Passed
    <3>3. QED
      BY <1>1, <1>3, <1>6, <3>1, <3>2, SMT
  <2>5. cursor' >= Start(search)
    BY <1>1, <1>3, <1>6, <2>2, SMT DEF IInv, Start, b
  <2>6. QED
    BY <1>1, <1>4, <1>6, <2>3, <2>4, <2>5 DEF IInv, TypeOK, Passed
<1>7. QED
  BY <1>5, <1>6

LEMMA StepKeeps == IInv /\ [Next]_vars => IInv'
<1> SUFFICES ASSUME IInv, [Next]_vars PROVE IInv'
  OBVIOUS
<1>1. CASE Found \/ Exhausted \/ UNCHANGED vars
  BY <1>1 DEF Found, Exhausted, vars, IInv, TypeOK, Passed, InRange, Skipped,
              Aligned, Free, Range, Start
<1>2. QED
  BY <1>1, AdvanceKeeps DEF Next

\* The searches of ipam-common.sh are exact, in every network and for every
\* ledger: this is what lets Ipam take the lowest free address in one step.
THEOREM SearchExact == Spec => [](TypeOK /\ ReturnsLowestFree)
<1>1. IInv => TypeOK /\ ReturnsLowestFree
  <2> SUFFICES ASSUME IInv PROVE TypeOK /\ ReturnsLowestFree
    OBVIOUS
  <2>1. ASSUME status = "found"
        PROVE  IsLeast(FromOctets(Octets(cursor)), Free(search))
    <3>1. cursor \in Free(search) /\ cursor \in Ipv4
      BY <2>1, SkippedIsTaken, CursorInRange DEF IInv
    <3>2. FromOctets(Octets(cursor)) = cursor
      BY <3>1, RoundTrip
    <3>3. \A n \in Free(search) : cursor <= n
      <4>1. Free(search) \subseteq Int /\ cursor \in Int
        <5>1. Range(search) \subseteq Ipv4
          BY SearchedBlock, BlocksFit DEF IInv, TypeOK, Range
        <5>2. QED
          BY <3>1, <5>1 DEF Ipv4, Free, Range, FreeBlocks, FreeIps
      <4>2. QED
        BY <4>1, SMT DEF IInv, Passed
    <3>4. QED
      BY <3>1, <3>2, <3>3 DEF IsLeast
  <2>2. ASSUME status = "exhausted", NEW n \in Free(search) PROVE FALSE
    <3>1. ~InRange /\ n >= cursor /\ cursor \in Int
      BY <2>2, NetworkAssumption, SMT DEF IInv, Passed, TypeOK, FirstBlock, NetworkEnd
    <3>2. CASE search.kind = "block"
      BY <3>1, <3>2, NetworkAssumption, SMT
      DEF InRange, Free, FreeBlocks, Blocks, FirstBlock, NetworkEnd
    <3>3. CASE search.kind # "block"
      <4>1. FromOctets(search.block) \in Int
        BY <3>3, SearchedBlock, BlocksFit DEF IInv, TypeOK, Ipv4
      <4>2. QED
        BY <3>1, <3>3, <4>1, NetworkAssumption, SMT DEF InRange, Free, FreeIps, IpsOf
    <3>4. QED
      BY <3>2, <3>3
  <2>3. QED
    BY <2>1, <2>2 DEF IInv, ReturnsLowestFree
<1>2. QED
  BY <1>1, Initial, StepKeeps, PTL DEF Spec
=============================================================================
