------------------------------- MODULE IpScan -------------------------------
(***************************************************************************)
(* The loops of find_next_available_block and find_next_available_ip       *)
(* (ipam-common.sh), one iteration per step. The ledger they compare with  *)
(* holds dotted addresses, so every comparison goes through int_to_ip, and *)
(* the block an address is sought in was read back with ip_to_int. The     *)
(* theorem of IpScanProofs lets Ipam take a whole search as one value.     *)
(***************************************************************************)
EXTENDS IpNetwork

VARIABLES
  search,   \* which loop runs, and the (dotted) block the second one is given
  taken,    \* the dotted addresses it must not return: allocated_blocks, used_ips
  cursor,   \* block_start_int, current_int
  status    \* "scanning", then "found" (it prints int_to_ip(cursor)) or "exhausted"

vars == << search, taken, cursor, status >>

Searches == [kind : {"block"}] \cup
            [kind : {"ip"}, block : {Octets(b) : b \in Blocks}]

\* The address the loop begins with.
StartAtNetwork(s) == IF s.kind = "block" THEN NetworkStart ELSE FromOctets(s.block)
Start(s) == IF s.kind = "block" THEN FirstBlock ELSE FromOctets(s.block)

\* The addresses a search may return, taken or not, and those of them still free.
Range(s) == IF s.kind = "block" THEN Blocks
                                ELSE IpsOf(FromOctets(s.block))
Free(s) == IF s.kind = "block"
           THEN FreeBlocks({FromOctets(o) : o \in taken})
           ELSE FreeIps(FromOctets(s.block), {FromOctets(o) : o \in taken})

Init == /\ search \in Searches
        /\ taken \in SUBSET {Octets(n) : n \in Range(search)}
        /\ cursor = Start(search)
        /\ status = "scanning"

\* The while condition: the block loop stops before the last address, the
\* address loop after the last address of the block.
InRangeOffByOne ==
  IF search.kind = "block" THEN cursor < NetworkEnd
                           ELSE cursor < FromOctets(search.block) + BlockSize - 1
InRange ==
  IF search.kind = "block" THEN cursor < NetworkEnd
                           ELSE cursor <= FromOctets(search.block) + BlockSize - 1

\* is_allocated, is_reserved_ip, is_used: comparisons of dotted strings.
Skipped ==
  \/ Octets(cursor) \in taken
  \/ search.kind = "ip" /\ Octets(cursor) \in {Octets(r) : r \in Reserved}

AdvanceUnlessReserved ==
  /\ status = "scanning" /\ InRange /\ Skipped
  /\ cursor' = IF Octets(cursor) \in {Octets(r) : r \in Reserved} THEN cursor
               ELSE cursor + (IF search.kind = "block" THEN BlockSize ELSE 1)
  /\ UNCHANGED << search, taken, status >>
Advance ==
  /\ status = "scanning" /\ InRange /\ Skipped
  /\ cursor' = cursor + (IF search.kind = "block" THEN BlockSize ELSE 1)
  /\ UNCHANGED << search, taken, status >>

Found ==
  /\ status = "scanning" /\ InRange /\ ~Skipped
  /\ status' = "found"
  /\ UNCHANGED << search, taken, cursor >>

Exhausted ==
  /\ status = "scanning" /\ ~InRange
  /\ status' = "exhausted"
  /\ UNCHANGED << search, taken, cursor >>

Next == Advance \/ Found \/ Exhausted

\* A loop of one process runs on by itself.
Spec == Init /\ [][Next]_vars /\ WF_vars(Next)

-----------------------------------------------------------------------------
\* The cursor stays in the network or the one block past it: it never wraps.
TypeOK ==
  /\ search \in Searches
  /\ taken \in SUBSET {Octets(n) : n \in Range(search)}
  /\ cursor \in FirstBlock .. (NetworkEnd + BlockSize)
  /\ status \in {"scanning", "found", "exhausted"}

\* find_next_available_block and find_next_available_ip print the lowest free
\* address of their range, as the ledger spells it, and fail only when the range
\* has none left: no block or address is passed over, reserved or handed out twice.
ReturnsLowestFree ==
  /\ status = "found" => IsLeast(FromOctets(Octets(cursor)), Free(search))
  /\ status = "exhausted" => Free(search) = {}

\* The loops end, whatever the ledger holds.
ScanEnds == <>(status # "scanning")
=============================================================================
