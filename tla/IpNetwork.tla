------------------------------ MODULE IpNetwork ------------------------------
(***************************************************************************)
(* The address arithmetic of the IP address manager: what                  *)
(* load_network_config (ipam-common.sh) computes from config.yaml, the     *)
(* blocks a user can be given, the addresses of a block, and the dotted    *)
(* form in which the two ledger files hold an address.                     *)
(***************************************************************************)
EXTENDS Integers

CONSTANTS
  NetworkStart,  \* NETWORK_START_INT: the address part of network.cidr
  NumHosts,      \* 2 ^ (32 - prefix)
  BlockSize,     \* NETWORK_BLOCK_SIZE: network.block_size
  Reserved       \* RESERVED_IPS: network.reserved[], always with the gateway

NetworkEnd == NetworkStart + NumHosts - 1

\* The network and one block past it are IPv4 addresses: the scan of the last
\* block of a network that BlockSize does not divide runs beyond its end.
ASSUME NetworkAssumption ==
  /\ NetworkStart \in Nat
  /\ NumHosts \in Nat \ {0}
  /\ BlockSize \in Nat \ {0}
  /\ Reserved \subseteq Nat
  /\ (NetworkEnd + BlockSize) \div 16777216 <= 255
  /\ \A r \in Reserved : r \div 16777216 <= 255

\* The first block is kept back for the infrastructure, and a block is a
\* candidate as long as it begins before the last address of the network.
FirstBlock == NetworkStart + BlockSize
Blocks == { s \in FirstBlock .. (NetworkEnd - 1) :
              (s - NetworkStart) % BlockSize = 0 }

IpsOf(block) == block .. (block + BlockSize - 1)

FreeBlocks(taken) == Blocks \ taken
UnusedIps(block, used) == IpsOf(block) \ used
FreeIps(block, used) == IpsOf(block) \ (Reserved \cup used)

\* Both searches of ipam-common.sh return the lowest free address.
IsLeast(x, S) == x \in S /\ \A y \in S : x <= y

\* int_to_ip and ip_to_int (common.sh), on the four numbers of a dotted address.
Octets(n) == << (n \div 16777216) % 256, (n \div 65536) % 256,
                (n \div 256) % 256, n % 256 >>
FromOctets(o) == o[1] * 16777216 + o[2] * 65536 + o[3] * 256 + o[4]
=============================================================================
