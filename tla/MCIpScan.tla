------------------------------ MODULE MCIpScan ------------------------------
(***************************************************************************)
(* IpScan on 10.254.0.240/27 in blocks of 8: the network crosses from      *)
(* 10.254.0.255 to 10.254.1.0, so a carry between octets is exercised. One *)
(* reserved address lies in the first block, one in the middle of a block, *)
(* one at the end of a block. Every ledger content is tried.               *)
(***************************************************************************)
EXTENDS IpScan

MCNetworkStart == 184418304 + 240
MCReserved == {MCNetworkStart + 1, MCNetworkStart + 11, MCNetworkStart + 23}
=============================================================================
