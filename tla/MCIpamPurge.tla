----------------------------- MODULE MCIpamPurge -----------------------------
(***************************************************************************)
(* IpamPurge on blocks of two addresses: one block and two purges, or two  *)
(* blocks and one purge, with an address reserved. A user and a VM may     *)
(* have one name, as nothing in the CLI forbids: MCUsers and MCResources   *)
(* share a value.                                                          *)
(***************************************************************************)
EXTENDS IpamPurge, TLC

CONSTANTS u1, u2, r1

MCUsers == {u1, u2}
MCResources == {r1, u2}
Symmetry == Permutations(Procs) \cup Permutations(Admins)
=============================================================================
