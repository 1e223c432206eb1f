------------------------------- MODULE MCIpam -------------------------------
(***************************************************************************)
(* Ipam on a network of two blocks of three addresses for three users, so  *)
(* that blocks run out. The first block has two reserved addresses and     *)
(* runs out before the quota of two; in the second the quota bites first.  *)
(***************************************************************************)
EXTENDS Ipam, TLC

MCReserved == {1, 4, 5}
MCIps == {3, 4, 6, 7}
Symmetry == Permutations(Procs) \cup Permutations(Users)
            \cup Permutations(Resources)
=============================================================================
