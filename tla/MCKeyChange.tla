---------------------------- MODULE MCKeyChange ----------------------------
(***************************************************************************)
(* KeyChange with one user, since users have no file in common; two        *)
(* goroutines and a root shell, so that every two operations can meet; and *)
(* two requests, so that there is a later one when a late decision about   *)
(* the first is carried out.                                               *)
(***************************************************************************)
EXTENDS KeyChange, TLC

Symmetry == Permutations(Handlers) \cup Permutations(Shells)
                  \cup Permutations(Users)
=============================================================================
