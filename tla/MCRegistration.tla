--------------------------- MODULE MCRegistration ---------------------------
(***************************************************************************)
(* Registration with two goroutines and a root shell, so that every pair   *)
(* of operations can meet on one request. Two requests let a user register *)
(* again after a rejection, or twice at once; users meet only over an      *)
(* email address, and have no file in common.                              *)
(***************************************************************************)
EXTENDS Registration, TLC

Symmetry == Permutations(Handlers) \cup Permutations(Shells)
            \cup Permutations(Usernames) \cup Permutations(Emails)
=============================================================================
