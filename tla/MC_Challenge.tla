----------------------------- MODULE MC_Challenge -----------------------------
EXTENDS Challenge, TLC

(* Calls, requests and salts are interchangeable, and no liveness is checked. *)
Symmetry == Permutations(Call) \cup Permutations(Request) \cup Permutations(Salt)
==============================================================================
