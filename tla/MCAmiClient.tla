------------------------------ MODULE MCAmiClient ------------------------------
(* Instances of AmiClient for TLC. *)
EXTENDS AmiClient, TLC

Symmetry == Permutations(Clients) \cup Permutations(Ids)
===============================================================================
