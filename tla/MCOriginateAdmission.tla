------------------------- MODULE MCOriginateAdmission -------------------------
(* Instances of OriginateAdmission for TLC.                                *)
EXTENDS OriginateAdmission, TLC

(* All the extensions of an instance belong to one tenant.                 *)
MCTenantOf == [x \in Extensions |-> CHOOSE c \in Tenants : TRUE]

Symmetry == Permutations(Threads) \cup Permutations(Extensions) \cup Permutations(Numbers)
===============================================================================
