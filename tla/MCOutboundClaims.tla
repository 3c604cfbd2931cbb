--------------------------- MODULE MCOutboundClaims ---------------------------
(* Instances of OutboundClaims for TLC.                                    *)
EXTENDS OutboundClaims, FiniteSets, TLC

(* One campaign holds all the contacts of an instance.                     *)
MCCampaignOf == [r \in Contacts |-> CHOOSE c \in Campaigns : TRUE]

Symmetry == Permutations(Attempts) \cup Permutations(Threads) \cup Permutations(Sources)
===============================================================================
