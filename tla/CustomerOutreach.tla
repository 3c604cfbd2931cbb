--------------------------- MODULE CustomerOutreach ---------------------------
(***************************************************************************)
(* What the outbound dialler owes the people it telephones, whatever it    *)
(* stores, locks or loses on the way: a customer is called a bounded       *)
(* number of times, never on two lines at once, and never again after      *)
(* having picked up.                                                       *)
(*                                                                         *)
(* OutboundClaims is shown to implement this specification.                *)
(***************************************************************************)
EXTENDS Naturals

CONSTANTS
  Customers,  (* entries of the callback list and of the campaign lists    *)
  MaxCalls    (* [Customers -> Nat]: MAX_ATTEMPTS of the entry's catalog   *)

VARIABLES
  calls,      (* how many calls have been set up towards each customer     *)
  line        (* what the customer's telephone is doing                    *)

vars == <<calls, line>>

Init ==
  /\ calls = [c \in Customers |-> 0]
  /\ line  = [c \in Customers |-> "idle"]

Ring(c) ==
  /\ line[c] = "idle"
  /\ calls[c] < MaxCalls[c]
  /\ calls' = [calls EXCEPT ![c] = @ + 1]
  /\ line'  = [line EXCEPT ![c] = "ringing"]

Miss(c) ==
  /\ line[c] = "ringing"
  /\ line' = [line EXCEPT ![c] = "idle"]
  /\ UNCHANGED calls

PickUp(c) ==
  /\ line[c] = "ringing"
  /\ line' = [line EXCEPT ![c] = "talked"]
  /\ UNCHANGED calls

Next == \E c \in Customers : Ring(c) \/ Miss(c) \/ PickUp(c)

Spec == Init /\ [][Next]_vars
===============================================================================
