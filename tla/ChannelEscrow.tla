--------------------------- MODULE ChannelEscrow ---------------------------
(***************************************************************************)
(* What the payment contract promises, with no signatures, timestamps,     *)
(* rounds, roles or methods in sight: an escrow that takes one deposit and *)
(* later divides all of it, once, the way the two parties agreed to at     *)
(* some point, give or take one penalty.                                   *)
(***************************************************************************)
EXTENDS Integers

CONSTANTS Fee,              \* what each of the two payouts costs
          Penalties         \* the penalties a settlement may include

VARIABLES held,             \* the money in escrow
          agreed,           \* the splits <<alice, bob>> agreed on so far
          payout            \* what <<alice, bob>> got out

escrowVars == <<held, agreed, payout>>

Nothing == <<0, 0>>

Init == held = 0 /\ agreed = {} /\ payout = Nothing

Deposit ==
  /\ held = 0 /\ payout = Nothing
  /\ held' \in Nat \ {0}
  /\ UNCHANGED <<agreed, payout>>

Agree ==
  /\ agreed \subseteq agreed'
  /\ \A split \in agreed' : split \in Nat \X Nat
  /\ UNCHANGED <<held, payout>>

\* A penalty moves money from Bob to Alice (positive) or from Alice to Bob.
Settle ==
  /\ held > 0
  /\ \E split \in agreed :
       /\ split[1] + split[2] = held
       /\ \E penalty \in {0} \cup Penalties \cup {-p : p \in Penalties} :
            payout' = <<split[1] + penalty - Fee, split[2] - penalty - Fee>>
  /\ payout'[1] >= 0 /\ payout'[2] >= 0
  /\ held' = 0
  /\ UNCHANGED agreed

Next == Deposit \/ Agree \/ Settle

Spec == Init /\ [][Next]_escrowVars
=============================================================================
