--------------------------- MODULE AtomicPayments ---------------------------
(***************************************************************************)
(* What the off-chain side of a channel promises to its two users: one     *)
(* pair of balances, and payments that move money from one to the other at *)
(* once and never take the payer below the reserve.                        *)
(***************************************************************************)
EXTENDS Integers

CONSTANTS Total,            \* the money in the channel
          Reserve           \* what a payer must keep

VARIABLE balances           \* <<alice, bob>>

Init == balances = <<Total, 0>>

Transfer(from, to) ==
  \E amount \in 1..balances[from] :
    /\ balances[from] - amount >= Reserve
    /\ balances' = [balances EXCEPT ![from] = @ - amount, ![to] = @ + amount]

Next == Transfer(1, 2) \/ Transfer(2, 1)

Spec == Init /\ [][Next]_balances
=============================================================================
