------------------------ MODULE MC_PaymentContract ------------------------
(***************************************************************************)
(* A channel of 10 with a fee of 1, a penalty of 2 and windows of 1 and 2  *)
(* rounds; three splits, one of which adds up to 11, the amount of another *)
(* funding, and one of which leaves Bob too little to be penalised.        *)
(***************************************************************************)
EXTENDS PaymentContract

MCSplits == {<<6, 4>>, <<9, 1>>, <<7, 4>>}
=============================================================================
