------------------------ MODULE MC_OffChainPayments ------------------------
(***************************************************************************)
(* A channel of 10 with a reserve of 2 and machine words of 32 values.     *)
(***************************************************************************)
EXTENDS OffChainPayments
=============================================================================
