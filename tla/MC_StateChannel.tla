-------------------------- MODULE MC_StateChannel --------------------------
(* Small channels for TLC.  The .cfg files give the constants their values; *)
(* amounts are small integers in the same proportions as the code's:        *)
(* MinTxnFee and CloseMinimum stand for 1000 microAlgos, the least penalty  *)
(* reserve and dispute window are in range and their larger values out of   *)
(* it.                                                                      *)
EXTENDS StateChannel
=============================================================================
