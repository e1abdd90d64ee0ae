------------------------ MODULE MC_ChannelRegistry ------------------------
(* Two nodes that open two channels.  Both start alike, and nothing orders *)
(* them, so exchanging them is a symmetry of the specification.            *)
EXTENDS ChannelRegistry, TLC

MCDeposits == <<7, 10>>

NodeSymmetry == Permutations(Nodes)
=============================================================================
