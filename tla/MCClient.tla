------------------------------ MODULE MCClient ------------------------------
(* PypilotClient with every outcome of every write.  Names and periods are *)
(* told apart by equality only, and the run checks no liveness.            *)
EXTENDS PypilotClient, TLC

MCSymmetry == Permutations(Names) \cup Permutations(Periods)
=============================================================================
