----------------------------- MODULE MCLcaHash -----------------------------
(***************************************************************************)
(* Instance of LcaHash for TLC.                                            *)
(***************************************************************************)
EXTENDS LcaHash, MCPrograms

MCTrees == TreesOf(3, FALSE)
ThreadSymmetry == Permutations(Threads)
=============================================================================
