----------------------------- MODULE MCNERModel -----------------------------
EXTENDS NERModel, TLC

(* The threads are interchangeable.                                        *)
ThreadSymmetry == Permutations(Threads)
=============================================================================
