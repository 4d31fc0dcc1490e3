----------------------------- MODULE MCIndexer -----------------------------
(* Small instances for TLC: two operations, both with a postOp, and one or *)
(* two syncs at a time.                                                    *)
EXTENDS Indexer, TLC

CONSTANTS h1, h2, s1, s2

TwoOps == {h1, h2}
OneSync == {s1}
TwoSyncs == {s1, s2}
OpSymmetry == Permutations(TwoOps)
SyncSymmetry == OpSymmetry \cup Permutations(TwoSyncs)
============================================================================
