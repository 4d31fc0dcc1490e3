-------------------------- MODULE MCBundlerEngine --------------------------
(* A small instance for TLC: two operations of different senders.          *)
EXTENDS BundlerEngine

OpOf(s, n) == [sender |-> s, nonce |-> n, feeOk |-> TRUE]

TwoOps == [h \in {"h1", "h2"} |-> IF h = "h1" THEN OpOf("s1", 0) ELSE OpOf("s2", 0)]

============================================================================
