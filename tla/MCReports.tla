----------------------------- MODULE MCReports -----------------------------
(* Two operations of two senders; the second fails on chain.               *)
EXTENDS Reports

CONSTANTS h1, h2

TwoOps == {h1, h2}
Sponsored == {h1}

MCOp == [h \in TwoOps |->
  [sender |-> IF h = h1 THEN "s1" ELSE "s2", success |-> h = h1,
   reason |-> IF h = h1 THEN Unknown ELSE "AMM: EXPIRED",
   entryGas |-> IF h = h1 THEN 5 ELSE 3, postGas |-> IF h = h1 THEN 4 ELSE 2,
   fee |-> IF h = h1 THEN 6 ELSE 1]]

(* A soak run begins, and goes on, only where the process has not ended;   *)
(* the ends are explored without it.                                       *)
MCNext == ReportsNext /\ (soak'.at # "running" => crashes' = 0)
MCSpec == ReportsInit /\ [][MCNext]_<<vars, soak>> /\ Fairness
=============================================================================
