--------------------------- MODULE MCLogPipeline ---------------------------
(* A small stream of logs for TLC: a post with events of two days, one     *)
(* that a spawned bundler also prints, one without a valid event, and a    *)
(* plain line.                                                             *)
EXTENDS LogPipeline

MCBody == [p1 |-> <<"a", "b", "d">>, p2 |-> <<"c", "x">>, p3 |-> <<"x">>]
MCDay == [e \in {"a", "b", "c", "d", "r"} |-> IF e \in {"a", "b", "r"} THEN 2 ELSE 1]
============================================================================
