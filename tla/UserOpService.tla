--------------------------- MODULE UserOpService ---------------------------
(***************************************************************************)
(* What a client may rely on when it talks JSON-RPC to a bundler: an       *)
(* accepted operation is known by its hash, an operation is executed at    *)
(* most once, and from the very block that executes it on, whoever         *)
(* submitted it, its receipt can be had.  A restart of the bundler forgets *)
(* what was accepted, and may lose receipts of what was executed before.   *)
(***************************************************************************)
CONSTANT Hashes   \* user operation hashes

VARIABLES
  accepted,   \* hashes eth_sendUserOperation has taken in since the start
  executed,   \* hashes executed on chain
  answered    \* hashes eth_getUserOperationReceipt has a receipt for

Init ==
  /\ accepted = {}
  /\ executed = {}
  /\ answered = {}

Accept(h) ==
  /\ accepted' = accepted \cup {h}
  /\ UNCHANGED <<executed, answered>>

Execute(hs) ==
  /\ hs # {}
  /\ hs \cap executed = {}
  /\ executed' = executed \cup hs
  /\ answered' = answered \cup hs
  /\ UNCHANGED accepted

Restart ==
  /\ accepted' = {}
  /\ answered' \in SUBSET answered
  /\ UNCHANGED executed

Next ==
  \/ \E h \in Hashes : Accept(h)
  \/ \E hs \in SUBSET Hashes : Execute(hs)
  \/ Restart

Spec == Init /\ [][Next]_<<accepted, executed, answered>>
============================================================================
