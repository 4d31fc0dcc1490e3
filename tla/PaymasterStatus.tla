-------------------------- MODULE PaymasterStatus --------------------------
(***************************************************************************)
(* The paymaster's status: getPaymasterStatus reads the chain in groups of *)
(* concurrent requests, one group after the other, while operations are    *)
(* sponsored and the owner changes the policy.  The paymaster itself is in *)
(* GaslessSwapPaymaster; here an operation costs a unit of gas and earns   *)
(* FeeUnits.                                                               *)
(***************************************************************************)
EXTENDS Integers, Sequences, FiniteSets

CONSTANTS
  FeeUnits,      \* fee of an operation that succeeds
  MaxSafe,       \* largest number that a JavaScript number holds exactly
  HasTokens,     \* whether the deployments name the tokens
  MaxSponsored,  \* operations (bounds the model)
  MaxPolicy      \* changes of the policy (bounds the model)

ASSUME StatusAssumption ==
  /\ FeeUnits \in Nat /\ MaxSafe \in Nat /\ HasTokens \in BOOLEAN
  /\ MaxSponsored \in Nat /\ MaxPolicy \in Nat

VARIABLES
  fields,  \* what the contracts hold
  query,   \* a query: which group it waits for, and what it has read
  asked    \* what the contracts held when the query began

statusVars == <<fields, query, asked>>

Groups == << {"entryPointDeposit", "ethBalance"},
             {"tokenOutBalance", "tokenInBalance"},
             {"gasBufferBps", "minDelayBetweenOpsSec"},
             {"sponsoredOps", "sponsoredOpsSucceeded", "sponsoredOpsReverted",
              "totalActualGasCostWei", "totalFeeAmount"} >>
Fields == UNION {Groups[i] : i \in DOMAIN Groups}
NotAsked == [at |-> "none", group |-> 0, read |-> <<>>]

(* postOp, after success or revert of the swap.                            *)
OpSponsored ==
  /\ fields["sponsoredOps"] < MaxSponsored
  /\ \E succeeds \in BOOLEAN :
       fields' = [fields EXCEPT
         !["sponsoredOps"] = @ + 1,
         !["sponsoredOpsSucceeded"] = IF succeeds THEN @ + 1 ELSE @,
         !["sponsoredOpsReverted"] = IF succeeds THEN @ ELSE @ + 1,
         !["totalActualGasCostWei"] = @ + 1, !["entryPointDeposit"] = @ - 1,
         !["totalFeeAmount"] = IF succeeds THEN @ + FeeUnits ELSE @,
         !["tokenOutBalance"] = IF succeeds THEN @ + FeeUnits ELSE @]
  /\ UNCHANGED <<query, asked>>

(* setPolicy.                                                              *)
PolicySet ==
  /\ fields["gasBufferBps"] < MaxPolicy
  /\ fields' = [fields EXCEPT !["gasBufferBps"] = @ + 1, !["minDelayBetweenOpsSec"] = @ + 1]
  /\ UNCHANGED <<query, asked>>

(* Without a token's address nothing is read.                              *)
StatusAsked ==
  /\ query.at # "reading"
  /\ query' = IF HasTokens THEN [at |-> "reading", group |-> 1, read |-> <<>>]
                           ELSE [NotAsked EXCEPT !.at = "failed"]
  /\ asked' = fields
  /\ UNCHANGED fields

(* Variant: the results of the last group are taken in another order.      *)
NamedShifted(f) ==
  CASE f = "sponsoredOpsSucceeded" -> "sponsoredOpsReverted"
    [] f = "sponsoredOpsReverted" -> "sponsoredOpsSucceeded"
    [] OTHER -> f
Named(f) == f

(* One request of the group is answered.                                   *)
FieldRead ==
  /\ query.at = "reading"
  /\ \E f \in Groups[query.group] :
       /\ Named(f) \notin DOMAIN query.read
       /\ query' = [query EXCEPT !.read =
                      [g \in DOMAIN query.read \cup {Named(f)} |->
                        IF g = Named(f) THEN fields[f] ELSE query.read[g]]]
  /\ UNCHANGED <<fields, asked>>

(* All of the group are; the next group, or the answer.  A number that is  *)
(* too large for JavaScript fails the query.                               *)
GroupRead ==
  /\ query.at = "reading" /\ Groups[query.group] \subseteq DOMAIN query.read
  /\ query' =
       IF query.group < Len(Groups) THEN [query EXCEPT !.group = @ + 1]
       ELSE IF \E f \in Groups[3] : query.read[f] > MaxSafe
            THEN [NotAsked EXCEPT !.at = "failed"]
            ELSE [query EXCEPT !.at = "answered"]
  /\ UNCHANGED <<fields, asked>>

StatusFails ==
  /\ query.at = "reading"
  /\ query' = [NotAsked EXCEPT !.at = "failed"]
  /\ UNCHANGED <<fields, asked>>

(* The client has the answer.                                              *)
StatusTaken ==
  /\ query.at \in {"answered", "failed"}
  /\ query' = NotAsked /\ UNCHANGED <<fields, asked>>

StatusInit ==
  /\ fields = [f \in Fields |-> IF f = "entryPointDeposit" THEN MaxSponsored ELSE 0]
  /\ query = NotAsked /\ asked = fields

StatusNext ==
  OpSponsored \/ PolicySet \/ StatusAsked \/ FieldRead \/ GroupRead \/ StatusFails \/ StatusTaken

StatusSpec == StatusInit /\ [][StatusNext]_statusVars

----------------------------------------------------------------------------
(* A status mixes several moments, but no more of them than the query took:*)
(* every number is one that the contract had meanwhile, and so outcomes,   *)
(* operations, gas and deposit differ by no more than the operations since *)
(* the query began.                                                        *)
Difference(m, n) == IF m >= n THEN m - n ELSE n - m
StatusAddsUp ==
  query.at = "answered" =>
    LET read == query.read
        meanwhile == fields["sponsoredOps"] - asked["sponsoredOps"]
    IN /\ \A f \in Fields :
            \/ asked[f] <= read[f] /\ read[f] <= fields[f]
            \/ f = "entryPointDeposit" /\ fields[f] <= read[f] /\ read[f] <= asked[f]
       /\ Difference(read["sponsoredOpsSucceeded"] + read["sponsoredOpsReverted"],
                     read["sponsoredOps"]) <= meanwhile
       /\ Difference(read["entryPointDeposit"] + read["totalActualGasCostWei"], MaxSponsored)
            <= meanwhile
       /\ read["totalFeeAmount"] <= read["sponsoredOpsSucceeded"] * FeeUnits + meanwhile * FeeUnits
=============================================================================
