---------------------------- MODULE MCEntryPoint ----------------------------
(* Small chains for TLC.  The initial state is what the deployment script  *)
(* leaves behind: a pool with liquidity, a price, a funded deposit, a      *)
(* policy, and smart accounts that hold tokenIn.                           *)
EXTENDS EntryPoint

CONSTANTS a1, a2, trader

(* A well-formed sponsored swap of 5 for at least 2 of the pool's 20/20.   *)
Swap5(a, n) ==
  [sender |-> a, nonce |-> n, initCode |-> (n = 0), sigOk |-> TRUE, maxCost |-> 1,
   shape |-> "batch3", spender |-> ROUTER, approved |-> 5,
   pair |-> <<"token0", "token1">>, amountIn |-> 5, minOut |-> 2, to |-> a,
   deadline |-> 2, feeTo |-> PAYMASTER, fee |-> 2]

(* Time: one sender, two nonces, deadlines on and around the uint48 edge.  *)
TimeOps ==
  {[Swap5(a1, 0) EXCEPT !.deadline = d] : d \in {0, 1, 2, TsMod, TsMod + 2}}
    \cup {Swap5(a1, 1), [Swap5(a1, 1) EXCEPT !.deadline = 4]}
    \cup {[Swap5(a1, 2) EXCEPT !.deadline = 4]}

(* Money: two senders, an exact quote that the other's swap makes stale,   *)
(* a fee that only the default policy accepts, larger prefunds.            *)
MoneyOps ==
  {Swap5(a1, 0), [Swap5(a1, 1) EXCEPT !.maxCost = 2], [Swap5(a1, 1) EXCEPT !.maxCost = 3],
   [Swap5(a2, 0) EXCEPT !.minOut = 3], [Swap5(a2, 0) EXCEPT !.fee = 1]}

(* Market: one sender beside an active trader, and every way a call of the *)
(* batch may not be what the policy wants.                                 *)
MarketOps ==
  {Swap5(a1, 0),
   [Swap5(a1, 0) EXCEPT !.sigOk = FALSE],
   [Swap5(a1, 0) EXCEPT !.initCode = FALSE],
   [Swap5(a1, 0) EXCEPT !.shape = "other"],
   [Swap5(a1, 0) EXCEPT !.spender = trader],
   [Swap5(a1, 0) EXCEPT !.approved = 4],
   [Swap5(a1, 0) EXCEPT !.pair = <<"token1", "token0">>],
   [Swap5(a1, 0) EXCEPT !.to = trader],
   [Swap5(a1, 0) EXCEPT !.feeTo = trader],
   [Swap5(a1, 0) EXCEPT !.fee = 0],
   [Swap5(a1, 0) EXCEPT !.minOut = 1],
   [Swap5(a1, 0) EXCEPT !.amountIn = 0, !.approved = 0]}

(* Direct: the pool is also traded with directly and unpaid, before and    *)
(* between bundles of up to two operations.                                *)
DirectOps == {Swap5(a1, 0), Swap5(a1, 1), [Swap5(a2, 0) EXCEPT !.minOut = 3]}

TimePolicies ==
  {[gasBufferBps |-> 500, fixedMarkupWei |-> 0, minDepositWei |-> 1,
    minDelayBetweenOpsSec |-> d] : d \in {0, 2}}

MarketPolicies ==
  {[gasBufferBps |-> 500, fixedMarkupWei |-> 0, minDepositWei |-> 1,
    minDelayBetweenOpsSec |-> 0]}

MoneyPolicies ==
  {[gasBufferBps |-> b, fixedMarkupWei |-> m, minDepositWei |-> f, minDelayBetweenOpsSec |-> 0] :
     b \in {500, 10001}, m \in {0, 1}, f \in {0, 2}}

Scenarios == {"time", "money", "market", "direct", "exchange"}

BundlesOf ==
  [s \in Scenarios |->
    CASE s = "time" -> [1 .. 2 -> TimeOps] \cup [1 .. 1 -> TimeOps]
      [] s = "money" -> [1 .. 2 -> MoneyOps] \cup [1 .. 1 -> MoneyOps]
      [] s = "market" -> [1 .. 1 -> MarketOps]
      [] s = "direct" -> [1 .. 2 -> DirectOps] \cup [1 .. 1 -> DirectOps]
      [] s = "exchange" -> {}]

PoliciesOf ==
  [s \in Scenarios |->
    CASE s = "time" -> TimePolicies
      [] s = "money" -> MoneyPolicies
      [] OTHER -> MarketPolicies]

MCUsers == {a1, a2, trader, PAYMASTER}
MCUserOps == TimeOps \cup MoneyOps \cup MarketOps \cup DirectOps
MCPolicies == TimePolicies \cup MoneyPolicies \cup MarketPolicies

VARIABLE scenario

(* Every account and trader holds 10 tokenIn, the trader also tokenOut; in *)
(* the market there is less of both, and an exchange begins without        *)
(* liquidity.                                                              *)
Pooled == IF scenario = "exchange" THEN 0 ELSE 20
Holds(t, h) ==
  CASE h = POOL -> Pooled
    [] scenario = "exchange" -> IF h = trader THEN 7 ELSE 0
    [] h = PAYMASTER -> 0
    [] scenario = "market" -> IF h = trader \/ (t = "token0" /\ h = a1) THEN 5 ELSE 0
    [] OTHER -> IF t = "token0" THEN 10 ELSE IF h = trader THEN 15 ELSE 0

MCInit ==
  /\ scenario \in Scenarios
  /\ reserve = [t \in Token |-> Pooled]
  /\ balance = [t \in Token |-> [h \in Holders |-> Holds(t, h)]]
  /\ direct = [t \in Token |-> 0]
  /\ clock = 1
  /\ policy \in {p \in PoliciesOf[scenario] : p.gasBufferBps <= 10000}
  /\ price = 6
  /\ lastPostOpTs = [a \in Accounts |-> 0]
  /\ stats = [sponsoredOps |-> 0, sponsoredOpsSucceeded |-> 0, sponsoredOpsReverted |-> 0,
              totalActualGasCostWei |-> 0, totalFeeAmount |-> 0]
  /\ deposit = 4
  /\ nonce = [a \in Accounts |-> 0]
  /\ deployed = [a \in Accounts |-> FALSE]
  /\ phase = "idle"
  /\ bundle = <<>>
  /\ next = 1
  /\ saved = <<>>
  /\ gas = [charged |-> 0, forSucceeded |-> 0]
  /\ funded = 4
  /\ served = {}

(* What the exchange does in a scenario: time passes; the trader trades in *)
(* lots of five; he books 5 or 40 at the pool, unpaid; he trades in any    *)
(* amounts, of a small supply.                                             *)
Change(t, h) == balance'[t][h] - balance[t][h]
TraderAlone == \A t \in Token, h \in {a1, a2, PAYMASTER} : Change(t, h) = 0
ExchangeBounds ==
  \/ scenario = "time" /\ clock' # clock
  \/ /\ scenario = "market" /\ TraderAlone /\ ~(direct' # direct)
     /\ \E t \in Token, h \in Holders : Change(t, h) \in {-5, 5}
  \/ /\ scenario = "direct" /\ TraderAlone /\ direct' # direct
     /\ \A t \in Token : direct'[t] \in {0, 5, 40} /\ Change(t, trader) >= 0
  \/ /\ scenario = "exchange" /\ TraderAlone /\ ~(direct' # direct)
     /\ \A t \in Token : balance'[t][trader] + balance'[t][POOL] <= 9

MCNext ==
  /\ \/ \E ops \in BundlesOf[scenario] : BeginBundle(ops)
     \/ ValidateOp
     \/ RejectBundle
     \/ ExecuteOp
     \/ AbortBundle
     \/ scenario = "money" /\ \E v \in Values : Deposit(v) \/ WithdrawTo(v)
     \/ \E p \in PoliciesOf[scenario] : OwnerSetPolicy(p)
     \/ scenario = "money" /\ \E p \in Prices : OwnerSetPrice(p)
     \/ ExchangeStep /\ ExchangeBounds
  /\ UNCHANGED scenario

MCSpec == MCInit /\ [][MCNext]_<<vars, scenario>>
============================================================================
