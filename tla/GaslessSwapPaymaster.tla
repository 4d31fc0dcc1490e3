------------------------ MODULE GaslessSwapPaymaster ------------------------
(***************************************************************************)
(* The sponsorship policy of GaslessSwapPaymaster: what a user operation   *)
(* must look like to be sponsored, what the paymaster reads to decide      *)
(* (its policy, its deposit, the pool, the price oracle and the sender's   *)
(* last sponsored operation), and what its postOp books afterwards.        *)
(*                                                                         *)
(* The validation is a view function: it is an operator here, evaluated by *)
(* the EntryPoint's validation step (module EntryPoint).                   *)
(***************************************************************************)
EXTENDS DemoDex

CONSTANTS
  Accounts,     \* smart accounts (senders of user operations)
  PAYMASTER,    \* the paymaster's address
  ROUTER,       \* the demo router's address
  OracleUnit,   \* 10 ** decimals of tokenIn, in the oracle's price formula
  TsMod,        \* 2 ** 48: block timestamps and validity bounds are uint48
  Policies,     \* policies the owner tries to set (bounds the model)
  Prices        \* prices the oracle's owner sets (bounds the model)

Policy == [gasBufferBps : Nat, fixedMarkupWei : Nat,
           minDepositWei : Nat, minDelayBetweenOpsSec : Nat]

ASSUME PaymasterAssumption ==
  /\ Accounts \subseteq Users
  /\ PAYMASTER \in Users \ Accounts
  /\ OracleUnit \in Nat \ {0}
  /\ TsMod \in Nat \ {0}
  /\ MaxClock < TsMod
  /\ Policies \subseteq Policy
  /\ Prices \subseteq Nat

VARIABLES
  policy,        \* gasBufferBps, fixedMarkupWei, minDepositWei, minDelayBetweenOpsSec
  price,         \* the oracle's price of tokenIn in wei, 0 when not set
  lastPostOpTs,  \* per sender, when postOp last ran for it (0: never)
  stats          \* the paymaster's public counters

paymasterVars == <<policy, price, lastPostOpTs, stats>>

Stats == [sponsoredOps : Nat, sponsoredOpsSucceeded : Nat, sponsoredOpsReverted : Nat,
          totalActualGasCostWei : Nat, totalFeeAmount : Nat]

(* A user operation, reduced to what the contracts look at.  maxCost is    *)
(* the prefund: the sum of its gas limits times maxFeePerGas.  shape says  *)
(* whether callData decodes to executeBatch of exactly three zero-value    *)
(* calls approve, swapExactIn, transfer on the expected targets; the       *)
(* arguments of the three calls are the fields from spender to deadline.   *)
UserOp == [sender : Accounts, nonce : Nat, initCode : BOOLEAN, sigOk : BOOLEAN,
           maxCost : Nat, shape : {"batch3", "other"},
           spender : Holders \cup {ROUTER}, approved : Nat,
           pair : Token \X Token, amountIn : Nat, minOut : Nat, to : Users, deadline : Nat,
           feeTo : Users, fee : Nat]

PaymasterTypeOK ==
  /\ policy \in Policy
  /\ price \in Nat
  /\ lastPostOpTs \in [Accounts -> Nat]
  /\ stats \in Stats

----------------------------------------------------------------------------
(* Validation.                                                             *)

(* Variant of ValidCallData: the recipient of the fee is not checked.      *)
ValidCallDataAnyFeeTo(op) ==
  /\ op.shape = "batch3"
  /\ op.spender = ROUTER
  /\ op.pair = <<"token0", "token1">>
  /\ op.to = op.sender
  /\ op.approved = op.amountIn

(* _validateCallData: approve(router, amountIn), swapExactIn(tokenIn,      *)
(* tokenOut, amountIn, minOut, sender, deadline), transfer(this, fee).     *)
ValidCallData(op) ==
  /\ op.shape = "batch3"
  /\ op.spender = ROUTER
  /\ op.pair = <<"token0", "token1">>
  /\ op.to = op.sender
  /\ op.feeTo = PAYMASTER
  /\ op.approved = op.amountIn

(* Variant: divided before it is multiplied.                               *)
RequiredFeeDividedFirst(maxCost) ==
  (maxCost \div Bps) * (Bps + policy.gasBufferBps) + policy.fixedMarkupWei

RequiredFee(maxCost) ==
  (maxCost * (Bps + policy.gasBufferBps)) \div Bps + policy.fixedMarkupWei

(* The price checks: the pool's quote now, and 95% of the oracle's price.  *)
FairOut(amountIn) == (amountIn * price) \div OracleUnit

(* Variant: the oracle's price alone decides.                              *)
PriceAcceptsOracleOnly(op) ==
  /\ price > 0
  /\ op.minOut >= (FairOut(op.amountIn) * 95) \div 100

PriceAccepts(op) ==
  /\ HasReserves
  /\ Quote("token0", op.amountIn) >= op.minOut
  /\ price > 0
  /\ op.minOut >= (FairOut(op.amountIn) * 95) \div 100

(* The validity window: the deadline truncated to uint48, where 0 stands   *)
(* for "no expiry" once the EntryPoint has parsed it, and the end of the   *)
(* sender's cooldown, whose uint48 addition reverts on overflow.           *)
ValidUntilNoExpiry(op) == TsMod - 1  \* variant: the deadline is dropped

ValidUntil(op) ==
  LET until == op.deadline % TsMod IN IF until = 0 THEN TsMod - 1 ELSE until

CooldownEnd(a) ==
  IF lastPostOpTs[a] = 0 THEN 0 ELSE lastPostOpTs[a] + policy.minDelayBetweenOpsSec

(* _validatePaymasterUserOp with the EntryPoint deposit at that moment.    *)
PaymasterAccepts(op, depositWei) ==
  /\ ValidCallData(op)
  /\ depositWei >= policy.minDepositWei
  /\ op.fee >= RequiredFee(op.maxCost)
  /\ op.minOut >= op.fee
  /\ PriceAccepts(op)
  /\ CooldownEnd(op.sender) < TsMod

InWindowUntilOnly(op) == clock <= ValidUntil(op)  \* variant: no validAfter

InWindow(op) == clock <= ValidUntil(op) /\ clock >= CooldownEnd(op.sender)

----------------------------------------------------------------------------
(* Accounting.                                                             *)

(* The counters after _postOp of an operation that succeeded or reverted.  *)
PostOpStats(succeeded, op, actualGasCost) ==
  [sponsoredOps |-> stats.sponsoredOps + 1,
   sponsoredOpsSucceeded |-> stats.sponsoredOpsSucceeded + IF succeeded THEN 1 ELSE 0,
   sponsoredOpsReverted |-> stats.sponsoredOpsReverted + IF succeeded THEN 0 ELSE 1,
   totalActualGasCostWei |-> stats.totalActualGasCostWei + actualGasCost,
   totalFeeAmount |-> stats.totalFeeAmount + IF succeeded THEN op.fee ELSE 0]

PostOpTs(op) == [lastPostOpTs EXCEPT ![op.sender] = clock % TsMod]

----------------------------------------------------------------------------
(* Owner operations.                                                       *)

SetPolicy(p) ==
  /\ p.gasBufferBps <= 10000
  /\ policy' = p
  /\ UNCHANGED <<price, lastPostOpTs, stats>>

SetPrice(p) ==
  /\ price' = p
  /\ UNCHANGED <<policy, lastPostOpTs, stats>>

PaymasterInit ==
  /\ policy = [gasBufferBps |-> 500, fixedMarkupWei |-> 0,
               minDepositWei |-> 0, minDelayBetweenOpsSec |-> 0]
  /\ price = 0
  /\ lastPostOpTs = [a \in Accounts |-> 0]
  /\ stats = [sponsoredOps |-> 0, sponsoredOpsSucceeded |-> 0, sponsoredOpsReverted |-> 0,
              totalActualGasCostWei |-> 0, totalFeeAmount |-> 0]
============================================================================
