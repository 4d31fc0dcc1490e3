----------------------------- MODULE EntryPoint -----------------------------
(***************************************************************************)
(* EntryPoint v0.7 running bundles of sponsored user operations against    *)
(* GaslessSwapPaymaster, SimpleAccount and the demo exchange.              *)
(*                                                                         *)
(* handleOps is one transaction, modelled by its steps: every operation of *)
(* the bundle is validated first (ValidateOp), then every one is executed  *)
(* (OpSucceeded, OpReverted, PostOpReverted), and a failing validation or  *)
(* an out-of-gas bundle reverts everything (RejectBundle, AbortBundle).    *)
(* Nothing else happens on chain while phase # "idle".                     *)
(***************************************************************************)
EXTENDS GaslessSwapPaymaster, Sequences, FiniteSets

CONSTANTS
  UserOps,     \* the signed user operations that exist (bounds the model)
  MaxBundle,   \* operations per bundle (bounds the model)
  Traders,     \* holders that transact by themselves, not through operations
  Values,      \* wei that is deposited or withdrawn at once (bounds the model)
  MaxFunded    \* total deposited (bounds the model)

ASSUME EntryPointAssumption ==
  /\ UserOps \subseteq UserOp
  /\ MaxBundle \in Nat \ {0}
  /\ Traders \subseteq Users \ {PAYMASTER}
  /\ Values \subseteq Nat
  /\ MaxFunded \in Nat

VARIABLES
  deposit,    \* the paymaster's deposit
  nonce,      \* nonceSequenceNumber[sender][0]
  deployed,   \* whether the sender's account contract exists
  phase,      \* "idle", or the loop of handleOps: "validation", "execution"
  bundle,     \* the operations of the running handleOps
  next,       \* index of the next operation in the running loop
  saved,      \* chain state when handleOps began, restored by a revert
  gas,        \* history: wei taken from the deposit, by outcome
  funded,     \* history: deposits less withdrawals
  served      \* history: <<sender, nonce>> of executed operations

vars == <<dexVars, paymasterVars, deposit, nonce, deployed,
          phase, bundle, next, saved, gas, funded, served>>

Phase == {"idle", "validation", "execution"}
Gas == [charged : Nat, forSucceeded : Nat]

Key(op) == <<op.sender, op.nonce>>

(* What a reverted handleOps restores.                                     *)
Snapshot == [deposit |-> deposit, nonce |-> nonce, deployed |-> deployed,
             reserve |-> reserve, balance |-> balance, lastPostOpTs |-> lastPostOpTs,
             stats |-> stats, gas |-> gas, served |-> served]

Snapshots ==
  [deposit : Nat, nonce : [Accounts -> Nat], deployed : [Accounts -> BOOLEAN],
   reserve : [Token -> Nat], balance : [Token -> [Holders -> Nat]],
   lastPostOpTs : [Accounts -> Nat], stats : Stats, gas : Gas,
   served : SUBSET (Accounts \X Nat)]

TypeOK ==
  /\ DexTypeOK
  /\ PaymasterTypeOK
  /\ deposit \in Nat
  /\ nonce \in [Accounts -> Nat]
  /\ deployed \in [Accounts -> BOOLEAN]
  /\ phase \in Phase
  /\ bundle \in Seq(UserOps)
  /\ next \in 1 .. Len(bundle) + 1
  /\ phase # "idle" => saved \in Snapshots /\ next <= Len(bundle)
  /\ gas \in Gas
  /\ funded \in Int
  /\ served \in SUBSET (Accounts \X Nat)

Idle ==
  /\ phase' = "idle"
  /\ bundle' = <<>>
  /\ next' = 1
  /\ saved' = <<>>

Op == bundle[next]

(* Advance the running loop: to the next operation, from the validation    *)
(* loop to the execution loop, or out of handleOps.                        *)
Advance ==
  \/ /\ next < Len(bundle)
     /\ next' = next + 1
     /\ UNCHANGED <<phase, bundle, saved>>
  \/ /\ next = Len(bundle)
     /\ phase = "validation"
     /\ phase' = "execution"
     /\ next' = 1
     /\ UNCHANGED <<bundle, saved>>
  \/ /\ next = Len(bundle)
     /\ phase = "execution"
     /\ Idle

(* A revert of handleOps leaves no trace on chain.                         *)
Rollback ==
  /\ deposit' = saved.deposit
  /\ nonce' = saved.nonce
  /\ deployed' = saved.deployed
  /\ reserve' = saved.reserve
  /\ balance' = saved.balance
  /\ lastPostOpTs' = saved.lastPostOpTs
  /\ stats' = saved.stats
  /\ gas' = saved.gas
  /\ served' = saved.served
  /\ Idle
  /\ UNCHANGED <<clock, direct, policy, price, funded>>

----------------------------------------------------------------------------
(* handleOps.                                                              *)

BeginBundle(ops) ==
  /\ phase = "idle"
  /\ phase' = "validation"
  /\ bundle' = ops
  /\ next' = 1
  /\ saved' = Snapshot
  /\ UNCHANGED <<dexVars, paymasterVars, deposit, nonce, deployed, gas, funded, served>>

(* Variant: the nonce is counted but not compared.                         *)
AcceptableAnyNonce(op) ==
  /\ op.initCode # deployed[op.sender]
  /\ op.sigOk
  /\ deposit >= op.maxCost
  /\ PaymasterAccepts(op, deposit - op.maxCost)
  /\ InWindow(op)

(* Everything _validatePrepayment and the validity window ask of an        *)
(* operation.  The prefund leaves the deposit before the paymaster looks   *)
(* at it.                                                                  *)
Acceptable(op) ==
  /\ op.initCode # deployed[op.sender]
  /\ op.sigOk
  /\ nonce[op.sender] = op.nonce
  /\ deposit >= op.maxCost
  /\ PaymasterAccepts(op, deposit - op.maxCost)
  /\ InWindow(op)

ValidateOp ==
  /\ phase = "validation"
  /\ Acceptable(Op)
  /\ deployed' = [deployed EXCEPT ![Op.sender] = TRUE]
  /\ nonce' = [nonce EXCEPT ![Op.sender] = @ + 1]
  /\ deposit' = deposit - Op.maxCost
  /\ Advance
  /\ UNCHANGED <<dexVars, paymasterVars, gas, funded, served>>

RejectBundle ==
  /\ phase = "validation"
  /\ ~Acceptable(Op)
  /\ Rollback

(* The three calls of executeBatch all go through.                         *)
BatchRuns(op) ==
  LET t == op.pair[1]
      out == Quote(t, op.amountIn)
  IN  /\ op.shape = "batch3"
      /\ op.spender = ROUTER
      /\ op.approved >= op.amountIn
      /\ op.pair[2] = Other(t)
      /\ CanSwap(op.sender, t, op.amountIn, op.minOut, op.deadline)
      /\ SwapLedger(op.sender, t, op.amountIn, out, op.to)["token1"][op.sender] >= op.fee

(* The gas cost charged for an executed operation, and the rest of its     *)
(* prefund, which goes back to the deposit.                                *)
Charge(op, cost, succeeded) ==
  /\ deposit' = deposit + (op.maxCost - cost)
  /\ gas' = [charged |-> gas.charged + cost,
             forSucceeded |-> IF succeeded THEN gas.forSucceeded + cost ELSE gas.forSucceeded]
  /\ served' = served \cup {Key(op)}

(* reported is what the EntryPoint passes to postOp: the cost so far,      *)
(* without postOp's own gas and the penalty for unused gas.                *)
OpSucceeded(cost, reported) ==
  LET t == Op.pair[1]
      out == Quote(t, Op.amountIn)
      swapped == SwapLedger(Op.sender, t, Op.amountIn, out, Op.to)
  IN
  /\ BatchRuns(Op)
  /\ reserve' = SwappedReserve(t, Op.amountIn)
  /\ balance' = Moved(swapped, "token1", Op.sender, Op.feeTo, Op.fee)
  /\ stats' = PostOpStats(TRUE, Op, reported)
  /\ lastPostOpTs' = PostOpTs(Op)
  /\ Charge(Op, cost, TRUE)
  /\ Advance
  /\ UNCHANGED <<clock, direct, policy, price, nonce, deployed, funded>>

(* A call of the batch reverts, or the batch runs out of callGasLimit,     *)
(* which any batch may: postOp still runs.                                 *)
OpReverted(cost, reported) ==
  /\ stats' = PostOpStats(FALSE, Op, reported)
  /\ lastPostOpTs' = PostOpTs(Op)
  /\ Charge(Op, cost, FALSE)
  /\ Advance
  /\ UNCHANGED <<dexVars, policy, price, nonce, deployed, funded>>

(* postOp reverts, or the cost exceeds the prefund: the inner call, with   *)
(* the batch and the postOp in it, is undone and the gas is still charged. *)
PostOpReverted(cost) ==
  /\ Charge(Op, cost, FALSE)
  /\ Advance
  /\ UNCHANGED <<dexVars, paymasterVars, nonce, deployed, funded>>

ExecuteOp ==
  /\ phase = "execution"
  /\ \E cost \in 0 .. Op.maxCost :
       \/ \E reported \in 0 .. cost : OpSucceeded(cost, reported) \/ OpReverted(cost, reported)
       \/ PostOpReverted(cost)

(* The bundler left too little gas for an inner call, or the beneficiary   *)
(* cannot be paid.                                                         *)
AbortBundle ==
  /\ phase = "execution"
  /\ Rollback

----------------------------------------------------------------------------
(* Transactions other than handleOps.                                      *)

EntryPointIdle ==
  /\ phase = "idle"
  /\ UNCHANGED <<nonce, deployed, phase, bundle, next, saved, gas, served>>

Deposit(v) ==
  /\ EntryPointIdle
  /\ funded + v <= MaxFunded
  /\ deposit' = deposit + v
  /\ funded' = funded + v
  /\ UNCHANGED <<dexVars, paymasterVars>>

WithdrawTo(v) ==
  /\ EntryPointIdle
  /\ v <= deposit
  /\ deposit' = deposit - v
  /\ funded' = funded - v
  /\ UNCHANGED <<dexVars, paymasterVars>>

OwnerSetPolicy(p) ==
  /\ EntryPointIdle
  /\ SetPolicy(p)
  /\ UNCHANGED <<dexVars, deposit, funded>>

OwnerSetPrice(p) ==
  /\ EntryPointIdle
  /\ SetPrice(p)
  /\ UNCHANGED <<dexVars, deposit, funded>>

(* Traders swap, through the router or at the pool (a minimum output only  *)
(* ever disables a swap), transfer, mint and unwrap by themselves; time    *)
(* passes between blocks.                                                  *)
ExchangeStep ==
  /\ EntryPointIdle
  /\ \/ \E u \in Traders, t \in Token, a \in Amounts, d \in Deadlines : Swap(u, t, a, 0, u, d)
     \/ \E to \in Holders, t \in Token, a \in Amounts : SwapAtPool(t, a, 0, to)
     \/ \E u \in Traders, a0, a1 \in Amounts : AddLiquidity(u, a0, a1)
     \/ \E u \in Traders, to \in Holders, t \in Token, a \in Amounts : Transfer(u, t, to, a)
     \/ \E to \in Holders, a \in Amounts : Mint(to, a)
     \/ \E u \in Traders, a \in Amounts : Wrap(u, a) \/ Unwrap(u, a)
     \/ Tick
  /\ UNCHANGED <<paymasterVars, deposit, funded>>

----------------------------------------------------------------------------
Init ==
  /\ DexInit
  /\ PaymasterInit
  /\ balance["token1"][PAYMASTER] = 0
  /\ deposit = 0
  /\ nonce = [a \in Accounts |-> 0]
  /\ deployed = [a \in Accounts |-> FALSE]
  /\ phase = "idle"
  /\ bundle = <<>>
  /\ next = 1
  /\ saved = <<>>
  /\ gas = [charged |-> 0, forSucceeded |-> 0]
  /\ funded = 0
  /\ served = {}

Next ==
  \/ \E n \in 1 .. MaxBundle : \E ops \in [1 .. n -> UserOps] : BeginBundle(ops)
  \/ ValidateOp
  \/ RejectBundle
  \/ ExecuteOp
  \/ AbortBundle
  \/ \E v \in Values : Deposit(v) \/ WithdrawTo(v)
  \/ \E p \in Policies : OwnerSetPolicy(p)
  \/ \E p \in Prices : OwnerSetPrice(p)
  \/ ExchangeStep

Spec == Init /\ [][Next]_vars

----------------------------------------------------------------------------
(* Safety.                                                                 *)

(* Operations of the running bundle that are validated and not executed.   *)
Pending ==
  IF phase = "validation" THEN 1 .. next - 1
  ELSE IF phase = "execution" THEN next .. Len(bundle) ELSE {}

(* What the paymaster books as collected fees it really holds in tokenOut, *)
(* through every revert of a batch, a postOp or a whole bundle (_postOp    *)
(* only adds a number; the transfer is the account's third call).          *)
FeesHeld == balance["token1"][PAYMASTER] >= stats.totalFeeAmount

(* Sponsoring swaps that succeed never loses: the fees booked for them     *)
(* cover all the gas the EntryPoint took for them, including postOp and    *)
(* the penalty, for every policy in force at the time (_requiredFee).      *)
SponsorshipSolvent == stats.totalFeeAmount >= gas.forSucceeded

(* The counters partition the sponsored operations, and count no operation *)
(* that was not executed, even if its bundle was reverted halfway.         *)
CountersAgree ==
  /\ stats.sponsoredOps = stats.sponsoredOpsSucceeded + stats.sponsoredOpsReverted
  /\ stats.sponsoredOps <= Cardinality(served)

(* The gas the paymaster reports is never more than it paid (postOp is     *)
(* told the cost before its own gas is added).                             *)
ReportedGasIsPaid == stats.totalActualGasCostWei <= gas.charged

(* Sponsoring alone never takes the deposit below minDepositWei: however   *)
(* many operations a bundle holds, after their prefunds are taken the      *)
(* deposit is at or above the floor, and execution only refunds.           *)
DepositFloor == Pending # {} => deposit >= policy.minDepositWei

(* A signed operation is executed at most once, and a sender's operations  *)
(* in the order of their nonces, also within one bundle (NonceManager).    *)
AtMostOnce ==
  /\ \A k \in Pending : Key(bundle[k]) \notin served
  /\ \A j, k \in Pending :
       j < k /\ bundle[j].sender = bundle[k].sender => bundle[j].nonce < bundle[k].nonce
  /\ \A r \in served, k \in Pending : r[1] = bundle[k].sender => r[2] < bundle[k].nonce

(* An operation with a non-zero deadline that is about to be executed is   *)
(* within it, although the validity window only has uint48 of it.          *)
DeadlineWindow ==
  phase = "execution" =>
    \A k \in Pending : bundle[k].deadline # 0 => clock <= bundle[k].deadline

(* Two sponsored operations of a sender in different bundles are at least  *)
(* minDelayBetweenOpsSec apart (lastPostOpTs is read in the validation     *)
(* loop and written in the execution loop).                                *)
CooldownAcrossBundles ==
  phase = "execution" =>
    \A k \in Pending :
      (\A j \in 1 .. next - 1 : bundle[j].sender # bundle[k].sender)
        => clock >= CooldownEnd(bundle[k].sender)

(* What validation promises about execution: with enough tokenIn and gas,  *)
(* an operation goes through unless an earlier one of its bundle has moved *)
(* the price it was validated against, or direct callers of the pool have  *)
(* booked more than the pool can miss (the quote is taken in the           *)
(* validation loop, the swap happens in the execution loop).               *)
ValidatedOpRuns ==
  (/\ phase = "execution"
   /\ reserve = saved.reserve
   /\ Op.deadline # 0 /\ Op.maxCost > 0
   /\ balance["token0"][Op.sender] >= Op.amountIn
   /\ Quote("token0", Op.amountIn) + direct["token1"] <= reserve["token1"])
    => BatchRuns(Op)

(* No transaction shrinks the product of the pool's reserves, whatever a   *)
(* bundle swaps and takes back on its way (DemoPool.sol:117).              *)
Committed == IF phase = "idle" THEN reserve ELSE saved.reserve
ProductKept ==
  [][phase' = "idle" =>
       reserve'["token0"] * reserve'["token1"] >= Committed["token0"] * Committed["token1"]]_vars

----------------------------------------------------------------------------
(* The inductive invariant behind these properties.                        *)

(* What holds of the chain between any two steps, and of the snapshot a    *)
(* revert would restore: the books of FeesHeld, SponsorshipSolvent,        *)
(* CountersAgree and ReportedGasIsPaid, nonces beyond all that was served, *)
(* a pool that only direct callers have left short.                        *)
BooksOK(s) ==
  /\ s.balance["token1"][PAYMASTER] >= s.stats.totalFeeAmount
  /\ s.stats.totalFeeAmount >= s.gas.forSucceeded
  /\ s.stats.sponsoredOps = s.stats.sponsoredOpsSucceeded + s.stats.sponsoredOpsReverted
  /\ s.stats.totalActualGasCostWei <= s.gas.charged
  /\ IsFiniteSet(s.served) /\ s.stats.sponsoredOps <= Cardinality(s.served)
  /\ \A r \in s.served : r[2] < s.nonce[r[1]]
  /\ \A t \in Token : s.balance[t][POOL] + direct[t] >= s.reserve[t]

(* The pool's quote for an operation when handleOps began.                 *)
QuotedAtStart(op) ==
  LET r == saved.reserve
  IN  /\ r["token0"] # 0 /\ r["token1"] # 0
      /\ AmountOut(op.amountIn, r["token0"], r["token1"]) >= op.minOut

(* What validation has established of a pending operation and execution of *)
(* the operations before it has not undone.                                *)
PendingOK(k) ==
  LET op == bundle[k]
  IN  /\ ValidCallData(op)
      /\ op.fee >= op.maxCost
      /\ op.minOut >= op.fee
      /\ op.nonce < nonce[op.sender]
      /\ \A r \in served : r[1] = op.sender => r[2] < op.nonce
      /\ \A j \in Pending :
           j < k /\ bundle[j].sender = op.sender => bundle[j].nonce < op.nonce
      /\ op.deadline # 0 => clock <= op.deadline
      /\ (phase = "validation" \/ \A j \in 1 .. next - 1 : bundle[j].sender # op.sender)
           => clock >= CooldownEnd(op.sender)
      /\ QuotedAtStart(op)

IInv ==
  /\ TypeOK
  /\ clock < TsMod
  /\ BooksOK(Snapshot)
  /\ phase # "idle" => BooksOK(saved)
  /\ phase = "validation" => reserve = saved.reserve
  /\ DepositFloor
  /\ \A k \in Pending : PendingOK(k)
============================================================================
