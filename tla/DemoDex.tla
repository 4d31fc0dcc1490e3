------------------------------ MODULE DemoDex ------------------------------
(***************************************************************************)
(* The demo exchange: the constant-product DemoPool, the DemoRouter in     *)
(* front of it, and the two ERC-20 ledgers they move tokens in.            *)
(*                                                                         *)
(* token0 is the demo USDC (the paymaster's tokenIn), token1 is the        *)
(* wrapped native token (the paymaster's tokenOut).  A transaction that    *)
(* fails a require reverts as a whole, so an action of this module is one  *)
(* successful transaction and its guard is the conjunction of the requires *)
(* the code meets on the way.  The pool's own swapExactIn asks nobody for  *)
(* the input it books: the router pays it beforehand, and a caller who     *)
(* goes to the pool directly need not.                                     *)
(***************************************************************************)
EXTENDS Integers, Functions

CONSTANTS
  Users,      \* token holders other than the pool
  POOL,       \* the pool's own address
  FeeBps,     \* the pool's swap fee, in 1/10000
  Amounts,    \* amounts that users transfer, swap or add (bounds the model)
  Deadlines,  \* router deadlines that users choose (bounds the model)
  MaxClock,   \* last block timestamp (bounds the model)
  MaxSupply,  \* supply up to which a token is issued (bounds the model)
  MaxDirect   \* input of a token booked by direct callers (bounds the model)

ASSUME DexAssumption ==
  /\ POOL \notin Users
  /\ FeeBps \in 0 .. 1000
  /\ Amounts \subseteq Nat
  /\ Deadlines \subseteq Nat
  /\ MaxClock \in Nat \ {0}
  /\ MaxSupply \in Nat
  /\ MaxDirect \in Nat

VARIABLES
  clock,      \* block.timestamp
  reserve,    \* the pool's reserve0 and reserve1
  balance,    \* the two ERC-20 ledgers
  direct      \* history: input that direct callers of the pool have booked

dexVars == <<clock, reserve, balance, direct>>

Token == {"token0", "token1"}
Other(t) == IF t = "token0" THEN "token1" ELSE "token0"
Holders == Users \cup {POOL}

DexTypeOK ==
  /\ clock \in Nat
  /\ reserve \in [Token -> Nat]
  /\ balance \in [Token -> [Holders -> Nat]]
  /\ direct \in [Token -> Nat]

----------------------------------------------------------------------------
(* Arithmetic of the pool.  Division of naturals rounds down.              *)

Bps == 10000

(* Variant: the quotient rounded up.                                       *)
AmountOutRoundedUp(amountIn, rIn, rOut) ==
  LET amountInWithFee == amountIn * (Bps - FeeBps)
      d == rIn * Bps + amountInWithFee
  IN  (amountInWithFee * rOut + d - 1) \div d

AmountOut(amountIn, rIn, rOut) ==
  LET amountInWithFee == amountIn * (Bps - FeeBps)
  IN  (amountInWithFee * rOut) \div (rIn * Bps + amountInWithFee)

(* _selectReserves for the pair (t, Other(t)), then the formula above.     *)
Quote(t, amountIn) == AmountOut(amountIn, reserve[t], reserve[Other(t)])

HasReserves == reserve["token0"] # 0 /\ reserve["token1"] # 0

(* One token's ledger after a transfer, and the ledgers b after a transfer *)
(* of token t.                                                             *)
Sent(l, from, to, amt) == [[l EXCEPT ![from] = @ - amt] EXCEPT ![to] = @ + amt]
Moved(b, t, from, to, amt) == [b EXCEPT ![t] = Sent(b[t], from, to, amt)]

(* The ledgers after new units of a token, up to the bound on its supply.  *)
CanIssue(t, amt) == SumFunction(balance[t]) + amt <= MaxSupply
Issued(t, to, amt) == [balance EXCEPT ![t][to] = @ + amt]

(* The ledgers after the router's swap: the input is pulled from the       *)
(* caller straight into the pool, the output is sent to the recipient.     *)
SwapLedger(u, t, amountIn, out, to) ==
  Moved(Moved(balance, t, u, POOL, amountIn), Other(t), POOL, to, out)

(* Every require on the way of DemoRouter.swapExactIn.                     *)
CanSwap(u, t, amountIn, minOut, deadline) ==
  /\ clock <= deadline
  /\ balance[t][u] >= amountIn
  /\ amountIn # 0
  /\ HasReserves
  /\ Quote(t, amountIn) >= minOut
  /\ balance[Other(t)][POOL] >= Quote(t, amountIn)

SwappedReserve(t, amountIn) ==
  [reserve EXCEPT ![t] = @ + amountIn, ![Other(t)] = @ - Quote(t, amountIn)]

----------------------------------------------------------------------------
(* Operations.                                                             *)

(* A caller of the router who has approved it for amountIn.                *)
Swap(u, t, amountIn, minOut, to, deadline) ==
  /\ CanSwap(u, t, amountIn, minOut, deadline)
  /\ reserve' = SwappedReserve(t, amountIn)
  /\ balance' = SwapLedger(u, t, amountIn, Quote(t, amountIn), to)
  /\ UNCHANGED <<clock, direct>>

(* Anyone at the pool itself: the input is booked and the output is sent,  *)
(* whether or not the input has ever been transferred.                     *)
SwapAtPool(t, amountIn, minOut, to) ==
  /\ amountIn # 0
  /\ HasReserves
  /\ Quote(t, amountIn) >= minOut
  /\ balance[Other(t)][POOL] >= Quote(t, amountIn)
  /\ direct[t] + amountIn <= MaxDirect
  /\ reserve' = SwappedReserve(t, amountIn)
  /\ balance' = Moved(balance, Other(t), POOL, to, Quote(t, amountIn))
  /\ direct' = [direct EXCEPT ![t] = @ + amountIn]
  /\ UNCHANGED clock

(* Liquidity comes from a provider who has approved the pool; no share is  *)
(* minted for it.                                                          *)
AddLiquidity(u, amount0, amount1) ==
  /\ amount0 # 0 /\ amount1 # 0
  /\ balance["token0"][u] >= amount0
  /\ balance["token1"][u] >= amount1
  /\ reserve' = [reserve EXCEPT !["token0"] = @ + amount0, !["token1"] = @ + amount1]
  /\ balance' = Moved(Moved(balance, "token0", u, POOL, amount0), "token1", u, POOL, amount1)
  /\ UNCHANGED <<clock, direct>>

(* Any holder may transfer tokens, to the pool as well.                    *)
Transfer(u, t, to, amt) ==
  /\ balance[t][u] >= amt
  /\ balance' = Moved(balance, t, u, to, amt)
  /\ UNCHANGED <<clock, reserve, direct>>

(* TestERC20.mint for the demo USDC, by anyone to anyone; WNative.deposit  *)
(* by its caller, and WNative.withdraw.                                    *)
Mint(to, amt) ==
  /\ CanIssue("token0", amt)
  /\ balance' = Issued("token0", to, amt)
  /\ UNCHANGED <<clock, reserve, direct>>

Wrap(u, amt) ==
  /\ amt # 0
  /\ CanIssue("token1", amt)
  /\ balance' = Issued("token1", u, amt)
  /\ UNCHANGED <<clock, reserve, direct>>

Unwrap(u, amt) ==
  /\ amt # 0
  /\ balance["token1"][u] >= amt
  /\ balance' = [balance EXCEPT !["token1"][u] = @ - amt]
  /\ UNCHANGED <<clock, reserve, direct>>

Tick ==
  /\ clock < MaxClock
  /\ clock' = clock + 1
  /\ UNCHANGED <<reserve, balance, direct>>

----------------------------------------------------------------------------
DexInit ==
  /\ clock = 1
  /\ reserve = [t \in Token |-> 0]
  /\ balance \in [Token -> [Holders -> Nat]]
  /\ \A t \in Token : balance[t][POOL] = 0
  /\ direct = [t \in Token |-> 0]

DexNext ==
  \/ \E u, to \in Users, t \in Token, amountIn \in Amounts, minOut \in Amounts \cup {0}, d \in Deadlines :
       Swap(u, t, amountIn, minOut, to, d)
  \/ \E to \in Holders, t \in Token, amountIn \in Amounts, minOut \in Amounts \cup {0} :
       SwapAtPool(t, amountIn, minOut, to)
  \/ \E u \in Users, a0, a1 \in Amounts : AddLiquidity(u, a0, a1)
  \/ \E u \in Users, to \in Holders, t \in Token, amt \in Amounts : Transfer(u, t, to, amt)
  \/ \E to \in Holders, amt \in Amounts : Mint(to, amt)
  \/ \E u \in Users, amt \in Amounts : Wrap(u, amt) \/ Unwrap(u, amt)
  \/ Tick

DexSpec == DexInit /\ [][DexNext]_dexVars

----------------------------------------------------------------------------
(* Properties.                                                             *)

(* What the pool books as reserve and does not hold in the ledger was      *)
(* booked by direct callers: no swap of the router, no liquidity and no    *)
(* transfer ever leaves it short (DemoPool.swapExactIn books before it     *)
(* pays and never looks at its own balance).                               *)
PoolCovered == \A t \in Token : balance[t][POOL] + direct[t] >= reserve[t]

(* No transaction shrinks the product of the reserves: every rounding of   *)
(* the swap formula goes to the pool, also in swaps that nobody pays for.  *)
ProductNeverShrinks ==
  [][reserve'["token0"] * reserve'["token1"] >= reserve["token0"] * reserve["token1"]]_dexVars

(* One side of the pool is never emptied by a swap: once there is          *)
(* liquidity, both reserves stay positive for ever, so a quote never       *)
(* reverts with "empty reserves" again.                                    *)
ReservesStayPositive == [][HasReserves => HasReserves']_dexVars
============================================================================
