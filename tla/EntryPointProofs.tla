-------------------------- MODULE EntryPointProofs --------------------------
(***************************************************************************)
(* The exchange, for every set of users, every fee up to 10% and all       *)
(* amounts: the arithmetic of the swap formula and the invariants of       *)
(* DexSpec.  Then sponsored bundles, for every set of accounts,            *)
(* operations, policies and prices, every fee and every bundle size:       *)
(* types, the inductive invariant IInv, and the safety properties of       *)
(* EntryPoint that follow from it.                                         *)
(***************************************************************************)
EXTENDS EntryPoint, FiniteSetTheorems, TLAPS

----------------------------------------------------------------------------
(* The exchange.                                                           *)

(* Quotient and remainder: what the provers need to know of \div.          *)
LEMMA DivBounds ==
  ASSUME NEW n \in Nat, NEW d \in Nat \ {0}
  PROVE  /\ n \div d \in Nat
         /\ (n \div d) * d <= n
         /\ n < (n \div d) * d + d
  OBVIOUS

(* Products of naturals are natural and monotone in each factor.           *)
LEMMA MulMono ==
  ASSUME NEW a \in Nat, NEW b \in Nat, NEW c \in Nat, a <= b
  PROVE  a * c \in Nat /\ b * c \in Nat /\ a * c <= b * c
  OBVIOUS

(* The heart of the constant-product argument, free of the quotient: if    *)
(* out is at most what the fee-adjusted formula allows then the pool's     *)
(* product does not shrink.  f stands for 10000 - feeBps.                  *)
LEMMA OutputCovered ==
  ASSUME NEW x \in Nat, NEW y \in Nat, NEW a \in Nat, NEW f \in Nat, f <= 10000,
         NEW out \in Nat, out <= y,
         out * (x * 10000 + a * f) <= (a * f) * y
  PROVE  out * (x + a) <= a * y
<1> DEFINE g == 10000 - f
<1>1. g \in Nat /\ f + g = 10000
  OBVIOUS
<1> HIDE DEF g
<1>2. out * (a * g) <= y * (a * g)
  <2>1. a * g \in Nat
    BY <1>1
  <2> QED
    BY <2>1, MulMono
<1>3. 10000 * (out * (x + a)) = out * (x * 10000 + a * f) + out * (a * g)
  <2>1. 10000 * (x + a) = (x * 10000 + a * f) + a * g
    <3>1. a * 10000 = a * f + a * g
      BY <1>1
    <3> QED
      BY <3>1, <1>1
  <2>2. 10000 * (out * (x + a)) = out * (10000 * (x + a))
    OBVIOUS
  <2>3. out * ((x * 10000 + a * f) + a * g) = out * (x * 10000 + a * f) + out * (a * g)
    BY <1>1
  <2> QED
    BY <2>1, <2>2, <2>3
<1>4. 10000 * (a * y) = (a * f) * y + y * (a * g)
  <2>1. a * 10000 = a * f + a * g
    BY <1>1
  <2>2. 10000 * (a * y) = (a * 10000) * y
    OBVIOUS
  <2>3. (a * f + a * g) * y = (a * f) * y + y * (a * g)
    BY <1>1
  <2> QED
    BY <2>1, <2>2, <2>3
<1>5. 10000 * (out * (x + a)) <= 10000 * (a * y)
  <2>1. a * f \in Nat /\ a * g \in Nat
    BY <1>1
  <2>2. (a * f) * y \in Nat /\ out * (a * g) \in Nat /\ y * (a * g) \in Nat
    BY <2>1
  <2>3. x * 10000 + a * f \in Nat
    BY <2>1
  <2>4. out * (x * 10000 + a * f) \in Nat
    BY <2>3
  <2> QED
    BY <1>2, <1>3, <1>4, <2>2, <2>4
<1>6. out * (x + a) \in Nat /\ a * y \in Nat
  OBVIOUS
<1> QED
  BY <1>5, <1>6

(* What the swap formula returns on non-empty reserves: a natural number   *)
(* below the output reserve, such that the product does not shrink.        *)
LEMMA AmountOutBounds ==
  ASSUME NEW x \in Nat \ {0}, NEW y \in Nat \ {0}, NEW a \in Nat
  PROVE  /\ AmountOut(a, x, y) \in Nat
         /\ AmountOut(a, x, y) < y
         /\ x * y <= (x + a) * (y - AmountOut(a, x, y))
<1> DEFINE f == Bps - FeeBps
           g == a * f
           d == x * Bps + g
           out == (g * y) \div d
<1>1. f \in Nat /\ f <= 10000
  BY DexAssumption DEF Bps
<1>3. AmountOut(a, x, y) = out
  BY DEF AmountOut
<1> HIDE DEF f
<1>2. g \in Nat /\ g * y \in Nat /\ x * Bps \in Nat \ {0} /\ d \in Nat \ {0}
  <2>1. f \in Nat
    BY <1>1
  <2>2. g \in Nat
    BY <2>1
  <2>3. x * Bps \in Nat \ {0}
    BY DEF Bps
  <2>4. g * y \in Nat
    BY <2>2
  <2> QED
    BY <2>2, <2>3, <2>4
<1> HIDE DEF g
<1>4. out \in Nat /\ out * d <= g * y
  BY <1>2, DivBounds
<1> HIDE DEF out
<1>5. out < y
  <2>1. SUFFICES ASSUME y <= out PROVE FALSE
    BY <1>4
  <2>2. y * d <= out * d
    BY <2>1, <1>2, <1>4, MulMono
  <2>3. y * d = y * (x * Bps) + g * y
    BY <1>2
  <2>4. y * (x * Bps) > 0
    BY <1>2
  <2> QED
    BY <2>2, <2>3, <2>4, <1>2, <1>4
<1>6. out * (x + a) <= a * y
  <2>1. out * (x * 10000 + a * f) <= (a * f) * y
    BY <1>4 DEF d, g, Bps
  <2>2. x \in Nat /\ y \in Nat /\ out \in Nat /\ out <= y
    BY <1>4, <1>5
  <2> QED
    BY <2>1, <2>2, <1>1, OutputCovered
<1>7. (x + a) * (y - out) = x * y + (a * y - out * (x + a))
  BY <1>4
<1>8. x * y \in Nat /\ a * y \in Nat /\ out * (x + a) \in Nat
  BY <1>4
<1> QED
  BY <1>3, <1>4, <1>5, <1>6, <1>7, <1>8

----------------------------------------------------------------------------
(* Ledgers.                                                                *)

Ledger == [Token -> [Holders -> Nat]]

(* A transfer changes two entries of one token's ledger and no other.      *)
LEMMA MovedLedger ==
  ASSUME NEW b \in Ledger, NEW t \in Token, NEW from \in Holders, NEW to \in Holders,
         NEW amt \in Nat, b[t][from] >= amt
  PROVE  /\ Moved(b, t, from, to, amt) \in Ledger
         /\ \A s \in Token, h \in Holders :
              Moved(b, t, from, to, amt)[s][h] =
                IF s # t \/ from = to THEN b[s][h]
                ELSE IF h = from THEN b[s][h] - amt
                ELSE IF h = to THEN b[s][h] + amt
                ELSE b[s][h]
<1> DEFINE r == Sent(b[t], from, to, amt)
<1>1. b[t] \in [Holders -> Nat] /\ b[t][from] \in Nat
  BY DEF Ledger
<1>2. r \in [Holders -> Nat]
  BY <1>1 DEF Sent
<1>3. \A h \in Holders :
        r[h] = IF from = to THEN b[t][h]
               ELSE IF h = from THEN b[t][h] - amt
               ELSE IF h = to THEN b[t][h] + amt
               ELSE b[t][h]
  BY <1>1 DEF Sent
<1>4. Moved(b, t, from, to, amt) = [b EXCEPT ![t] = r]
  BY DEF Moved
<1> HIDE DEF r
<1> QED
  BY <1>2, <1>3, <1>4 DEF Ledger

LEMMA OtherToken ==
  ASSUME NEW t \in Token
  PROVE  Other(t) \in Token /\ Other(t) # t /\ Other(Other(t)) = t
                  /\ \A s \in Token : s = t \/ s = Other(t)
  BY DEF Token, Other

(* On a pool with liquidity the quote is a natural below the reserve it    *)
(* is paid from, and the product of the reserves does not shrink.          *)
LEMMA QuoteBounds ==
  ASSUME DexTypeOK, HasReserves, NEW t \in Token, NEW a \in Nat
  PROVE  /\ Quote(t, a) \in Nat
         /\ Quote(t, a) < reserve[Other(t)]
         /\ reserve[t] * reserve[Other(t)]
              <= (reserve[t] + a) * (reserve[Other(t)] - Quote(t, a))
<1>1. reserve[t] \in Nat \ {0} /\ reserve[Other(t)] \in Nat \ {0}
  BY DEF DexTypeOK, HasReserves, Token, Other
<1> QED
  BY <1>1, AmountOutBounds DEF Quote

(* What a swap through the router does to the pool and to the ledgers.     *)
LEMMA SwapEffect ==
  ASSUME DexTypeOK, NEW u \in Users, NEW to \in Users, NEW t \in Token,
         NEW a \in Nat, NEW m, NEW d, CanSwap(u, t, a, m, d)
  PROVE  /\ SwappedReserve(t, a) \in [Token -> Nat]
         /\ SwappedReserve(t, a)[t] = reserve[t] + a
         /\ SwappedReserve(t, a)[Other(t)] = reserve[Other(t)] - Quote(t, a)
         /\ SwapLedger(u, t, a, Quote(t, a), to) \in Ledger
         /\ SwapLedger(u, t, a, Quote(t, a), to)[t][POOL] = balance[t][POOL] + a
         /\ SwapLedger(u, t, a, Quote(t, a), to)[Other(t)][POOL]
              = balance[Other(t)][POOL] - Quote(t, a)
<1> DEFINE q == Quote(t, a)
           b1 == Moved(balance, t, u, POOL, a)
<1>1. q \in Nat /\ q < reserve[Other(t)] /\ q <= balance[Other(t)][POOL] /\ a <= balance[t][u]
  BY QuoteBounds, OtherToken DEF CanSwap, DexTypeOK, Holders
<1>2. u \in Holders /\ to \in Holders /\ POOL \in Holders /\ u # POOL /\ to # POOL
  BY DexAssumption DEF Holders
<1>3. balance \in Ledger
  BY DEF DexTypeOK, Ledger
<1>4. /\ b1 \in Ledger
      /\ b1[t][POOL] = balance[t][POOL] + a
      /\ b1[Other(t)][POOL] = balance[Other(t)][POOL]
  BY <1>1, <1>2, <1>3, MovedLedger, OtherToken
<1>5. SwapLedger(u, t, a, q, to) = Moved(b1, Other(t), POOL, to, q)
  BY DEF SwapLedger
<1> HIDE DEF b1
<1>6. /\ SwapLedger(u, t, a, q, to) \in Ledger
      /\ SwapLedger(u, t, a, q, to)[t][POOL] = b1[t][POOL]
      /\ SwapLedger(u, t, a, q, to)[Other(t)][POOL] = b1[Other(t)][POOL] - q
  BY <1>1, <1>2, <1>4, <1>5, MovedLedger, OtherToken
<1>7. /\ SwappedReserve(t, a) \in [Token -> Nat]
      /\ SwappedReserve(t, a)[t] = reserve[t] + a
      /\ SwappedReserve(t, a)[Other(t)] = reserve[Other(t)] - q
  BY <1>1, OtherToken DEF SwappedReserve, DexTypeOK
<1> QED
  BY <1>4, <1>6, <1>7

(* What a direct call does to the pool, the ledgers and the books of       *)
(* direct callers.                                                         *)
LEMMA AtPoolEffect ==
  ASSUME DexTypeOK, NEW t \in Token, NEW a \in Nat, NEW m, NEW to \in Holders,
         SwapAtPool(t, a, m, to)
  PROVE  /\ HasReserves
         /\ reserve' \in [Token -> Nat]
         /\ reserve'[t] = reserve[t] + a
         /\ reserve'[Other(t)] = reserve[Other(t)] - Quote(t, a)
         /\ Quote(t, a) \in Nat
         /\ balance' \in Ledger
         /\ balance'[t][POOL] = balance[t][POOL]
         /\ balance'[Other(t)][POOL] >= balance[Other(t)][POOL] - Quote(t, a)
         /\ \A s \in Token, h \in Users : balance'[s][h] >= balance[s][h]
         /\ direct' \in [Token -> Nat]
         /\ direct'[t] = direct[t] + a
         /\ direct'[Other(t)] = direct[Other(t)]
<1> DEFINE q == Quote(t, a)
<1>1. HasReserves /\ q <= balance[Other(t)][POOL]
  BY DEF SwapAtPool
<1>2. q \in Nat /\ q < reserve[Other(t)]
  BY <1>1, QuoteBounds
<1>3. POOL \in Holders /\ Users \subseteq Holders /\ POOL \notin Users /\ balance \in Ledger
  BY DexAssumption DEF Holders, DexTypeOK, Ledger
<1>4. /\ balance' = Moved(balance, Other(t), POOL, to, q)
      /\ reserve' = SwappedReserve(t, a)
      /\ direct' = [direct EXCEPT ![t] = direct[t] + a]
  BY DEF SwapAtPool
<1>5. \A s \in Token, h \in Holders : balance[s][h] \in Nat
  BY <1>3 DEF Ledger
<1> HIDE DEF q
<1>6. /\ balance' \in Ledger
      /\ \A s \in Token, h \in Holders :
           balance'[s][h] =
             IF s # Other(t) \/ POOL = to THEN balance[s][h]
             ELSE IF h = POOL THEN balance[s][h] - q
             ELSE IF h = to THEN balance[s][h] + q
             ELSE balance[s][h]
  BY <1>1, <1>2, <1>3, <1>4, OtherToken, MovedLedger
<1>7. /\ balance'[t][POOL] = balance[t][POOL]
      /\ balance'[Other(t)][POOL] >= balance[Other(t)][POOL] - q
  BY <1>2, <1>3, <1>5, <1>6, OtherToken
<1>8. \A s \in Token, h \in Users : balance'[s][h] >= balance[s][h]
  BY <1>2, <1>3, <1>5, <1>6
<1>9. /\ direct' \in [Token -> Nat]
      /\ direct'[t] = direct[t] + a
      /\ direct'[Other(t)] = direct[Other(t)]
  BY <1>4, OtherToken DEF DexTypeOK
<1>10. /\ reserve' \in [Token -> Nat]
       /\ reserve'[t] = reserve[t] + a
       /\ reserve'[Other(t)] = reserve[Other(t)] - q
  <2>1. reserve \in [Token -> Nat] /\ q <= reserve[Other(t)]
    BY <1>2, OtherToken DEF DexTypeOK
  <2> QED
    BY <1>2, <1>4, <2>1, OtherToken DEF SwappedReserve, q
<1>11. balance' \in Ledger
  BY <1>6
<1>12. q \in Nat
  BY <1>2
<1> QED
  BY <1>1, <1>7, <1>8, <1>9, <1>10, <1>11, <1>12 DEF q

----------------------------------------------------------------------------
(* Invariants of the exchange.                                             *)

DexInv == DexTypeOK /\ PoolCovered

(* Each operation keeps the types, and the pool as covered as it was.      *)
LEMMA DexStep == DexInv /\ [DexNext]_dexVars => DexInv'
<1> SUFFICES ASSUME DexInv, [DexNext]_dexVars
             PROVE  DexInv'
  OBVIOUS
<1> USE DEF DexInv
<1>a. POOL \in Holders /\ Users \subseteq Holders /\ POOL \notin Users /\ Amounts \subseteq Nat
  BY DexAssumption DEF Holders
<1>b. balance \in Ledger /\ reserve \in [Token -> Nat] /\ clock \in Nat
  BY DEF DexTypeOK, Ledger
<1>c. direct \in [Token -> Nat] /\ \A s \in Token : direct[s] \in Nat
  BY DEF DexTypeOK
<1>1. ASSUME NEW u \in Users, NEW to \in Users, NEW t \in Token, NEW a \in Amounts,
             NEW m \in Amounts \cup {0}, NEW d \in Deadlines, Swap(u, t, a, m, to, d)
      PROVE  DexInv'
  <2>0. direct' = direct
    BY <1>1 DEF Swap
  <2>1. CanSwap(u, t, a, m, d) /\ a \in Nat
    BY <1>1, <1>a DEF Swap
  <2>2. /\ reserve' \in [Token -> Nat]
        /\ reserve'[t] = reserve[t] + a
        /\ reserve'[Other(t)] = reserve[Other(t)] - Quote(t, a)
        /\ balance' \in Ledger
        /\ balance'[t][POOL] = balance[t][POOL] + a
        /\ balance'[Other(t)][POOL] = balance[Other(t)][POOL] - Quote(t, a)
    BY <1>1, <2>1, SwapEffect DEF Swap
  <2>3. Quote(t, a) \in Nat
    BY <2>1, QuoteBounds DEF CanSwap
  <2>4. DexTypeOK'
    BY <1>1, <1>b, <1>c, <2>0, <2>2 DEF DexTypeOK, Ledger, Swap
  <2>5. /\ balance'[t][POOL] + direct'[t] >= reserve'[t]
        /\ balance'[Other(t)][POOL] + direct'[Other(t)] >= reserve'[Other(t)]
    BY <1>a, <1>b, <1>c, <2>0, <2>1, <2>2, <2>3, OtherToken DEF PoolCovered, Ledger
  <2> QED
    BY <2>4, <2>5, OtherToken DEF PoolCovered
<1>8. ASSUME NEW to \in Holders, NEW t \in Token, NEW a \in Amounts,
             NEW m \in Amounts \cup {0}, SwapAtPool(t, a, m, to)
      PROVE  DexInv'
  <2>1. a \in Nat /\ clock' = clock
    BY <1>8, <1>a DEF SwapAtPool
  <2>2. /\ reserve' \in [Token -> Nat]
        /\ reserve'[t] = reserve[t] + a
        /\ reserve'[Other(t)] = reserve[Other(t)] - Quote(t, a)
        /\ Quote(t, a) \in Nat
        /\ balance' \in Ledger
        /\ balance'[t][POOL] = balance[t][POOL]
        /\ balance'[Other(t)][POOL] >= balance[Other(t)][POOL] - Quote(t, a)
        /\ direct' \in [Token -> Nat]
        /\ direct'[t] = direct[t] + a
        /\ direct'[Other(t)] = direct[Other(t)]
    BY <1>8, <2>1, AtPoolEffect
  <2>3. DexTypeOK'
    BY <1>b, <2>1, <2>2 DEF DexTypeOK, Ledger
  <2>4. /\ balance[t][POOL] \in Nat /\ balance[Other(t)][POOL] \in Nat
        /\ balance'[Other(t)][POOL] \in Nat
        /\ reserve[t] \in Nat /\ reserve[Other(t)] \in Nat
        /\ balance[t][POOL] + direct[t] >= reserve[t]
        /\ balance[Other(t)][POOL] + direct[Other(t)] >= reserve[Other(t)]
    BY <1>a, <1>b, <2>2, OtherToken DEF PoolCovered, Ledger
  <2>5. /\ balance'[t][POOL] + direct'[t] >= reserve'[t]
        /\ balance'[Other(t)][POOL] + direct'[Other(t)] >= reserve'[Other(t)]
    BY <1>c, <2>1, <2>2, <2>4, OtherToken
  <2> QED
    BY <2>3, <2>5, OtherToken DEF PoolCovered
<1>2. ASSUME NEW u \in Users, NEW a0 \in Amounts, NEW a1 \in Amounts, AddLiquidity(u, a0, a1)
      PROVE  DexInv'
  <2> DEFINE b1 == Moved(balance, "token0", u, POOL, a0)
  <2>0. "token0" \in Token /\ "token1" \in Token /\ "token0" # "token1" /\ u \in Holders /\ u # POOL
        /\ a0 \in Nat /\ a1 \in Nat
    BY <1>a DEF Token
  <2>1. /\ b1 \in Ledger
        /\ b1["token0"][POOL] = balance["token0"][POOL] + a0
        /\ b1["token1"] \in [Holders -> Nat]
        /\ b1["token1"][POOL] = balance["token1"][POOL]
        /\ b1["token1"][u] = balance["token1"][u]
    BY <1>2, <1>a, <1>b, <2>0, MovedLedger DEF AddLiquidity, Ledger
  <2>2. balance' = Moved(b1, "token1", u, POOL, a1) /\ b1["token1"][u] >= a1
    BY <1>2, <2>1 DEF AddLiquidity
  <2> HIDE DEF b1
  <2>3. /\ balance' \in Ledger
        /\ balance'["token0"][POOL] = b1["token0"][POOL]
        /\ balance'["token1"][POOL] = b1["token1"][POOL] + a1
    BY <2>0, <2>1, <2>2, <1>a, MovedLedger
  <2>4. reserve' \in [Token -> Nat]
        /\ reserve'["token0"] = reserve["token0"] + a0
        /\ reserve'["token1"] = reserve["token1"] + a1
    BY <1>2, <1>b, <2>0 DEF AddLiquidity
  <2>5. balance["token0"][POOL] \in Nat /\ balance["token1"][POOL] \in Nat
        /\ reserve["token0"] \in Nat /\ reserve["token1"] \in Nat
    BY <1>a, <1>b, <2>0 DEF Ledger
  <2>6. clock' \in Nat /\ direct' = direct
    BY <1>2, <1>b DEF AddLiquidity
  <2>7. /\ direct["token0"] \in Nat /\ direct["token1"] \in Nat
    BY <1>c, <2>0
  <2> QED
    BY <1>c, <2>0, <2>1, <2>3, <2>4, <2>5, <2>6, <2>7 DEF PoolCovered, DexTypeOK, Ledger, Token
<1>3. ASSUME NEW u \in Users, NEW to \in Holders, NEW t \in Token, NEW amt \in Amounts,
             Transfer(u, t, to, amt)
      PROVE  DexInv'
  <2>1. u \in Holders /\ u # POOL /\ amt \in Nat /\ balance[t][u] >= amt
    BY <1>3, <1>a DEF Transfer
  <2>2. balance' = Moved(balance, t, u, to, amt) /\ UNCHANGED <<reserve, clock, direct>>
    BY <1>3 DEF Transfer
  <2>3. balance' \in Ledger /\ \A s \in Token : balance'[s][POOL] >= balance[s][POOL]
    <3>1. \A s \in Token : balance[s][POOL] \in Nat
      BY <1>a, <1>b DEF Ledger
    <3> QED
      BY <1>a, <1>b, <2>1, <2>2, <3>1, MovedLedger
  <2>4. \A s \in Token : balance[s][POOL] \in Nat /\ balance'[s][POOL] \in Nat /\ reserve[s] \in Nat
    BY <1>a, <1>b, <2>3 DEF Ledger
  <2> QED
    BY <1>b, <1>c, <2>2, <2>3, <2>4 DEF PoolCovered, DexTypeOK, Ledger
<1>6. ASSUME NEW to \in Holders, NEW t \in Token, NEW amt \in Amounts,
             balance' = Issued(t, to, amt), UNCHANGED <<clock, reserve, direct>>
      PROVE  DexInv'
  <2>1. balance' \in Ledger /\ \A s \in Token : balance'[s][POOL] >= balance[s][POOL]
    <3>1. \A s \in Token : balance[s] \in [Holders -> Nat] /\ balance[s][POOL] \in Nat
          /\ balance[s][to] \in Nat
      BY <1>a, <1>b DEF Ledger
    <3>2. balance' = [balance EXCEPT ![t] = [balance[t] EXCEPT ![to] = balance[t][to] + amt]]
      BY <1>6, <1>b DEF Issued, Ledger
    <3>3. amt \in Nat
      BY <1>a
    <3>4. [balance[t] EXCEPT ![to] = balance[t][to] + amt] \in [Holders -> Nat]
      BY <3>1, <3>3
    <3>5. [balance[t] EXCEPT ![to] = balance[t][to] + amt][POOL] >= balance[t][POOL]
      BY <1>a, <3>1, <3>3
    <3> QED
      BY <1>b, <3>1, <3>2, <3>4, <3>5 DEF Ledger
  <2>2. UNCHANGED <<reserve, clock, direct>>
    BY <1>6
  <2>3. \A s \in Token : balance[s][POOL] \in Nat /\ balance'[s][POOL] \in Nat /\ reserve[s] \in Nat
    BY <1>a, <1>b, <2>1 DEF Ledger
  <2> QED
    BY <1>b, <1>c, <2>1, <2>2, <2>3 DEF PoolCovered, DexTypeOK, Ledger
<1>7. ASSUME NEW u \in Users, NEW amt \in Amounts, Unwrap(u, amt)
      PROVE  DexInv'
  <2>0. u \in Holders /\ u # POOL /\ amt \in Nat /\ "token1" \in Token
    BY <1>a DEF Token
  <2>1. balance["token1"] \in [Holders -> Nat] /\ balance["token1"][u] \in Nat
    BY <1>b, <2>0 DEF Ledger
  <2>2. balance' = [balance EXCEPT !["token1"] = [balance["token1"] EXCEPT ![u] = balance["token1"][u] - amt]]
        /\ balance["token1"][u] >= amt /\ UNCHANGED <<reserve, clock, direct>>
    BY <1>7, <1>b DEF Unwrap, Ledger
  <2>3. [balance["token1"] EXCEPT ![u] = balance["token1"][u] - amt] \in [Holders -> Nat]
    BY <2>0, <2>1, <2>2
  <2>4. balance' \in Ledger /\ \A s \in Token : balance'[s][POOL] = balance[s][POOL]
    BY <1>a, <1>b, <2>0, <2>1, <2>2, <2>3 DEF Ledger
  <2> QED
    BY <1>b, <1>c, <2>2, <2>4 DEF PoolCovered, DexTypeOK, Ledger
<1>4. CASE Tick
  BY <1>4 DEF Tick, PoolCovered, DexTypeOK
<1>5. CASE UNCHANGED dexVars
  BY <1>5 DEF dexVars, PoolCovered, DexTypeOK
<1> QED
  BY <1>1, <1>2, <1>3, <1>4, <1>5, <1>6, <1>7, <1>8, <1>a DEF DexNext, Mint, Wrap, Token

(* In every run of the exchange the state is well typed, and the pool is   *)
(* short of what it books as reserve by no more than its direct callers    *)
(* have booked: with none of them it can pay all that its reserves promise.*)
THEOREM DexSafe == DexSpec => [](DexTypeOK /\ PoolCovered)
<1>1. DexInit => DexInv
  <2> SUFFICES ASSUME DexInit PROVE DexInv
    OBVIOUS
  <2>1. \A t \in Token : balance[t][POOL] = 0 /\ reserve[t] = 0 /\ direct[t] = 0
    BY DEF DexInit
  <2>2. DexTypeOK
    BY DEF DexInit, DexTypeOK
  <2> QED
    BY <2>1, <2>2 DEF DexInv, PoolCovered
<1> QED
  BY <1>1, DexStep, PTL DEF DexSpec, DexInv

(* Every step of the exchange keeps or grows the product of the reserves,  *)
(* and keeps both of them positive once they are.                          *)
LEMMA ProductStep ==
  ASSUME DexTypeOK, [DexNext]_dexVars
  PROVE  /\ reserve'["token0"] * reserve'["token1"] >= reserve["token0"] * reserve["token1"]
         /\ HasReserves => HasReserves'
<1> DEFINE x == reserve["token0"]
           y == reserve["token1"]
<1>0. x \in Nat /\ y \in Nat /\ "token0" \in Token /\ "token1" \in Token
      /\ Amounts \subseteq Nat /\ reserve \in [Token -> Nat]
  BY DexAssumption DEF DexTypeOK, Token
<1>1. ASSUME NEW u \in Users, NEW to \in Users, NEW t \in Token, NEW a \in Amounts,
             NEW m \in Amounts \cup {0}, NEW d \in Deadlines, Swap(u, t, a, m, to, d)
      PROVE  /\ reserve'["token0"] * reserve'["token1"] >= x * y
             /\ HasReserves => HasReserves'
  <2>1. CanSwap(u, t, a, m, d) /\ HasReserves /\ a \in Nat
    BY <1>0, <1>1 DEF Swap, CanSwap
  <2>2. /\ reserve'[t] = reserve[t] + a
        /\ reserve'[Other(t)] = reserve[Other(t)] - Quote(t, a)
    BY <1>1, <2>1, SwapEffect DEF Swap
  <2>3. /\ Quote(t, a) \in Nat
        /\ Quote(t, a) < reserve[Other(t)]
        /\ reserve[t] * reserve[Other(t)]
             <= (reserve[t] + a) * (reserve[Other(t)] - Quote(t, a))
    BY <2>1, QuoteBounds
  <2>4. reserve[t] * reserve[Other(t)] <= reserve'[t] * reserve'[Other(t)]
    BY <2>2, <2>3
  <2>5. reserve'[t] # 0 /\ reserve'[Other(t)] # 0
    <3>1. reserve[t] \in Nat \ {0} /\ reserve[Other(t)] \in Nat
      BY <1>0, <2>1, OtherToken DEF HasReserves, Token
    <3> QED
      BY <3>1, <2>1, <2>2, <2>3
  <2>6. CASE t = "token0"
    <3>1. Other(t) = "token1"
      BY <2>6 DEF Other
    <3>2. reserve'["token0"] * reserve'["token1"] >= x * y
      BY <2>4, <2>6, <3>1
    <3> QED
      BY <2>5, <2>6, <3>1, <3>2 DEF HasReserves
  <2>7. CASE t = "token1"
    <3>1. Other(t) = "token0"
      BY <2>7 DEF Other
    <3>2. y * x <= reserve'["token1"] * reserve'["token0"]
      BY <2>4, <2>7, <3>1
    <3>3. reserve'["token0"] \in Int /\ reserve'["token1"] \in Int
      BY <1>0, <2>1, <2>2, <2>3, <2>7, <3>1
    <3>4. reserve'["token0"] * reserve'["token1"] >= x * y
      BY <1>0, <3>2, <3>3
    <3> QED
      BY <2>5, <2>7, <3>1, <3>4 DEF HasReserves
  <2> QED
    BY <2>6, <2>7 DEF Token
<1>2. ASSUME NEW u \in Users, NEW a0 \in Amounts, NEW a1 \in Amounts, AddLiquidity(u, a0, a1)
      PROVE  /\ reserve'["token0"] * reserve'["token1"] >= x * y
             /\ HasReserves => HasReserves'
  <2>1. /\ reserve'["token0"] = x + a0
        /\ reserve'["token1"] = y + a1
        /\ a0 \in Nat /\ a1 \in Nat
    BY <1>0, <1>2 DEF AddLiquidity, Token
  <2>2. x * y <= (x + a0) * y /\ y * (x + a0) <= (y + a1) * (x + a0)
    BY <1>0, <2>1, MulMono
  <2>3. (x + a0) * y = y * (x + a0) /\ (y + a1) * (x + a0) = (x + a0) * (y + a1)
        /\ x * y \in Nat /\ y * (x + a0) \in Nat /\ (x + a0) * (y + a1) \in Nat
    BY <1>0, <2>1
  <2>4. reserve'["token0"] * reserve'["token1"] >= x * y
    BY <2>1, <2>2, <2>3
  <2> QED
    BY <1>0, <2>1, <2>4 DEF HasReserves
<1>4. ASSUME NEW to \in Holders, NEW t \in Token, NEW a \in Amounts,
             NEW m \in Amounts \cup {0}, SwapAtPool(t, a, m, to)
      PROVE  /\ reserve'["token0"] * reserve'["token1"] >= x * y
             /\ HasReserves => HasReserves'
  <2>1. a \in Nat /\ a # 0
    BY <1>0, <1>4 DEF SwapAtPool
  <2>2. /\ HasReserves
        /\ reserve' \in [Token -> Nat]
        /\ reserve'[t] = reserve[t] + a
        /\ reserve'[Other(t)] = reserve[Other(t)] - Quote(t, a)
    BY <1>4, <2>1, AtPoolEffect
  <2>3. /\ Quote(t, a) \in Nat
        /\ Quote(t, a) < reserve[Other(t)]
        /\ reserve[t] * reserve[Other(t)] <= reserve'[t] * reserve'[Other(t)]
    BY <2>1, <2>2, QuoteBounds
  <2>4. reserve[t] \in Nat /\ reserve[Other(t)] \in Nat
    BY <1>0, OtherToken
  <2>5. reserve'[t] # 0 /\ reserve'[Other(t)] # 0
    BY <2>1, <2>2, <2>3, <2>4
  <2>6. (t = "token0" /\ Other(t) = "token1") \/ (t = "token1" /\ Other(t) = "token0")
    <3>1. CASE t = "token0"
      BY <3>1 DEF Other
    <3>2. CASE t = "token1"
      BY <3>2 DEF Other
    <3> QED
      BY <3>1, <3>2 DEF Token
  <2>7. reserve'["token0"] \in Nat /\ reserve'["token1"] \in Nat
    BY <1>0, <2>2
  <2>8. reserve'["token0"] * reserve'["token1"] >= x * y
    <3>1. CASE t = "token0" /\ Other(t) = "token1"
      BY <2>3, <3>1
    <3>2. CASE t = "token1" /\ Other(t) = "token0"
      <4>1. y * x <= reserve'["token1"] * reserve'["token0"]
        BY <2>3, <3>2
      <4> QED
        BY <1>0, <2>7, <4>1
    <3> QED
      BY <2>6, <3>1, <3>2
  <2> QED
    BY <2>5, <2>6, <2>8 DEF HasReserves
<1>3. ASSUME reserve' = reserve
      PROVE  /\ reserve'["token0"] * reserve'["token1"] >= x * y
             /\ HasReserves => HasReserves'
  <2>1. x * y \in Nat
    BY <1>0
  <2> QED
    BY <1>3, <2>1 DEF HasReserves
<1> HIDE DEF x, y
<1> QED
  BY <1>1, <1>2, <1>3, <1>4 DEF DexNext, Transfer, Mint, Wrap, Unwrap, Tick, dexVars, x, y

(* No transaction ever shrinks the product of the reserves the pool books. *)
THEOREM ProductSafe == DexSpec => ProductNeverShrinks
<1>1. DexTypeOK /\ [DexNext]_dexVars
      => [reserve'["token0"] * reserve'["token1"] >= reserve["token0"] * reserve["token1"]]_dexVars
  BY ProductStep
<1> QED
  BY <1>1, DexSafe, PTL DEF DexSpec, ProductNeverShrinks

(* No transaction ever empties a side of a pool that has liquidity.        *)
THEOREM ReservesSafe == DexSpec => ReservesStayPositive
<1>1. DexTypeOK /\ [DexNext]_dexVars => [HasReserves => HasReserves']_dexVars
  BY ProductStep
<1> QED
  BY <1>1, DexSafe, PTL DEF DexSpec, ReservesStayPositive

----------------------------------------------------------------------------
(* Types of the actions.                                                   *)

(* The operation that the running loop is at.                              *)
LEMMA OpType ==
  ASSUME TypeOK, phase # "idle"
  PROVE  /\ Len(bundle) \in Nat
         /\ next \in 1 .. Len(bundle)
         /\ \A k \in 1 .. Len(bundle) : bundle[k] \in UserOp
         /\ Op \in UserOp
         /\ saved \in Snapshots
<1>1. bundle \in Seq(UserOps) /\ next \in 1 .. Len(bundle) + 1 /\ next <= Len(bundle)
      /\ saved \in Snapshots
  BY DEF TypeOK
<1>2. Len(bundle) \in Nat
  BY <1>1
<1>3. next \in 1 .. Len(bundle)
  BY <1>1, <1>2
<1>4. \A k \in 1 .. Len(bundle) : bundle[k] \in UserOps
  BY <1>1
<1> QED
  BY <1>1, <1>2, <1>3, <1>4, EntryPointAssumption DEF Op

(* Moving the loop on keeps the types of the variables it controls.        *)
LEMMA AdvanceType ==
  ASSUME TypeOK, phase # "idle", Advance
  PROVE  /\ phase' \in Phase
         /\ bundle' \in Seq(UserOps)
         /\ next' \in 1 .. Len(bundle') + 1
         /\ phase' # "idle" => saved' \in Snapshots /\ next' <= Len(bundle')
<1>1. Len(bundle) \in Nat /\ next \in 1 .. Len(bundle) /\ saved \in Snapshots
      /\ bundle \in Seq(UserOps) /\ phase \in Phase
  BY OpType DEF TypeOK
<1>2. CASE next < Len(bundle) /\ next' = next + 1 /\ UNCHANGED <<phase, bundle, saved>>
  BY <1>1, <1>2
<1>3. CASE next = Len(bundle) /\ phase' = "execution" /\ next' = 1 /\ UNCHANGED <<bundle, saved>>
  BY <1>1, <1>3 DEF Phase
<1>4. CASE Idle
  <2>1. <<>> \in Seq(UserOps) /\ Len(<<>>) = 0
    OBVIOUS
  <2> QED
    BY <1>4, <2>1 DEF Idle, Phase
<1> QED
  BY <1>2, <1>3, <1>4 DEF Advance

LEMMA IdleType ==
  ASSUME Idle
  PROVE  /\ phase' = "idle"
         /\ bundle' \in Seq(UserOps)
         /\ next' \in 1 .. Len(bundle') + 1
<1>1. <<>> \in Seq(UserOps) /\ Len(<<>>) = 0
  OBVIOUS
<1> QED
  BY <1>1 DEF Idle

(* A reverted handleOps puts back exactly the chain state it began with.   *)
LEMMA RollbackRestores ==
  ASSUME saved \in Snapshots, Rollback
  PROVE  Snapshot' = saved
  BY DEF Rollback, Snapshot, Snapshots

(* The ledgers and the pool after a batch that goes through.               *)
LEMMA BatchEffect ==
  ASSUME DexTypeOK, NEW op \in UserOp, BatchRuns(op),
         NEW t, t = op.pair[1],
         NEW l, l = SwapLedger(op.sender, t, op.amountIn, Quote(t, op.amountIn), op.to)
  PROVE  /\ t \in Token
         /\ SwappedReserve(t, op.amountIn) \in [Token -> Nat]
         /\ SwappedReserve(t, op.amountIn)[t] = reserve[t] + op.amountIn
         /\ SwappedReserve(t, op.amountIn)[Other(t)] = reserve[Other(t)] - Quote(t, op.amountIn)
         /\ Quote(t, op.amountIn) \in Nat
         /\ l \in Ledger
         /\ l[t][POOL] = balance[t][POOL] + op.amountIn
         /\ l[Other(t)][POOL] = balance[Other(t)][POOL] - Quote(t, op.amountIn)
         /\ Moved(l, "token1", op.sender, op.feeTo, op.fee) \in Ledger
<1>1. /\ op.sender \in Users /\ op.to \in Users /\ op.feeTo \in Users /\ op.amountIn \in Nat
      /\ op.fee \in Nat /\ t \in Token
  BY PaymasterAssumption DEF UserOp
<1>2. CanSwap(op.sender, t, op.amountIn, op.minOut, op.deadline)
  BY DEF BatchRuns
<1>3. HasReserves
  BY <1>2 DEF CanSwap
<1>4. /\ SwappedReserve(t, op.amountIn) \in [Token -> Nat]
      /\ SwappedReserve(t, op.amountIn)[t] = reserve[t] + op.amountIn
      /\ SwappedReserve(t, op.amountIn)[Other(t)] = reserve[Other(t)] - Quote(t, op.amountIn)
      /\ l \in Ledger
      /\ l[t][POOL] = balance[t][POOL] + op.amountIn
      /\ l[Other(t)][POOL] = balance[Other(t)][POOL] - Quote(t, op.amountIn)
  BY <1>1, <1>2, SwapEffect
<1>5. Quote(t, op.amountIn) \in Nat
  BY <1>1, <1>3, QuoteBounds
<1>6. l["token1"][op.sender] >= op.fee
  BY DEF BatchRuns
<1>7. "token1" \in Token /\ op.sender \in Holders /\ op.feeTo \in Holders
  BY <1>1 DEF Token, Holders
<1>8. Moved(l, "token1", op.sender, op.feeTo, op.fee) \in Ledger
  BY <1>1, <1>4, <1>6, <1>7, MovedLedger
<1> QED
  BY <1>1, <1>4, <1>5, <1>8

----------------------------------------------------------------------------
(* Type correctness.                                                       *)

(* A transaction of a trader, seen from the exchange module.               *)
LEMMA ExchangeType ==
  ASSUME DexInv, ExchangeStep
  PROVE  DexInv'
<1>1. Traders \subseteq Users
  BY EntryPointAssumption
<1>2. ExchangeStep => DexNext
  BY <1>1 DEF ExchangeStep, DexNext
<1> QED
  BY <1>2, DexStep

LEMMA PolicyType ==
  ASSUME PaymasterTypeOK, NEW op \in UserOp, clock \in Nat,
         NEW succeeded \in BOOLEAN, NEW reported \in Nat
  PROVE  /\ PostOpStats(succeeded, op, reported) \in Stats
         /\ PostOpTs(op) \in [Accounts -> Nat]
<1>1. op.sender \in Accounts /\ op.fee \in Nat
  BY DEF UserOp
<1>2. clock % TsMod \in Nat
  BY PaymasterAssumption
<1>3. PostOpTs(op) \in [Accounts -> Nat]
  BY <1>1, <1>2 DEF PostOpTs, PaymasterTypeOK
<1>4. stats \in Stats
  BY DEF PaymasterTypeOK
<1>5. PostOpStats(succeeded, op, reported) \in Stats
  BY <1>1, <1>4 DEF PostOpStats, Stats
<1> QED
  BY <1>3, <1>5

(* What Charge does to the deposit and to the history variables.           *)
LEMMA ChargeType ==
  ASSUME TypeOK, NEW op \in UserOp, NEW cost \in 0 .. op.maxCost, NEW ok \in BOOLEAN,
         Charge(op, cost, ok)
  PROVE  /\ deposit' \in Nat /\ deposit' >= deposit
         /\ gas' \in Gas
         /\ gas'.charged = gas.charged + cost
         /\ gas'.forSucceeded = IF ok THEN gas.forSucceeded + cost ELSE gas.forSucceeded
         /\ served' = served \cup {Key(op)}
         /\ Key(op) \in Accounts \X Nat
         /\ served' \in SUBSET (Accounts \X Nat)
<1>1. op.maxCost \in Nat /\ op.sender \in Accounts /\ op.nonce \in Nat /\ cost \in Nat /\ cost <= op.maxCost
  BY DEF UserOp
<1>2. deposit \in Nat /\ gas.charged \in Nat /\ gas.forSucceeded \in Nat
      /\ served \in SUBSET (Accounts \X Nat)
  BY DEF TypeOK, Gas
<1>3. Key(op) \in Accounts \X Nat
  BY <1>1 DEF Key
<1> QED
  BY <1>1, <1>2, <1>3 DEF Charge, Gas

(* The types after the exchange and the paymaster changed as in an         *)
(* executed operation.                                                     *)
LEMMA TypeStep == TypeOK /\ PoolCovered /\ [Next]_vars => TypeOK'
<1> SUFFICES ASSUME TypeOK, PoolCovered, [Next]_vars PROVE TypeOK'
  OBVIOUS
<1>0. DexInv /\ DexTypeOK /\ PaymasterTypeOK
  BY DEF TypeOK, DexInv
<1>1. ASSUME NEW n \in 1 .. MaxBundle, NEW ops \in [1 .. n -> UserOps], BeginBundle(ops)
      PROVE  TypeOK'
  <2>1. n \in Nat \ {0}
    BY EntryPointAssumption
  <2>2. ops \in Seq(UserOps) /\ Len(ops) = n
    BY <2>1
  <2>3. Snapshot \in Snapshots
    BY DEF Snapshot, Snapshots, TypeOK, DexTypeOK, PaymasterTypeOK
  <2> QED
    BY <1>1, <2>1, <2>2, <2>3
    DEF BeginBundle, TypeOK, DexTypeOK, PaymasterTypeOK, dexVars, paymasterVars, Phase
<1>2. CASE ValidateOp
  <2>1. phase # "idle" /\ Acceptable(Op) /\ Advance
    BY <1>2 DEF ValidateOp
  <2>2. Op \in UserOp
    BY <2>1, OpType
  <2>3. Op.maxCost \in Nat /\ Op.sender \in Accounts /\ deposit >= Op.maxCost
    BY <2>1, <2>2 DEF UserOp, Acceptable
  <2>4. /\ deposit' \in Nat
        /\ nonce' \in [Accounts -> Nat]
        /\ deployed' \in [Accounts -> BOOLEAN]
    BY <1>2, <2>3 DEF ValidateOp, TypeOK
  <2> QED
    BY <1>2, <2>1, <2>4, AdvanceType
    DEF ValidateOp, TypeOK, DexTypeOK, PaymasterTypeOK, dexVars, paymasterVars
<1>3. ASSUME phase # "idle", Rollback
      PROVE  TypeOK'
  <2>1. saved \in Snapshots
    BY <1>3, OpType
  <2>2. Idle
    BY <1>3 DEF Rollback
  <2> QED
    BY <1>3, <2>1, <2>2, IdleType
    DEF Rollback, Snapshots, TypeOK, DexTypeOK, PaymasterTypeOK, Phase
<1>4. CASE ExecuteOp
  <2>1. phase # "idle"
    BY <1>4 DEF ExecuteOp
  <2>2. Op \in UserOp
    BY <2>1, OpType
  <2>3. Op.maxCost \in Nat
    BY <2>2 DEF UserOp
  <2>4. ASSUME NEW cost \in 0 .. Op.maxCost, NEW reported \in 0 .. cost, OpSucceeded(cost, reported)
        PROVE  TypeOK'
    <3>1. BatchRuns(Op) /\ Charge(Op, cost, TRUE) /\ Advance
      BY <2>4 DEF OpSucceeded
    <3>5. reported \in Nat
      BY <2>3
    <3>2. reserve' \in [Token -> Nat] /\ balance' \in Ledger
      BY <1>0, <2>2, <2>4, <3>1, BatchEffect DEF OpSucceeded
    <3>3. stats' \in Stats /\ lastPostOpTs' \in [Accounts -> Nat]
      BY <1>0, <2>2, <2>4, <3>5, PolicyType DEF OpSucceeded, DexTypeOK
    <3>4. DexTypeOK' /\ PaymasterTypeOK'
      BY <1>0, <2>4, <3>2, <3>3 DEF OpSucceeded, DexTypeOK, PaymasterTypeOK, Ledger
    <3> QED
      BY <2>1, <2>2, <2>4, <3>1, <3>4, AdvanceType, ChargeType DEF OpSucceeded, TypeOK
  <2>5. ASSUME NEW cost \in 0 .. Op.maxCost, NEW reported \in 0 .. cost, OpReverted(cost, reported)
        PROVE  TypeOK'
    <3>1. Charge(Op, cost, FALSE) /\ Advance
      BY <2>5 DEF OpReverted
    <3>5. reported \in Nat
      BY <2>3
    <3>2. stats' \in Stats /\ lastPostOpTs' \in [Accounts -> Nat]
      BY <1>0, <2>2, <2>5, <3>5, PolicyType DEF OpReverted, DexTypeOK
    <3>3. DexTypeOK' /\ PaymasterTypeOK'
      BY <1>0, <2>5, <3>2 DEF OpReverted, DexTypeOK, PaymasterTypeOK, dexVars
    <3> QED
      BY <2>1, <2>2, <2>5, <3>1, <3>3, AdvanceType, ChargeType DEF OpReverted, TypeOK
  <2>6. ASSUME NEW cost \in 0 .. Op.maxCost, PostOpReverted(cost)
        PROVE  TypeOK'
    <3>1. Charge(Op, cost, FALSE) /\ Advance
      BY <2>6 DEF PostOpReverted
    <3>2. DexTypeOK' /\ PaymasterTypeOK'
      BY <1>0, <2>6 DEF PostOpReverted, DexTypeOK, PaymasterTypeOK, dexVars, paymasterVars
    <3> QED
      BY <2>1, <2>2, <2>6, <3>1, <3>2, AdvanceType, ChargeType DEF PostOpReverted, TypeOK
  <2> QED
    BY <1>4, <2>4, <2>5, <2>6 DEF ExecuteOp
<1>5. ASSUME NEW v \in Values, Deposit(v) \/ WithdrawTo(v)
      PROVE  TypeOK'
  <2>1. v \in Nat
    BY EntryPointAssumption
  <2>2. deposit \in Nat /\ funded \in Int
    BY DEF TypeOK
  <2>3. deposit' \in Nat /\ funded' \in Int
    BY <1>5, <2>1, <2>2 DEF Deposit, WithdrawTo
  <2>4. UNCHANGED <<dexVars, paymasterVars, nonce, deployed, phase, bundle, next, saved, gas, served>>
    BY <1>5 DEF Deposit, WithdrawTo, EntryPointIdle
  <2> QED
    BY <2>3, <2>4 DEF TypeOK, DexTypeOK, PaymasterTypeOK, dexVars, paymasterVars
<1>6. ASSUME NEW p \in Policies, OwnerSetPolicy(p)
      PROVE  TypeOK'
  <2>1. p \in Policy
    BY PaymasterAssumption
  <2> QED
    BY <1>6, <2>1 DEF OwnerSetPolicy, SetPolicy, EntryPointIdle, TypeOK, DexTypeOK,
                      PaymasterTypeOK, dexVars
<1>7. ASSUME NEW p \in Prices, OwnerSetPrice(p)
      PROVE  TypeOK'
  <2>1. p \in Nat
    BY PaymasterAssumption
  <2> QED
    BY <1>7, <2>1 DEF OwnerSetPrice, SetPrice, EntryPointIdle, TypeOK, DexTypeOK,
                      PaymasterTypeOK, dexVars
<1>8. CASE ExchangeStep
  <2>1. DexTypeOK'
    BY <1>0, <1>8, ExchangeType DEF DexInv
  <2> QED
    BY <1>8, <2>1 DEF ExchangeStep, EntryPointIdle, TypeOK, PaymasterTypeOK, paymasterVars
<1>9. CASE UNCHANGED vars
  BY <1>9 DEF vars, TypeOK, DexTypeOK, PaymasterTypeOK, dexVars, paymasterVars
<1> QED
  BY <1>1, <1>2, <1>3, <1>4, <1>5, <1>6, <1>7, <1>8, <1>9 DEF Next, RejectBundle, AbortBundle

----------------------------------------------------------------------------
(* Facts about single steps.                                               *)

(* A transfer by another holder never takes from h.                        *)
LEMMA NotTaken ==
  ASSUME NEW b \in Ledger, NEW t \in Token, NEW from \in Holders, NEW to \in Holders,
         NEW amt \in Nat, b[t][from] >= amt, NEW s \in Token, NEW h \in Holders, h # from
  PROVE  /\ Moved(b, t, from, to, amt) \in Ledger
         /\ Moved(b, t, from, to, amt)[s][h] >= b[s][h]
         /\ h # to => Moved(b, t, from, to, amt)[s][h] = b[s][h]
<1>1. b[s][h] \in Nat
  BY DEF Ledger
<1> QED
  BY <1>1, MovedLedger

(* A swap moves tokens of the caller, the pool and the recipient only.     *)
LEMMA SwapElsewhere ==
  ASSUME DexTypeOK, NEW u \in Users, NEW to \in Users, NEW t \in Token,
         NEW a \in Nat, NEW m, NEW d, CanSwap(u, t, a, m, d),
         NEW s \in Token, NEW h \in Users, h # u
  PROVE  /\ SwapLedger(u, t, a, Quote(t, a), to)[s][h] >= balance[s][h]
         /\ h # to => SwapLedger(u, t, a, Quote(t, a), to)[s][h] = balance[s][h]
<1> DEFINE q == Quote(t, a)
           b1 == Moved(balance, t, u, POOL, a)
<1>1. q \in Nat /\ q <= balance[Other(t)][POOL] /\ a <= balance[t][u]
  BY QuoteBounds DEF CanSwap
<1>2. u \in Holders /\ to \in Holders /\ POOL \in Holders /\ u # POOL /\ h \in Holders /\ h # POOL
      /\ Other(t) \in Token /\ Other(t) # t
  BY DexAssumption, OtherToken DEF Holders
<1>3. balance \in Ledger
  BY DEF DexTypeOK, Ledger
<1>4. b1 \in Ledger /\ b1[s][h] = balance[s][h]
  BY <1>1, <1>2, <1>3, NotTaken
<1>5. b1[Other(t)][POOL] = balance[Other(t)][POOL]
  BY <1>1, <1>2, <1>3, MovedLedger
<1>6. SwapLedger(u, t, a, q, to) = Moved(b1, Other(t), POOL, to, q)
  BY DEF SwapLedger
<1> HIDE DEF b1, q
<1>7. /\ SwapLedger(u, t, a, q, to)[s][h] >= b1[s][h]
      /\ h # to => SwapLedger(u, t, a, q, to)[s][h] = b1[s][h]
  BY <1>1, <1>2, <1>4, <1>5, <1>6, NotTaken
<1> QED
  BY <1>4, <1>7 DEF q

(* The gas buffer and the markup only ever raise the required fee.         *)
LEMMA FeeCoversPrefund ==
  ASSUME PaymasterTypeOK, NEW c \in Nat
  PROVE  RequiredFee(c) \in Nat /\ RequiredFee(c) >= c
<1> DEFINE b == policy.gasBufferBps
           n == c * (Bps + b)
<1>1. b \in Nat /\ policy.fixedMarkupWei \in Nat
  BY DEF PaymasterTypeOK, Policy
<1> HIDE DEF b
<1>2. c * b \in Nat /\ c * Bps \in Nat /\ Bps \in Nat \ {0}
  BY <1>1 DEF Bps
<1>3. n = c * Bps + c * b
  BY <1>1 DEF Bps
<1>4. n \in Nat /\ n >= c * Bps
  BY <1>2, <1>3
<1> HIDE DEF n
<1>5. n \div Bps \in Nat /\ n < (n \div Bps) * Bps + Bps
  BY <1>2, <1>4, DivBounds
<1>6. n \div Bps >= c
  BY <1>4, <1>5 DEF Bps
<1>7. RequiredFee(c) = (n \div Bps) + policy.fixedMarkupWei
  BY DEF RequiredFee, n, b
<1> QED
  BY <1>1, <1>5, <1>6, <1>7

(* The uint48 validity window never outlives a non-zero deadline.          *)
LEMMA WindowWithinDeadline ==
  ASSUME NEW op \in UserOp, op.deadline # 0, clock \in Nat, clock <= ValidUntil(op)
  PROVE  clock <= op.deadline
<1> DEFINE d == op.deadline
           u == d % TsMod
<1>1. d \in Nat /\ TsMod \in Nat \ {0}
  BY PaymasterAssumption DEF UserOp
<1> HIDE DEF d
<1>2. u \in Nat /\ u <= d /\ (d < TsMod => u = d)
  BY <1>1
<1>3. ValidUntil(op) = IF u = 0 THEN TsMod - 1 ELSE u
  BY DEF ValidUntil, d
<1> HIDE DEF u
<1> QED
  BY <1>1, <1>2, <1>3 DEF d

(* The operations between validation and execution, in each phase, and how *)
(* a step of the loops changes them.                                       *)
LEMMA PendingCases ==
  /\ phase = "idle" => Pending = {}
  /\ phase = "validation" => Pending = 1 .. next - 1
  /\ phase = "execution" => Pending = next .. Len(bundle)
BY DEF Pending

LEMMA PendingAfterValidation ==
  ASSUME TypeOK, phase = "validation", Advance
  PROVE  /\ Pending' = 1 .. next
         /\ bundle' = bundle
         /\ phase' # "idle"
         /\ phase' = "execution" => next' = 1
<1>1. Len(bundle) \in Nat /\ next \in 1 .. Len(bundle)
  BY OpType
<1> QED
  BY <1>1 DEF Advance, Pending

LEMMA PendingAfterExecution ==
  ASSUME TypeOK, phase = "execution", Advance
  PROVE  \/ phase' = "idle" /\ Pending' = {}
         \/ /\ phase' = "execution" /\ bundle' = bundle /\ next' = next + 1 /\ saved' = saved
            /\ Pending' = next + 1 .. Len(bundle)
<1>1. Len(bundle) \in Nat /\ next \in 1 .. Len(bundle)
  BY OpType
<1> QED
  BY <1>1 DEF Advance, Idle, Pending

----------------------------------------------------------------------------
(* The books.                                                              *)

(* A pending operation was validated: it pays the paymaster, and no less   *)
(* than the gas it can cost.                                               *)
LEMMA PendingOp ==
  ASSUME IInv, phase = "execution"
  PROVE  /\ Op \in UserOp
         /\ Op.maxCost \in Nat /\ Op.fee \in Nat /\ Op.fee >= Op.maxCost
         /\ Op.feeTo = PAYMASTER /\ Op.to = Op.sender /\ Op.sender \in Accounts
         /\ Op.nonce \in Nat /\ Op.nonce < nonce[Op.sender]
         /\ \A r \in served : r[1] = Op.sender => r[2] < Op.nonce
         /\ Key(Op) \notin served
         /\ Key(Op) \in Accounts \X Nat
<1>1. TypeOK /\ phase # "idle" /\ \A k \in Pending : PendingOK(k)
  BY DEF IInv
<1>2. Len(bundle) \in Nat /\ next \in 1 .. Len(bundle) /\ Op \in UserOp
  BY <1>1, OpType
<1>3. next \in Pending
  BY <1>2, PendingCases
<1>4. PendingOK(next)
  BY <1>1, <1>3
<1>5. /\ Op.fee >= Op.maxCost /\ Op.feeTo = PAYMASTER /\ Op.to = Op.sender
      /\ Op.nonce < nonce[Op.sender]
      /\ \A r \in served : r[1] = Op.sender => r[2] < Op.nonce
  BY <1>4 DEF PendingOK, ValidCallData, Op
<1>6. Op.maxCost \in Nat /\ Op.fee \in Nat /\ Op.sender \in Accounts /\ Op.nonce \in Nat
  BY <1>2 DEF UserOp
<1>7. Key(Op) \notin served
  BY <1>5, <1>6 DEF Key
<1> QED
  BY <1>2, <1>5, <1>6, <1>7 DEF Key

(* Serving one more operation: the nonces stay beyond what was served, and *)
(* the count of served operations grows by one.                            *)
LEMMA ServedStep ==
  ASSUME IInv, phase = "execution", NEW cost \in 0 .. Op.maxCost, NEW ok \in BOOLEAN,
         Charge(Op, cost, ok), UNCHANGED nonce
  PROVE  /\ IsFiniteSet(served')
         /\ Cardinality(served') = Cardinality(served) + 1
         /\ Cardinality(served) \in Nat
         /\ \A r \in served' : r[2] < nonce'[r[1]]
<1>1. IsFiniteSet(served) /\ \A r \in served : r[2] < nonce[r[1]]
  BY DEF IInv, BooksOK, Snapshot
<1>2. served' = served \cup {Key(Op)}
  BY DEF Charge
<1>3. Key(Op) \notin served /\ Op.nonce < nonce[Op.sender]
  BY PendingOp
<1>4. \A r \in served' : r[2] < nonce'[r[1]]
  BY <1>1, <1>2, <1>3 DEF Key
<1>5. Cardinality(served) \in Nat
  BY <1>1, FS_CardinalityType
<1> QED
  BY <1>1, <1>2, <1>3, <1>4, <1>5, FS_AddElement

(* The counters, the paymaster's balance and the gas, in an executed       *)
(* operation: what changes keeps the books.                                *)
LEMMA BooksExecute == IInv /\ ExecuteOp => BooksOK(Snapshot)'
<1> SUFFICES ASSUME IInv, ExecuteOp PROVE BooksOK(Snapshot)'
  OBVIOUS
<1>1. /\ phase = "execution" /\ phase # "idle" /\ TypeOK /\ DexTypeOK /\ PaymasterTypeOK
  BY DEF ExecuteOp, IInv, TypeOK
<1>2. /\ Op \in UserOp /\ Op.maxCost \in Nat /\ Op.fee \in Nat /\ Op.fee >= Op.maxCost
      /\ Op.feeTo = PAYMASTER /\ Op.to = Op.sender
      /\ Op.sender \in Users /\ PAYMASTER \in Users /\ Op.sender # PAYMASTER
  BY <1>1, PendingOp, PaymasterAssumption
<1>3. /\ balance["token1"][PAYMASTER] >= stats.totalFeeAmount
      /\ stats.totalFeeAmount >= gas.forSucceeded
      /\ stats.sponsoredOps = stats.sponsoredOpsSucceeded + stats.sponsoredOpsReverted
      /\ stats.totalActualGasCostWei <= gas.charged
      /\ stats.sponsoredOps <= Cardinality(served)
      /\ \A t \in Token : balance[t][POOL] + direct[t] >= reserve[t]
  BY DEF IInv, BooksOK, Snapshot
<1>4. /\ stats.totalFeeAmount \in Nat /\ stats.sponsoredOps \in Nat
      /\ stats.sponsoredOpsSucceeded \in Nat /\ stats.sponsoredOpsReverted \in Nat
      /\ stats.totalActualGasCostWei \in Nat /\ gas.charged \in Nat /\ gas.forSucceeded \in Nat
  BY <1>1 DEF PaymasterTypeOK, Stats, TypeOK, Gas
<1>5. /\ "token1" \in Token /\ PAYMASTER \in Holders /\ PAYMASTER # POOL /\ POOL \in Holders
      /\ balance \in Ledger /\ \A t \in Token : balance[t][POOL] \in Nat
      /\ \A t \in Token : reserve[t] \in Nat /\ direct[t] \in Nat
      /\ balance["token1"][PAYMASTER] \in Nat
  BY <1>1, <1>2, DexAssumption DEF DexTypeOK, Ledger, Token, Holders
<1>6. ASSUME NEW cost \in 0 .. Op.maxCost, NEW reported \in 0 .. cost, OpSucceeded(cost, reported)
      PROVE  BooksOK(Snapshot)'
  <2> DEFINE t == Op.pair[1]
             q == Quote(t, Op.amountIn)
             l == SwapLedger(Op.sender, t, Op.amountIn, q, Op.to)
  <2>1. BatchRuns(Op) /\ Charge(Op, cost, TRUE) /\ UNCHANGED nonce
    BY <1>6 DEF OpSucceeded
  <2>2. cost \in Nat /\ cost <= Op.fee /\ reported \in Nat /\ reported <= cost
    BY <1>2
  <2>3. /\ t \in Token /\ q \in Nat /\ l \in Ledger
        /\ SwappedReserve(t, Op.amountIn)[t] = reserve[t] + Op.amountIn
        /\ SwappedReserve(t, Op.amountIn)[Other(t)] = reserve[Other(t)] - q
        /\ l[t][POOL] = balance[t][POOL] + Op.amountIn
        /\ l[Other(t)][POOL] = balance[Other(t)][POOL] - q
    BY <1>1, <1>2, <2>1, BatchEffect
  <2>4. Op.amountIn \in Nat /\ CanSwap(Op.sender, t, Op.amountIn, Op.minOut, Op.deadline)
    BY <1>2, <2>1 DEF UserOp, BatchRuns
  <2>5. l["token1"][PAYMASTER] = balance["token1"][PAYMASTER]
    BY <1>1, <1>2, <1>5, <2>3, <2>4, SwapElsewhere
  <2>6. l["token1"][Op.sender] >= Op.fee
    BY <2>1 DEF BatchRuns
  <2>7. balance' = Moved(l, "token1", Op.sender, PAYMASTER, Op.fee)
        /\ reserve' = SwappedReserve(t, Op.amountIn)
        /\ direct' = direct
    BY <1>2, <1>6 DEF OpSucceeded
  <2>8. Op.sender \in Holders /\ Op.sender # POOL
    BY <1>2, DexAssumption DEF Holders
  <2> HIDE DEF t, q, l
  <2>9. /\ balance'["token1"][PAYMASTER] = balance["token1"][PAYMASTER] + Op.fee
        /\ \A s \in Token : balance'[s][POOL] = l[s][POOL]
    BY <1>2, <1>5, <2>3, <2>5, <2>6, <2>7, <2>8, MovedLedger
  <2>10. \A s \in Token : balance'[s][POOL] + direct'[s] >= reserve'[s]
    <3>1. balance'[t][POOL] + direct'[t] >= reserve'[t]
      BY <1>3, <1>5, <2>3, <2>4, <2>7, <2>9
    <3>2. balance'[Other(t)][POOL] + direct'[Other(t)] >= reserve'[Other(t)]
      BY <1>3, <1>5, <2>3, <2>4, <2>7, <2>9, OtherToken
    <3> QED
      BY <2>3, <3>1, <3>2, OtherToken
  <2>11. stats' = PostOpStats(TRUE, Op, reported)
    BY <1>6 DEF OpSucceeded
  <2>12. /\ stats'.totalFeeAmount = stats.totalFeeAmount + Op.fee
         /\ stats'.sponsoredOps = stats.sponsoredOps + 1
         /\ stats'.sponsoredOpsSucceeded = stats.sponsoredOpsSucceeded + 1
         /\ stats'.sponsoredOpsReverted = stats.sponsoredOpsReverted
         /\ stats'.totalActualGasCostWei = stats.totalActualGasCostWei + reported
    BY <1>4, <2>11 DEF PostOpStats
  <2>13. gas'.charged = gas.charged + cost /\ gas'.forSucceeded = gas.forSucceeded + cost
    BY <2>1 DEF Charge
  <2>14. /\ balance'["token1"][PAYMASTER] >= stats'.totalFeeAmount
         /\ stats'.totalFeeAmount >= gas'.forSucceeded
         /\ stats'.sponsoredOps = stats'.sponsoredOpsSucceeded + stats'.sponsoredOpsReverted
         /\ stats'.totalActualGasCostWei <= gas'.charged
    BY <1>2, <1>3, <1>4, <1>5, <2>2, <2>9, <2>12, <2>13
  <2>a. UNCHANGED nonce
    BY <2>1
  <2>b. /\ IsFiniteSet(served') /\ Cardinality(served') = Cardinality(served) + 1
        /\ Cardinality(served) \in Nat
        /\ \A r \in served' : r[2] < nonce'[r[1]]
    BY <1>1, <2>1, <2>a, ServedStep
  <2>15. IsFiniteSet(served') /\ stats'.sponsoredOps <= Cardinality(served')
        /\ \A r \in served' : r[2] < nonce'[r[1]]
    BY <1>3, <1>4, <2>b, <2>12
  <2> QED
    BY <2>10, <2>14, <2>15 DEF BooksOK, Snapshot
<1>7. ASSUME NEW cost \in 0 .. Op.maxCost, NEW reported \in 0 .. cost, OpReverted(cost, reported)
      PROVE  BooksOK(Snapshot)'
  <2>1. Charge(Op, cost, FALSE) /\ UNCHANGED <<nonce, balance, reserve, direct>>
    BY <1>7 DEF OpReverted, dexVars
  <2>2. cost \in Nat /\ reported \in Nat /\ reported <= cost
    BY <1>2
  <2>3. stats' = PostOpStats(FALSE, Op, reported)
    BY <1>7 DEF OpReverted
  <2>4. /\ stats'.totalFeeAmount = stats.totalFeeAmount
        /\ stats'.sponsoredOps = stats.sponsoredOps + 1
        /\ stats'.sponsoredOpsSucceeded = stats.sponsoredOpsSucceeded
        /\ stats'.sponsoredOpsReverted = stats.sponsoredOpsReverted + 1
        /\ stats'.totalActualGasCostWei = stats.totalActualGasCostWei + reported
    BY <1>4, <2>3 DEF PostOpStats
  <2>5. gas'.charged = gas.charged + cost /\ gas'.forSucceeded = gas.forSucceeded
    BY <2>1 DEF Charge
  <2>6. /\ balance'["token1"][PAYMASTER] >= stats'.totalFeeAmount
        /\ stats'.totalFeeAmount >= gas'.forSucceeded
        /\ stats'.sponsoredOps = stats'.sponsoredOpsSucceeded + stats'.sponsoredOpsReverted
        /\ stats'.totalActualGasCostWei <= gas'.charged
    BY <1>3, <1>4, <2>1, <2>2, <2>4, <2>5
  <2>a. UNCHANGED nonce
    BY <2>1
  <2>b. /\ IsFiniteSet(served') /\ Cardinality(served') = Cardinality(served) + 1
        /\ Cardinality(served) \in Nat
        /\ \A r \in served' : r[2] < nonce'[r[1]]
    BY <1>1, <2>1, <2>a, ServedStep
  <2>7. IsFiniteSet(served') /\ stats'.sponsoredOps <= Cardinality(served')
        /\ \A r \in served' : r[2] < nonce'[r[1]]
    BY <1>3, <1>4, <2>b, <2>4
  <2> QED
    BY <1>3, <2>1, <2>6, <2>7 DEF BooksOK, Snapshot
<1>8. ASSUME NEW cost \in 0 .. Op.maxCost, PostOpReverted(cost)
      PROVE  BooksOK(Snapshot)'
  <2>1. Charge(Op, cost, FALSE) /\ UNCHANGED <<nonce, balance, reserve, direct, stats>>
    BY <1>8 DEF PostOpReverted, dexVars, paymasterVars
  <2>2. cost \in Nat
    BY <1>2
  <2>3. gas'.charged = gas.charged + cost /\ gas'.forSucceeded = gas.forSucceeded
    BY <2>1 DEF Charge
  <2>a. UNCHANGED nonce
    BY <2>1
  <2>b. /\ IsFiniteSet(served') /\ Cardinality(served') = Cardinality(served) + 1
        /\ Cardinality(served) \in Nat
        /\ \A r \in served' : r[2] < nonce'[r[1]]
    BY <1>1, <2>1, <2>a, ServedStep
  <2>4. IsFiniteSet(served') /\ stats'.sponsoredOps <= Cardinality(served')
        /\ \A r \in served' : r[2] < nonce'[r[1]]
    BY <1>3, <1>4, <2>b, <2>1
  <2> QED
    BY <1>3, <1>4, <2>1, <2>2, <2>3, <2>4 DEF BooksOK, Snapshot
<1> QED
  BY <1>6, <1>7, <1>8 DEF ExecuteOp

(* Traders never take from the paymaster's balance.                        *)
LEMMA BooksExchange ==
  ASSUME IInv, ExchangeStep
  PROVE  balance'["token1"][PAYMASTER] >= balance["token1"][PAYMASTER]
<1>1. DexTypeOK /\ balance \in Ledger
  BY DEF IInv, TypeOK, DexTypeOK, Ledger
<1>2. /\ Traders \subseteq Users /\ PAYMASTER \notin Traders /\ PAYMASTER \in Users
      /\ Amounts \subseteq Nat
  BY EntryPointAssumption, PaymasterAssumption, DexAssumption
<1>3. /\ "token1" \in Token /\ "token0" \in Token /\ PAYMASTER \in Holders /\ PAYMASTER # POOL
      /\ POOL \in Holders /\ Users \subseteq Holders
  BY <1>2, DexAssumption DEF Token, Holders
<1>4. balance["token1"][PAYMASTER] \in Nat
  BY <1>1, <1>3 DEF Ledger
<1>5. ASSUME NEW u \in Traders, NEW t \in Token, NEW a \in Amounts, NEW d \in Deadlines,
             Swap(u, t, a, 0, u, d)
      PROVE  balance'["token1"][PAYMASTER] >= balance["token1"][PAYMASTER]
  <2>1. CanSwap(u, t, a, 0, d) /\ a \in Nat /\ u \in Users /\ u # PAYMASTER
        /\ balance' = SwapLedger(u, t, a, Quote(t, a), u)
    BY <1>2, <1>5 DEF Swap
  <2> QED
    BY <1>1, <1>2, <1>3, <2>1, SwapElsewhere
<1>11. ASSUME NEW to \in Holders, NEW t \in Token, NEW a \in Amounts, SwapAtPool(t, a, 0, to)
       PROVE  balance'["token1"][PAYMASTER] >= balance["token1"][PAYMASTER]
  <2>1. a \in Nat
    BY <1>2
  <2> QED
    BY <1>1, <1>2, <1>3, <1>11, <2>1, AtPoolEffect
<1>6. ASSUME NEW u \in Traders, NEW a0 \in Amounts, NEW a1 \in Amounts, AddLiquidity(u, a0, a1)
      PROVE  balance'["token1"][PAYMASTER] >= balance["token1"][PAYMASTER]
  <2> DEFINE b1 == Moved(balance, "token0", u, POOL, a0)
  <2>1. /\ u \in Holders /\ u # PAYMASTER /\ a0 \in Nat /\ a1 \in Nat
        /\ balance["token0"][u] >= a0 /\ balance["token1"][u] >= a1
        /\ balance' = Moved(b1, "token1", u, POOL, a1)
    BY <1>2, <1>3, <1>6 DEF AddLiquidity
  <2>2. /\ b1 \in Ledger
        /\ b1["token1"][PAYMASTER] = balance["token1"][PAYMASTER]
    BY <1>1, <1>3, <2>1, NotTaken
  <2>3. b1["token1"][u] = balance["token1"][u]
    BY <1>1, <1>3, <2>1, MovedLedger
  <2> HIDE DEF b1
  <2>4. balance'["token1"][PAYMASTER] >= b1["token1"][PAYMASTER]
    BY <1>3, <2>1, <2>2, <2>3, NotTaken
  <2> QED
    BY <2>2, <2>4
<1>7. ASSUME NEW u \in Traders, NEW to \in Holders, NEW t \in Token, NEW a \in Amounts,
             Transfer(u, t, to, a)
      PROVE  balance'["token1"][PAYMASTER] >= balance["token1"][PAYMASTER]
  <2>1. u \in Holders /\ u # PAYMASTER /\ a \in Nat /\ balance[t][u] >= a
        /\ balance' = Moved(balance, t, u, to, a)
    BY <1>2, <1>3, <1>7 DEF Transfer
  <2> QED
    BY <1>1, <1>3, <2>1, NotTaken
<1>8. CASE Tick
  BY <1>4, <1>8 DEF Tick
<1>9. ASSUME NEW t \in Token, NEW to \in Holders, NEW a \in Amounts, balance' = Issued(t, to, a)
      PROVE  balance'["token1"][PAYMASTER] >= balance["token1"][PAYMASTER]
  <2>1. a \in Nat /\ balance["token1"] \in [Holders -> Nat] /\ balance[t] \in [Holders -> Nat]
    BY <1>1, <1>2, <1>3 DEF Ledger
  <2>2. balance' = [balance EXCEPT ![t] = [balance[t] EXCEPT ![to] = balance[t][to] + a]]
    BY <1>1, <1>9 DEF Issued, Ledger
  <2> QED
    BY <1>1, <1>3, <1>4, <2>1, <2>2 DEF Ledger
<1>10. ASSUME NEW u \in Traders, NEW a \in Amounts, Unwrap(u, a)
       PROVE  balance'["token1"][PAYMASTER] = balance["token1"][PAYMASTER]
  <2>1. u # PAYMASTER /\ u \in Holders /\ balance["token1"] \in [Holders -> Nat]
    BY <1>1, <1>2, <1>3 DEF Ledger
  <2> QED
    BY <1>1, <1>3, <1>10, <2>1 DEF Unwrap, Ledger
<1> QED
  <2>1. \A u \in Traders : u \in Holders
    BY <1>2, <1>3
  <2>2. ASSUME NEW u \in Traders, NEW a \in Amounts, Unwrap(u, a)
        PROVE  balance'["token1"][PAYMASTER] >= balance["token1"][PAYMASTER]
    BY <1>4, <1>10, <2>2
  <2> QED
    BY <1>3, <1>5, <1>6, <1>7, <1>8, <1>9, <1>11, <2>1, <2>2 DEF ExchangeStep, Mint, Wrap

(* The books of the chain, and of the state a revert would restore.        *)
LEMMA BooksStep == IInv /\ [Next]_vars => BooksOK(Snapshot)' /\ (phase # "idle" => BooksOK(saved))'
<1> SUFFICES ASSUME IInv, [Next]_vars
             PROVE  BooksOK(Snapshot)' /\ (phase # "idle" => BooksOK(saved))'
  OBVIOUS
<1> DEFINE Good == BooksOK(Snapshot)' /\ (phase # "idle" => BooksOK(saved))'
<1>a. ASSUME saved' = saved, direct' = direct, BooksOK(saved)
      PROVE  BooksOK(saved)'
  BY <1>a DEF BooksOK
<1>b. ASSUME UNCHANGED <<balance, reserve, direct, stats, gas, served, nonce>>
      PROVE  BooksOK(Snapshot)'
  <2>1. BooksOK(Snapshot)
    BY DEF IInv
  <2> QED
    BY <1>b, <2>1 DEF BooksOK, Snapshot
<1>0. TypeOK /\ DexInv /\ BooksOK(Snapshot) /\ (phase # "idle" => BooksOK(saved))
  BY DEF IInv, TypeOK, DexInv, PoolCovered, BooksOK, Snapshot
<1>1. ASSUME NEW n \in 1 .. MaxBundle, NEW ops \in [1 .. n -> UserOps], BeginBundle(ops)
      PROVE  Good
  <2>1. saved' = Snapshot
        /\ UNCHANGED <<balance, reserve, direct, stats, gas, served, nonce>>
    BY <1>1 DEF BeginBundle, dexVars, paymasterVars
  <2> QED
    BY <1>0, <1>b, <2>1 DEF BooksOK, Snapshot
<1>2. CASE ValidateOp
  <2>1. phase = "validation" /\ phase # "idle" /\ Advance /\ nonce' = [nonce EXCEPT ![Op.sender] = @ + 1]
        /\ UNCHANGED <<dexVars, paymasterVars, gas, served>>
    BY <1>2 DEF ValidateOp
  <2>2. Op \in UserOp /\ saved' = saved /\ direct' = direct
    BY <1>0, <2>1, OpType DEF Advance, dexVars
  <2>3. \A a \in Accounts : nonce[a] \in Nat /\ nonce'[a] >= nonce[a]
    BY <1>0, <2>1, <2>2 DEF TypeOK, UserOp
  <2>4. \A r \in served : r[1] \in Accounts /\ r[2] \in Nat /\ r[2] < nonce[r[1]]
    BY <1>0 DEF BooksOK, Snapshot, TypeOK
  <2>5. \A r \in served' : r[2] < nonce'[r[1]]
    <3> SUFFICES ASSUME NEW r \in served PROVE r[2] < nonce'[r[1]]
      BY <2>1
    <3>1. r[1] \in Accounts /\ r[2] \in Nat /\ r[2] < nonce[r[1]] /\ nonce[r[1]] \in Nat
          /\ nonce'[r[1]] >= nonce[r[1]]
      BY <2>3, <2>4
    <3>2. nonce'[r[1]] \in Nat
      BY <1>0, <2>1, <2>2, <3>1 DEF TypeOK, UserOp
    <3> QED
      BY <3>1, <3>2
  <2>6. BooksOK(Snapshot)'
    BY <1>0, <2>1, <2>5 DEF BooksOK, Snapshot, dexVars, paymasterVars
  <2> QED
    BY <1>0, <1>a, <2>1, <2>2, <2>6
<1>3. ASSUME phase # "idle", Rollback
      PROVE  Good
  <2>1. /\ balance' = saved.balance /\ reserve' = saved.reserve /\ stats' = saved.stats
        /\ gas' = saved.gas /\ served' = saved.served /\ nonce' = saved.nonce
        /\ direct' = direct /\ phase' = "idle"
    BY <1>3 DEF Rollback, Idle
  <2> QED
    BY <1>0, <1>3, <2>1 DEF BooksOK, Snapshot
<1>4. CASE ExecuteOp
  <2>1. BooksOK(Snapshot)'
    BY <1>4, BooksExecute
  <2>2. phase = "execution" /\ Advance
    BY <1>4 DEF ExecuteOp, OpSucceeded, OpReverted, PostOpReverted
  <2>3. phase' # "idle" => saved' = saved
    BY <1>0, <2>2, PendingAfterExecution
  <2>4. direct' = direct
    BY <1>4 DEF ExecuteOp, OpSucceeded, OpReverted, PostOpReverted, dexVars
  <2> QED
    BY <1>0, <1>a, <2>1, <2>2, <2>3, <2>4
<1>5. CASE \/ \E v \in Values : Deposit(v) \/ WithdrawTo(v)
           \/ \E p \in Policies : OwnerSetPolicy(p)
           \/ \E p \in Prices : OwnerSetPrice(p)
           \/ UNCHANGED vars
  <2>1. UNCHANGED <<balance, reserve, direct, stats, gas, served, nonce, saved, phase>>
    BY <1>5 DEF Deposit, WithdrawTo, OwnerSetPolicy, SetPolicy, OwnerSetPrice, SetPrice,
                EntryPointIdle, dexVars, paymasterVars, vars
  <2> QED
    BY <1>0, <1>a, <1>b, <2>1
<1>6. CASE ExchangeStep
  <2>1. UNCHANGED <<stats, gas, served, nonce, saved, phase>> /\ phase = "idle"
    BY <1>6 DEF ExchangeStep, EntryPointIdle, paymasterVars
  <2>2. balance'["token1"][PAYMASTER] >= balance["token1"][PAYMASTER]
    BY <1>6, BooksExchange
  <2>3. DexInv'
    BY <1>0, <1>6, ExchangeType
  <2>4. /\ "token1" \in Token /\ PAYMASTER \in Holders
        /\ balance["token1"][PAYMASTER] \in Nat /\ balance'["token1"][PAYMASTER] \in Nat
        /\ stats.totalFeeAmount \in Nat
    BY <1>0, <2>3, PaymasterAssumption
    DEF DexInv, DexTypeOK, Token, Holders, TypeOK, PaymasterTypeOK, Stats
  <2>5. balance'["token1"][PAYMASTER] >= stats.totalFeeAmount
    BY <1>0, <2>2, <2>4 DEF BooksOK, Snapshot
  <2> QED
    BY <1>0, <2>1, <2>3, <2>5 DEF BooksOK, Snapshot, DexInv, PoolCovered
<1> QED
  BY <1>1, <1>2, <1>3, <1>4, <1>5, <1>6 DEF Next, RejectBundle, AbortBundle

----------------------------------------------------------------------------
(* What validation establishes, and what execution leaves of it.           *)

(* The validation loop: the operations validated before stay as they were, *)
(* and the one validated now satisfies what the paymaster checked.         *)
LEMMA PendingValidate ==
  ASSUME IInv, ValidateOp
  PROVE  (\A k \in Pending : PendingOK(k))' /\ DepositFloor'
<1>1. /\ phase = "validation" /\ phase # "idle" /\ TypeOK /\ Advance /\ Acceptable(Op)
      /\ nonce' = [nonce EXCEPT ![Op.sender] = @ + 1] /\ deposit' = deposit - Op.maxCost
      /\ UNCHANGED <<clock, reserve, balance, policy, price, lastPostOpTs, served>>
      /\ reserve = saved.reserve
  BY DEF ValidateOp, IInv, dexVars, paymasterVars
<1>2. Len(bundle) \in Nat /\ next \in 1 .. Len(bundle) /\ \A k \in 1 .. Len(bundle) : bundle[k] \in UserOp
  BY <1>1, OpType
<1>3. /\ Pending = 1 .. next - 1 /\ Pending' = 1 .. next /\ bundle' = bundle
      /\ phase' = "execution" => next' = 1
      /\ phase' # "idle"
  BY <1>1, PendingCases, PendingAfterValidation
<1>4. phase' \in {"validation", "execution"} /\ saved' = saved
  BY <1>1, <1>3 DEF Advance
<1>5. \A k \in Pending : PendingOK(k)
  BY DEF IInv
<1>6. /\ clock \in Nat /\ nonce \in [Accounts -> Nat] /\ deposit \in Nat
      /\ lastPostOpTs \in [Accounts -> Nat] /\ PaymasterTypeOK /\ policy \in Policy
  BY <1>1 DEF TypeOK, DexTypeOK, PaymasterTypeOK
<1>7. Op \in UserOp /\ Op = bundle[next] /\ Op.sender \in Accounts /\ Op.maxCost \in Nat
      /\ Op.nonce \in Nat /\ Op.fee \in Nat
  BY <1>2 DEF Op, UserOp
<1>8. /\ nonce[Op.sender] = Op.nonce
      /\ PaymasterAccepts(Op, deposit - Op.maxCost) /\ InWindow(Op)
  BY <1>1 DEF Acceptable
<1>9. \A a \in Accounts : nonce'[a] = (IF a = Op.sender THEN nonce[a] + 1 ELSE nonce[a])
  BY <1>1, <1>6, <1>7
<1>10. \A r \in served : r[1] \in Accounts /\ r[2] \in Nat /\ r[2] < nonce[r[1]]
  BY <1>1 DEF IInv, BooksOK, Snapshot, TypeOK
<1>11. \A k \in Pending' :
         phase' = "validation" \/ \A j \in 1 .. next' - 1 : bundle'[j].sender # bundle'[k].sender
  BY <1>2, <1>3, <1>4
<1>12. ASSUME NEW k \in 1 .. next - 1
       PROVE  PendingOK(k)'
  <2>0. PICK op \in UserOp : op = bundle[k]
    BY <1>2
  <2>1. k \in Pending /\ PendingOK(k)
    BY <1>2, <1>3, <1>5
  <2>2. op.sender \in Accounts /\ op.nonce \in Nat /\ bundle'[k] = op
    BY <1>3, <2>0 DEF UserOp
  <2>3. op.nonce < nonce[op.sender]
    BY <2>0, <2>1 DEF PendingOK
  <2>4. op.nonce < nonce'[op.sender]
    BY <1>6, <1>9, <2>2, <2>3
  <2>5. \A j \in Pending' : j < k /\ bundle[j].sender = op.sender => bundle[j].nonce < op.nonce
    <3>1. \A j \in Pending' : j < k => j \in Pending
      BY <1>2, <1>3
    <3> QED
      BY <2>0, <2>1, <3>1 DEF PendingOK
  <2>6. QuotedAtStart(op)'
    BY <1>4, <2>0, <2>1 DEF PendingOK, QuotedAtStart
  <2>7. /\ ValidCallData(op) /\ op.fee >= op.maxCost /\ op.minOut >= op.fee
        /\ \A r \in served : r[1] = op.sender => r[2] < op.nonce
        /\ op.deadline # 0 => clock <= op.deadline
        /\ clock >= CooldownEnd(op.sender)
    BY <1>1, <2>0, <2>1 DEF PendingOK
  <2>8. CooldownEnd(op.sender)' = CooldownEnd(op.sender)
    BY <1>1 DEF CooldownEnd
  <2>9. ValidCallData(op)'
    BY <2>7 DEF ValidCallData
  <2> QED
    BY <1>1, <1>3, <2>2, <2>4, <2>5, <2>6, <2>7, <2>8, <2>9 DEF PendingOK
<1>13. ASSUME NEW k, k = next
       PROVE  PendingOK(k)'
  <2>0. PICK op \in UserOp : op = Op
    BY <1>7
  <2>1. bundle'[k] = op /\ bundle[k] = op
    BY <1>3, <1>7, <1>13, <2>0
  <2>2. ValidCallData(op)' /\ op.minOut >= op.fee
    BY <2>0, <1>8 DEF PaymasterAccepts, ValidCallData
  <2>3. op.fee >= op.maxCost
    <3>1. op.fee >= RequiredFee(op.maxCost)
      BY <2>0, <1>8 DEF PaymasterAccepts
    <3>2. RequiredFee(op.maxCost) \in Nat /\ RequiredFee(op.maxCost) >= op.maxCost
      BY <2>0, <1>6, <1>7, FeeCoversPrefund
    <3> QED
      BY <2>0, <1>7, <3>1, <3>2
  <2>4. op.nonce < nonce'[op.sender]
    BY <2>0, <1>6, <1>7, <1>8, <1>9
  <2>5. \A r \in served : r[1] = op.sender => r[2] < op.nonce
    BY <2>0, <1>8, <1>10
  <2>6. \A j \in Pending' : j < k /\ bundle[j].sender = op.sender => bundle[j].nonce < op.nonce
    <3> SUFFICES ASSUME NEW j \in Pending', j < k, bundle[j].sender = op.sender
                 PROVE  bundle[j].nonce < op.nonce
      OBVIOUS
    <3>1. j \in Pending
      BY <2>0, <1>2, <1>3, <1>13
    <3>2. bundle[j].nonce < nonce[bundle[j].sender]
      BY <2>0, <1>5, <3>1 DEF PendingOK
    <3> QED
      BY <2>0, <1>8, <3>2
  <2>7. op.deadline # 0 => clock <= op.deadline
    BY <2>0, <1>6, <1>7, <1>8, WindowWithinDeadline DEF InWindow
  <2>8. clock >= CooldownEnd(op.sender) /\ CooldownEnd(op.sender)' = CooldownEnd(op.sender)
    BY <2>0, <1>1, <1>8 DEF InWindow, CooldownEnd
  <2>9. PriceAccepts(op)
    BY <2>0, <1>8 DEF PaymasterAccepts
  <2>10. QuotedAtStart(op)'
    <3>1. Other("token0") = "token1"
      BY DEF Other
    <3> QED
      BY <1>1, <1>4, <2>9, <3>1 DEF PriceAccepts, HasReserves, Quote, QuotedAtStart
  <2>11. ValidCallData(op)'
    BY <2>2 DEF ValidCallData
  <2> QED
    BY <2>0, <1>1, <1>3, <2>1, <2>2, <2>3, <2>4, <2>5, <2>6, <2>7, <2>8, <2>10, <2>11 DEF PendingOK
<1>14. \A k \in Pending' : k \in 1 .. next - 1 \/ k = next
  BY <1>2, <1>3
<1>15. DepositFloor'
  BY <1>1, <1>8 DEF DepositFloor, PaymasterAccepts
<1> QED
  BY <1>12, <1>13, <1>14, <1>15

(* The execution loop: an executed operation changes the nonce order only  *)
(* behind, and the cooldown only of its own sender.                        *)
LEMMA PendingExecute ==
  ASSUME IInv, ExecuteOp
  PROVE  (\A k \in Pending : PendingOK(k))' /\ DepositFloor'
<1>1. phase = "execution" /\ phase # "idle" /\ TypeOK
  BY DEF ExecuteOp, IInv
<1>2. /\ Len(bundle) \in Nat /\ next \in 1 .. Len(bundle)
      /\ \A k \in 1 .. Len(bundle) : bundle[k] \in UserOp
      /\ Op \in UserOp /\ Op = bundle[next]
  BY <1>1, OpType DEF Op
<1>3. Op.maxCost \in Nat
  BY <1>2 DEF UserOp
<1>4. PICK cost \in 0 .. Op.maxCost : \E ok \in BOOLEAN : Charge(Op, cost, ok)
  BY DEF ExecuteOp, OpSucceeded, OpReverted, PostOpReverted
<1>5. /\ Advance
      /\ clock' = clock /\ policy' = policy /\ nonce' = nonce
      /\ lastPostOpTs' = lastPostOpTs \/ lastPostOpTs' = PostOpTs(Op)
      /\ served' = served \cup {Key(Op)}
  BY DEF ExecuteOp, OpSucceeded, OpReverted, PostOpReverted, Charge, dexVars, paymasterVars
<1>6. deposit' >= deposit /\ deposit \in Nat /\ deposit' \in Nat
  BY <1>1, <1>2, <1>4, ChargeType DEF TypeOK
<1>7. Pending = next .. Len(bundle) /\ next \in Pending
  BY <1>1, <1>2, PendingCases
<1>8. \A k \in Pending : PendingOK(k)
  BY DEF IInv
<1>9. CASE phase' = "idle" /\ Pending' = {}
  BY <1>9 DEF DepositFloor
<1>10. CASE /\ phase' = "execution" /\ bundle' = bundle /\ next' = next + 1 /\ saved' = saved
            /\ Pending' = next + 1 .. Len(bundle)
  <2>1. DepositFloor'
    <3>1. deposit >= policy.minDepositWei /\ policy.minDepositWei \in Nat
      BY <1>1, <1>7 DEF IInv, DepositFloor, TypeOK, PaymasterTypeOK, Policy
    <3> QED
      BY <1>5, <1>6, <3>1 DEF DepositFloor
  <2>2. ASSUME NEW k \in next + 1 .. Len(bundle)
        PROVE  PendingOK(k)'
    <3>1. PICK op \in UserOp : op = bundle[k]
      BY <1>2
    <3>2. k \in Pending /\ PendingOK(k) /\ next < k
      BY <1>2, <1>7, <1>8
    <3>3. bundle'[k] = op
      BY <1>10, <3>1
    <3>4. ValidCallData(op)'
      BY <3>1, <3>2 DEF PendingOK, ValidCallData
    <3>5. /\ op.fee >= op.maxCost /\ op.minOut >= op.fee
          /\ op.nonce < nonce'[op.sender]
          /\ op.deadline # 0 => clock <= op.deadline
      BY <1>5, <3>1, <3>2 DEF PendingOK
    <3>6. \A r \in served' : r[1] = op.sender => r[2] < op.nonce
      <4>1. Op.sender = op.sender => Op.nonce < op.nonce
        BY <1>2, <1>7, <3>1, <3>2 DEF PendingOK
      <4>2. \A r \in served : r[1] = op.sender => r[2] < op.nonce
        BY <3>1, <3>2 DEF PendingOK
      <4> QED
        BY <1>5, <4>1, <4>2 DEF Key
    <3>7. \A j \in Pending' : j < k /\ bundle[j].sender = op.sender => bundle[j].nonce < op.nonce
      <4>1. \A j \in Pending' : j \in Pending
        BY <1>2, <1>7, <1>10
      <4> QED
        BY <3>1, <3>2, <4>1 DEF PendingOK
    <3>8. (\A j \in 1 .. next' - 1 : bundle[j].sender # op.sender)
            => clock >= CooldownEnd(op.sender)'
      <4> SUFFICES ASSUME \A j \in 1 .. next' - 1 : bundle[j].sender # op.sender
                   PROVE  clock >= CooldownEnd(op.sender)'
        OBVIOUS
      <4>1. \A j \in 1 .. next : bundle[j].sender # op.sender
        BY <1>2, <1>10
      <4>2. clock >= CooldownEnd(op.sender)
        BY <1>2, <3>1, <3>2, <4>1 DEF PendingOK
      <4>3. Op.sender # op.sender
        BY <1>2, <4>1
      <4>4. op.sender \in Accounts /\ lastPostOpTs \in [Accounts -> Nat]
        BY <1>1 DEF UserOp, TypeOK, PaymasterTypeOK
      <4>5. lastPostOpTs'[op.sender] = lastPostOpTs[op.sender]
        BY <1>5, <4>3, <4>4 DEF PostOpTs
      <4> QED
        BY <1>5, <4>2, <4>5 DEF CooldownEnd
    <3>9. QuotedAtStart(op)'
      BY <1>10, <3>1, <3>2 DEF PendingOK, QuotedAtStart
    <3> QED
      BY <1>5, <1>10, <3>3, <3>4, <3>5, <3>6, <3>7, <3>8, <3>9 DEF PendingOK
  <2> QED
    BY <1>10, <2>1, <2>2
<1> QED
  BY <1>1, <1>5, <1>9, <1>10, PendingAfterExecution

LEMMA PendingStep == IInv /\ [Next]_vars => (\A k \in Pending : PendingOK(k))' /\ DepositFloor'
<1> SUFFICES ASSUME IInv, [Next]_vars
             PROVE  (\A k \in Pending : PendingOK(k))' /\ DepositFloor'
  OBVIOUS
<1>1. ASSUME Pending' = {}
      PROVE  (\A k \in Pending : PendingOK(k))' /\ DepositFloor'
  BY <1>1 DEF DepositFloor
<1>2. ASSUME NEW n \in 1 .. MaxBundle, NEW ops \in [1 .. n -> UserOps], BeginBundle(ops)
      PROVE  Pending' = {}
  BY <1>2 DEF BeginBundle, Pending
<1>3. CASE ValidateOp
  BY <1>3, PendingValidate
<1>4. CASE Rollback
  <2>1. Pending' = {}
    BY <1>4 DEF Rollback, Idle, Pending
  <2> QED
    BY <1>1, <2>1
<1>5. CASE ExecuteOp
  BY <1>5, PendingExecute
<1>6. CASE EntryPointIdle
  <2>1. Pending' = {}
    BY <1>6 DEF EntryPointIdle, Pending
  <2> QED
    BY <1>1, <2>1
<1>7. CASE UNCHANGED vars
  <2>1. \A k : PendingOK(k)' <=> PendingOK(k)
    BY <1>7 DEF vars, dexVars, paymasterVars, PendingOK, ValidCallData, Pending, CooldownEnd,
                QuotedAtStart
  <2>2. Pending' = Pending /\ (DepositFloor' <=> DepositFloor)
    BY <1>7 DEF vars, paymasterVars, Pending, DepositFloor
  <2> QED
    BY <2>1, <2>2 DEF IInv
<1> QED
  BY <1>1, <1>2, <1>3, <1>4, <1>5, <1>6, <1>7
  DEF Next, RejectBundle, AbortBundle, Deposit, WithdrawTo, OwnerSetPolicy, OwnerSetPrice, ExchangeStep

(* Nothing trades while the operations of a bundle are validated.          *)
LEMMA QuotesStep == IInv /\ [Next]_vars => (phase' = "validation" => reserve' = saved'.reserve)
<1> SUFFICES ASSUME IInv, [Next]_vars, phase' = "validation"
             PROVE  reserve' = saved'.reserve
  OBVIOUS
<1>1. phase = "validation" => reserve = saved.reserve
  BY DEF IInv
<1>2. ASSUME NEW n \in 1 .. MaxBundle, NEW ops \in [1 .. n -> UserOps], BeginBundle(ops)
      PROVE  reserve' = saved'.reserve
  BY <1>2 DEF BeginBundle, Snapshot, dexVars
<1>3. CASE ValidateOp
  BY <1>1, <1>3 DEF ValidateOp, Advance, dexVars
<1>4. CASE ExecuteOp
  <2>1. phase = "execution" /\ Advance
    BY <1>4 DEF ExecuteOp, OpSucceeded, OpReverted, PostOpReverted
  <2> QED
    BY <2>1 DEF Advance, Idle
<1>5. CASE Rollback
  BY <1>5 DEF Rollback, Idle
<1>6. CASE EntryPointIdle
  BY <1>6 DEF EntryPointIdle
<1>7. CASE UNCHANGED vars
  BY <1>1, <1>7 DEF vars, dexVars
<1> QED
  BY <1>2, <1>3, <1>4, <1>5, <1>6, <1>7
  DEF Next, RejectBundle, AbortBundle, Deposit, WithdrawTo, OwnerSetPolicy, OwnerSetPrice, ExchangeStep

----------------------------------------------------------------------------
(* The invariant.                                                          *)

(* Time stays below 2 ** 48.                                               *)
LEMMA ClockStep == IInv /\ [Next]_vars => clock' < TsMod
<1> SUFFICES ASSUME IInv, [Next]_vars PROVE clock' < TsMod
  OBVIOUS
<1>1. clock < TsMod /\ clock \in Nat
  BY DEF IInv, TypeOK, DexTypeOK
<1>2. CASE clock' = clock
  BY <1>1, <1>2
<1>3. CASE ExchangeStep /\ clock' # clock
  <2>1. clock < MaxClock /\ clock' = clock + 1
    BY <1>3 DEF ExchangeStep, Swap, SwapAtPool, AddLiquidity, Transfer, Mint, Wrap,
               Unwrap, Tick
  <2> QED
    BY <1>1, <2>1, PaymasterAssumption, DexAssumption
<1> QED
  BY <1>2, <1>3
  DEF Next, BeginBundle, ValidateOp, RejectBundle, AbortBundle, Rollback, ExecuteOp, OpSucceeded,
      OpReverted, PostOpReverted, Deposit, WithdrawTo, OwnerSetPolicy, OwnerSetPrice,
      vars, dexVars

LEMMA InitIInv == Init => IInv
<1> SUFFICES ASSUME Init PROVE IInv
  OBVIOUS
<1>1. DexTypeOK /\ clock = 1 /\ PoolCovered
  <2>1. \A t \in Token : balance[t][POOL] = 0 /\ reserve[t] = 0 /\ direct[t] = 0
    BY DEF Init, DexInit
  <2> QED
    BY <2>1 DEF Init, DexInit, DexTypeOK, PoolCovered
<1>2. PaymasterTypeOK
  BY DEF Init, PaymasterInit, PaymasterTypeOK, Policy, Stats
<1>3. <<>> \in Seq(UserOps) /\ Len(<<>>) = 0
  OBVIOUS
<1>4. TypeOK
  BY <1>1, <1>2, <1>3 DEF Init, TypeOK, Phase, Gas
<1>5. clock < TsMod
  BY <1>1, PaymasterAssumption, DexAssumption
<1>6. IsFiniteSet(served) /\ Cardinality(served) = 0
  BY FS_EmptySet DEF Init
<1>7. BooksOK(Snapshot)
  BY <1>1, <1>6 DEF Init, PaymasterInit, BooksOK, Snapshot, PoolCovered
<1>8. Pending = {}
  BY DEF Init, Pending
<1> QED
  BY <1>4, <1>5, <1>7, <1>8 DEF IInv, DepositFloor, Init

(* In every run, between any two steps of every bundle, the inductive      *)
(* invariant of sponsored bundles holds.                                   *)
THEOREM BundleInvariant == Spec => []IInv
<1>1. IInv /\ [Next]_vars => IInv'
  <2>1. IInv => TypeOK /\ PoolCovered
    BY DEF IInv, BooksOK, Snapshot, PoolCovered
  <2> QED
    BY <2>1, TypeStep, BooksStep, PendingStep, QuotesStep, ClockStep DEF IInv
<1> QED
  BY <1>1, InitIInv, PTL DEF Spec

----------------------------------------------------------------------------
(* The properties.                                                         *)

(* The state is always well typed: in particular no balance, reserve or    *)
(* deposit of the contracts ever underflows.                               *)
THEOREM TypeSafe == Spec => []TypeOK
<1>1. IInv => TypeOK
  BY DEF IInv
<1> QED
  BY <1>1, BundleInvariant, PTL

(* The paymaster always holds the fees that its counter says it collected. *)
THEOREM FeesAreHeld == Spec => []FeesHeld
<1>1. IInv => FeesHeld
  BY DEF IInv, BooksOK, Snapshot, FeesHeld
<1> QED
  BY <1>1, BundleInvariant, PTL

(* The fees booked cover the gas of all swaps that went through.           *)
THEOREM SponsorshipNeverLoses == Spec => []SponsorshipSolvent
<1>1. IInv => SponsorshipSolvent
  BY DEF IInv, BooksOK, Snapshot, SponsorshipSolvent
<1> QED
  BY <1>1, BundleInvariant, PTL

(* The counters of sponsored operations add up, whatever was reverted, and *)
(* report no more gas than was paid.                                       *)
THEOREM CountersSafe == Spec => [](CountersAgree /\ ReportedGasIsPaid)
<1>1. IInv => CountersAgree /\ ReportedGasIsPaid
  BY DEF IInv, BooksOK, Snapshot, CountersAgree, ReportedGasIsPaid
<1> QED
  BY <1>1, BundleInvariant, PTL

(* No bundle takes the deposit below the policy's floor.                   *)
THEOREM FloorKept == Spec => []DepositFloor
<1>1. IInv => DepositFloor
  BY DEF IInv
<1> QED
  BY <1>1, BundleInvariant, PTL

(* Every signed operation is executed at most once and in nonce order.     *)
THEOREM NoReplay == Spec => []AtMostOnce
<1>1. IInv => AtMostOnce
  <2> SUFFICES ASSUME IInv PROVE AtMostOnce
    OBVIOUS
  <2>1. ASSUME NEW k \in Pending
        PROVE  /\ bundle[k].nonce \in Nat
               /\ \A r \in served : r[1] = bundle[k].sender => r[2] < bundle[k].nonce
               /\ \A j \in Pending :
                    j < k /\ bundle[j].sender = bundle[k].sender => bundle[j].nonce < bundle[k].nonce
    <3>1. phase # "idle" /\ TypeOK /\ phase \in Phase
      BY PendingCases DEF IInv, TypeOK
    <3>2. k \in 1 .. Len(bundle)
      <4>1. Len(bundle) \in Nat /\ next \in 1 .. Len(bundle)
        BY <3>1, OpType
      <4> QED
        BY <3>1, <4>1, PendingCases DEF Phase
    <3>3. bundle[k] \in UserOp
      BY <3>1, <3>2, OpType
    <3> QED
      BY <3>3 DEF IInv, PendingOK, UserOp
  <2> QED
    BY <2>1 DEF AtMostOnce, Key
<1> QED
  BY <1>1, BundleInvariant, PTL

(* No operation with a deadline is executed after it, although the window  *)
(* that the EntryPoint checks keeps only 48 bits of the deadline.          *)
THEOREM DeadlinesKept == Spec => []DeadlineWindow
<1>1. IInv => DeadlineWindow
  BY DEF IInv, DeadlineWindow, PendingOK
<1> QED
  BY <1>1, BundleInvariant, PTL

(* The cooldown holds between bundles.                                     *)
THEOREM CooldownKept == Spec => []CooldownAcrossBundles
<1>1. IInv => CooldownAcrossBundles
  BY DEF IInv, CooldownAcrossBundles, PendingOK
<1> QED
  BY <1>1, BundleInvariant, PTL

(* An operation that passed validation goes through if the sender has the  *)
(* tokens, no earlier operation of the bundle has moved the pool, and the  *)
(* pool can miss what direct callers booked: its quote and its deadline    *)
(* still stand, the pool can pay, and the output covers the fee.           *)
THEOREM ValidatedRuns == Spec => []ValidatedOpRuns
<1>1. IInv => ValidatedOpRuns
  <2> SUFFICES ASSUME IInv, phase = "execution", reserve = saved.reserve,
                      Op.deadline # 0, Op.maxCost > 0,
                      balance["token0"][Op.sender] >= Op.amountIn,
                      Quote("token0", Op.amountIn) + direct["token1"] <= reserve["token1"]
               PROVE  BatchRuns(Op)
    BY DEF ValidatedOpRuns
  <2> DEFINE q == Quote("token0", Op.amountIn)
  <2>1. TypeOK /\ phase # "idle" /\ DexTypeOK
    BY DEF IInv, TypeOK
  <2>2. Op \in UserOp /\ next \in 1 .. Len(bundle) /\ Len(bundle) \in Nat
    BY <2>1, OpType
  <2>3. PendingOK(next) /\ Op = bundle[next]
    BY <2>2, PendingCases DEF IInv, Op
  <2>4. /\ ValidCallData(Op) /\ QuotedAtStart(Op) /\ clock <= Op.deadline
        /\ Op.fee >= Op.maxCost /\ Op.minOut >= Op.fee
    BY <2>3 DEF PendingOK
  <2>5. /\ Op.maxCost \in Nat /\ Op.fee \in Nat /\ Op.minOut \in Nat /\ Op.amountIn \in Nat
        /\ Op.sender \in Users /\ Op.sender \in Holders /\ POOL \in Holders
    BY <2>2, PaymasterAssumption DEF UserOp, Holders
  <2>6. /\ Op.pair[1] = "token0" /\ Op.pair[2] = "token1" /\ Other("token0") = "token1"
        /\ "token0" \in Token /\ "token1" \in Token /\ Op.to = Op.sender
        /\ Op.shape = "batch3" /\ Op.spender = ROUTER /\ Op.approved = Op.amountIn
    BY <2>4 DEF ValidCallData, Other, Token
  <2>7. HasReserves /\ q >= Op.minOut
    BY <2>4, <2>6 DEF QuotedAtStart, HasReserves, Quote
  <2>8. q \in Nat /\ q < reserve["token1"]
    BY <2>1, <2>5, <2>6, <2>7, QuoteBounds
  <2>9. balance["token1"][POOL] >= q
    <3>1. balance["token1"][POOL] + direct["token1"] >= reserve["token1"]
      BY <2>6 DEF IInv, BooksOK, Snapshot
    <3>2. balance["token1"][POOL] \in Nat /\ reserve["token1"] \in Nat
          /\ direct["token1"] \in Nat
      BY <2>1, <2>5, <2>6 DEF DexTypeOK
    <3> QED
      BY <2>8, <3>1, <3>2
  <2>10. Op.amountIn # 0
    <3> SUFFICES ASSUME Op.amountIn = 0 PROVE FALSE
      OBVIOUS
    <3>1. q = 0
      <4>1. reserve["token0"] \in Nat \ {0} /\ reserve["token1"] \in Nat
        BY <2>1, <2>6, <2>7 DEF DexTypeOK, HasReserves
      <4>2. 10000 - FeeBps \in Nat
        BY DexAssumption
      <4> DEFINE d == reserve["token0"] * Bps
      <4>3. d \in Nat \ {0}
        BY <4>1 DEF Bps
      <4>4. 0 * (10000 - FeeBps) = 0 /\ 0 * reserve["token1"] = 0
        BY <4>1, <4>2
      <4>5. q = 0 \div (d + 0)
        BY <2>6, <4>4 DEF Quote, AmountOut, Bps
      <4> QED
        BY <4>3, <4>5
    <3> QED
      BY <2>4, <2>5, <2>7, <3>1
  <2>11. CanSwap(Op.sender, "token0", Op.amountIn, Op.minOut, Op.deadline)
    BY <2>4, <2>6, <2>7, <2>9, <2>10 DEF CanSwap
  <2> DEFINE b1 == Moved(balance, "token0", Op.sender, POOL, Op.amountIn)
  <2>12. balance \in Ledger /\ Op.sender # POOL
    BY <2>1, <2>5, DexAssumption DEF DexTypeOK, Ledger
  <2>13. /\ b1 \in Ledger /\ b1["token1"][POOL] = balance["token1"][POOL]
         /\ b1["token1"][Op.sender] \in Nat
    BY <2>5, <2>6, <2>12, MovedLedger DEF Ledger
  <2>14. SwapLedger(Op.sender, "token0", Op.amountIn, q, Op.to)
           = Moved(b1, "token1", POOL, Op.sender, q)
    BY <2>6 DEF SwapLedger
  <2> HIDE DEF b1, q
  <2>15. SwapLedger(Op.sender, "token0", Op.amountIn, q, Op.to)["token1"][Op.sender]
           = b1["token1"][Op.sender] + q
    BY <2>5, <2>6, <2>8, <2>9, <2>12, <2>13, <2>14, MovedLedger
  <2>16. SwapLedger(Op.sender, "token0", Op.amountIn, q, Op.to)["token1"][Op.sender] >= Op.fee
    BY <2>4, <2>5, <2>7, <2>8, <2>13, <2>15
  <2>17. Op.approved >= Op.amountIn
    BY <2>5, <2>6
  <2> QED
    BY <2>6, <2>11, <2>16, <2>17 DEF BatchRuns, q
<1> QED
  BY <1>1, BundleInvariant, PTL

----------------------------------------------------------------------------
(* The product of the reserves.                                            *)

Product(r) == r["token0"] * r["token1"]
ProductInv == phase # "idle" => Product(reserve) >= Product(saved.reserve)

(* A batch that goes through trades once with the pool.                    *)
LEMMA BatchProduct ==
  ASSUME DexTypeOK, NEW op \in UserOp, BatchRuns(op)
  PROVE  Product(SwappedReserve(op.pair[1], op.amountIn)) >= Product(reserve)
<1> DEFINE t == op.pair[1]
           r == SwappedReserve(t, op.amountIn)
           q == Quote(t, op.amountIn)
<1>1. op.amountIn \in Nat /\ HasReserves
  BY PaymasterAssumption DEF UserOp, BatchRuns, CanSwap
<1>2. /\ t \in Token
      /\ r \in [Token -> Nat]
      /\ r[t] = reserve[t] + op.amountIn /\ r[Other(t)] = reserve[Other(t)] - q
  BY BatchEffect
<1>3. reserve[t] * reserve[Other(t)] <= r[t] * r[Other(t)]
  BY <1>1, <1>2, QuoteBounds
<1>4. /\ reserve["token0"] \in Nat /\ reserve["token1"] \in Nat
      /\ r["token0"] \in Nat /\ r["token1"] \in Nat
  BY <1>2 DEF DexTypeOK, Token
<1> HIDE DEF r, q
<1>5. CASE t = "token0"
  <2>1. reserve["token0"] * reserve["token1"] <= r["token0"] * r["token1"]
    BY <1>3, <1>5 DEF Other
  <2> QED
    BY <1>4, <2>1 DEF Product, r
<1>6. CASE t = "token1"
  <2>1. reserve["token1"] * reserve["token0"] <= r["token1"] * r["token0"]
    BY <1>3, <1>6 DEF Other
  <2>2. reserve["token0"] * reserve["token1"] <= r["token0"] * r["token1"]
    BY <1>4, <2>1
  <2> QED
    BY <1>4, <2>2 DEF Product, r
<1> QED
  BY <1>2, <1>5, <1>6 DEF Token

(* A step either rolls back to the snapshot, or takes it, or keeps it, and *)
(* then does not shrink the product.                                       *)
LEMMA ProductCases ==
  ASSUME IInv, [Next]_vars
  PROVE  \/ phase # "idle" /\ phase' = "idle" /\ reserve' = saved.reserve
         \/ phase = "idle" /\ saved'.reserve = reserve /\ reserve' = reserve
         \/ /\ phase = "idle" => phase' = "idle"
            /\ phase' # "idle" => saved' = saved
            /\ Product(reserve') >= Product(reserve)
<1>0. TypeOK /\ DexTypeOK /\ Product(reserve) >= Product(reserve)
  <2>1. TypeOK /\ DexTypeOK
    BY DEF IInv, TypeOK
  <2>2. reserve["token0"] \in Nat /\ reserve["token1"] \in Nat
    BY <2>1 DEF DexTypeOK, Token
  <2>3. Product(reserve) \in Nat
    BY <2>2 DEF Product
  <2> QED
    BY <2>1, <2>3
<1>1. ASSUME NEW n \in 1 .. MaxBundle, NEW ops \in [1 .. n -> UserOps], BeginBundle(ops)
      PROVE  phase = "idle" /\ saved'.reserve = reserve /\ reserve' = reserve
  BY <1>1 DEF BeginBundle, Snapshot, dexVars
<1>2. ASSUME Advance, phase # "idle"
      PROVE  (phase = "idle" => phase' = "idle") /\ (phase' # "idle" => saved' = saved)
  BY <1>2 DEF Advance, Idle
<1>3. CASE ValidateOp
  BY <1>0, <1>2, <1>3 DEF ValidateOp, dexVars
<1>4. CASE RejectBundle
  BY <1>4 DEF RejectBundle, Rollback, Idle
<1>5. CASE AbortBundle
  BY <1>5 DEF AbortBundle, Rollback, Idle
<1>6. CASE ExecuteOp
  <2>1. phase = "execution" /\ phase # "idle"
    BY <1>6 DEF ExecuteOp
  <2>2. Op \in UserOp
    BY <1>0, <2>1, OpType
  <2>3. ASSUME NEW cost \in 0 .. Op.maxCost, NEW reported \in 0 .. cost, OpSucceeded(cost, reported)
        PROVE  Product(reserve') >= Product(reserve) /\ Advance
    <3>1. BatchRuns(Op) /\ reserve' = SwappedReserve(Op.pair[1], Op.amountIn) /\ Advance
      BY <2>3 DEF OpSucceeded
    <3> QED
      BY <1>0, <2>2, <3>1, BatchProduct
  <2>4. ASSUME NEW cost \in 0 .. Op.maxCost, NEW reported \in 0 .. cost, OpReverted(cost, reported)
        PROVE  reserve' = reserve /\ Advance
    BY <2>4 DEF OpReverted, dexVars
  <2>5. ASSUME NEW cost \in 0 .. Op.maxCost, PostOpReverted(cost)
        PROVE  reserve' = reserve /\ Advance
    BY <2>5 DEF PostOpReverted, dexVars
  <2>6. Product(reserve') >= Product(reserve) /\ Advance
    BY <1>0, <1>6, <2>3, <2>4, <2>5 DEF ExecuteOp
  <2> QED
    BY <1>2, <2>1, <2>6
<1>7. CASE ExchangeStep
  <2>1. Traders \subseteq Users
    BY EntryPointAssumption
  <2>2. DexNext
    BY <1>7, <2>1 DEF ExchangeStep, DexNext
  <2>3. Product(reserve') >= Product(reserve)
    BY <1>0, <2>2, ProductStep DEF Product
  <2> QED
    BY <1>7, <2>3 DEF ExchangeStep, EntryPointIdle
<1>8. ASSUME EntryPointIdle, UNCHANGED dexVars
      PROVE  phase' = "idle" /\ Product(reserve') >= Product(reserve)
  BY <1>0, <1>8 DEF EntryPointIdle, dexVars
<1>9. ASSUME NEW v \in Values, Deposit(v) \/ WithdrawTo(v)
      PROVE  phase' = "idle" /\ Product(reserve') >= Product(reserve)
  BY <1>8, <1>9 DEF Deposit, WithdrawTo
<1>10. ASSUME NEW p \in Policies, OwnerSetPolicy(p)
       PROVE  phase' = "idle" /\ Product(reserve') >= Product(reserve)
  BY <1>8, <1>10 DEF OwnerSetPolicy
<1>11. ASSUME NEW p \in Prices, OwnerSetPrice(p)
       PROVE  phase' = "idle" /\ Product(reserve') >= Product(reserve)
  BY <1>8, <1>11 DEF OwnerSetPrice
<1>12. CASE UNCHANGED vars
  BY <1>0, <1>12 DEF vars, dexVars
<1> QED
  BY <1>1, <1>3, <1>4, <1>5, <1>6, <1>7, <1>9, <1>10, <1>11, <1>12 DEF Next

(* No transaction shrinks the product of the pool's reserves, be it a      *)
(* trade or a whole bundle, however many of its swaps are taken back.      *)
THEOREM ProductHeld == Spec => ProductKept
<1>1. Init => ProductInv
  BY DEF Init, ProductInv
<1>2. IInv /\ [Next]_vars =>
        \A r \in {reserve, reserve'} : Product(r) \in Nat
  <2> SUFFICES ASSUME IInv, [Next]_vars
               PROVE  \A r \in {reserve, reserve'} : Product(r) \in Nat
    OBVIOUS
  <2>1. TypeOK /\ PoolCovered
    BY DEF IInv, BooksOK, Snapshot, PoolCovered
  <2>2. DexTypeOK /\ DexTypeOK'
    BY <2>1, TypeStep DEF TypeOK
  <2>3. /\ reserve["token0"] \in Nat /\ reserve["token1"] \in Nat
        /\ reserve'["token0"] \in Nat /\ reserve'["token1"] \in Nat
    BY <2>2 DEF DexTypeOK, Token
  <2>4. Product(reserve) \in Nat /\ Product(reserve') \in Nat
    BY <2>3 DEF Product
  <2> QED
    BY <2>4
<1>3. IInv => (phase # "idle" => Product(saved.reserve) \in Nat)
  <2> SUFFICES ASSUME IInv, phase # "idle" PROVE Product(saved.reserve) \in Nat
    OBVIOUS
  <2>1. saved \in Snapshots
    BY DEF IInv, TypeOK
  <2>2. saved.reserve["token0"] \in Nat /\ saved.reserve["token1"] \in Nat
    BY <2>1 DEF Snapshots, Token
  <2> QED
    BY <2>2 DEF Product
<1>4. IInv /\ ProductInv /\ [Next]_vars =>
        /\ ProductInv'
        /\ phase' = "idle" => Product(reserve') >= Product(Committed)
  <2> SUFFICES ASSUME IInv, ProductInv, [Next]_vars
               PROVE  /\ ProductInv'
                      /\ phase' = "idle" => Product(reserve') >= Product(Committed)
    OBVIOUS
  <2>1. /\ Product(reserve) \in Nat /\ Product(reserve') \in Nat
        /\ phase # "idle" => Product(saved.reserve) \in Nat
    BY <1>2, <1>3
  <2>2. CASE phase # "idle" /\ phase' = "idle" /\ reserve' = saved.reserve
    BY <2>1, <2>2 DEF ProductInv, Committed
  <2>3. CASE phase = "idle" /\ saved'.reserve = reserve /\ reserve' = reserve
    BY <2>1, <2>3 DEF ProductInv, Committed
  <2>4. CASE /\ phase = "idle" => phase' = "idle"
             /\ phase' # "idle" => saved' = saved
             /\ Product(reserve') >= Product(reserve)
    BY <2>1, <2>4 DEF ProductInv, Committed
  <2> QED
    BY <2>2, <2>3, <2>4, ProductCases
<1>5. IInv /\ ProductInv /\ [Next]_vars =>
        [phase' = "idle" => reserve'["token0"] * reserve'["token1"]
                              >= Committed["token0"] * Committed["token1"]]_vars
  BY <1>4 DEF Product
<1> QED
  BY <1>1, <1>4, <1>5, BundleInvariant, PTL DEF Spec, ProductKept
============================================================================
