--------------------------- MODULE ServiceProofs ---------------------------
(***************************************************************************)
(* For any prices, amounts, loops and requests, a quote that is served is  *)
(* sponsored; for any bundle and any moves of the chain, the blame for its *)
(* failure is fair, and a refusal is explained; for any numbers of         *)
(* wallets, blocks, syncs, pages and operations, what the monitor lists of *)
(* wallets is current, the sessions that it counts are pages, its users    *)
(* and their totals agree, and the status that it shows adds up.           *)
(***************************************************************************)
EXTENDS QuoteService, BundleSubmission, WalletTraffic, Telemetry, PaymasterStatus, Induction

(* Naturals have a least one.                                              *)
LEMMA First ==
  ASSUME NEW S \in SUBSET Nat, S # {}
  PROVE \E m \in S : \A n \in S : m <= n
<1> DEFINE Below(b) == {c \in S : c < b}
           R == StrictSubsetOrdering(S)
           T == {Below(b) : b \in S}
<1>1. IsWellFoundedOn(R, FiniteSubsetsOf(S))
  BY FS_StrictSubsetOrderingWellFounded
<1>2. ASSUME NEW b \in S PROVE Below(b) \in SUBSET S /\ IsFiniteSet(Below(b))
  <2>1. Below(b) \in SUBSET S /\ 0 \in Int /\ b \in Int
    OBVIOUS
  <2>3. \A c \in Below(b) : c \in 0 .. b
    OBVIOUS
  <2> HIDE DEF Below
  <2>2. IsFiniteSet(0 .. b)
    BY <2>1, FS_Interval
  <2> QED
    BY <2>1, <2>2, <2>3, FS_Subset
<1>3. T \subseteq FiniteSubsetsOf(S) /\ T # {}
  BY <1>2 DEF FiniteSubsetsOf
<1> HIDE DEF R, T
<1>4. PICK A \in T : \A B \in T : <<B, A>> \notin R
  BY <1>1, <1>3, WFMin
<1>5. PICK m \in S : A = Below(m)
  BY DEF T
<1>6. ASSUME NEW c \in S, c < m PROVE FALSE
  <2>1. \A d \in Below(c) : d \in Below(m)
    BY <1>6
  <2>2. c \in Below(m) /\ c \notin Below(c)
    BY <1>6
  <2>3. Below(c) \in T /\ Below(c) \subseteq S /\ Below(m) \subseteq S
    BY <1>2 DEF T
  <2> HIDE DEF Below
  <2>4. <<Below(c), A>> \in R
    BY <1>5, <2>1, <2>2, <2>3 DEF R, StrictSubsetOrdering
  <2> QED
    BY <1>4, <2>3, <2>4
<1> QED
  BY <1>6

----------------------------------------------------------------------------
(* Quotes.                                                                 *)

LoopType == [at : {"idle", "decimals", "send", "wait", "mined", "replaced"}, i : Nat, nonce : Int]
RequestType == [at : {"price", "decimals"}, token : Tokens, amountIn : Nat, slippageBps : Nat,
                createdAt : Nat, deadline : Nat, price : Nat]

(* What is on the feed, or on its way there, is a price of a token.        *)
FeedOK ==
  /\ price \in [Tokens -> Nat]
  /\ IsFiniteSet(DOMAIN pool) /\ DOMAIN pool \subseteq Int
  /\ \A n \in DOMAIN pool : pool[n].token \in Tokens /\ pool[n].price \in Nat
LoopsOK ==
  /\ loop \in [Loops -> LoopType]
  /\ \A l \in Loops : loop[l].at # "idle" => loop[l].i \in 1 .. Len(Symbols)
RequestsOK ==
  /\ DOMAIN request = Requests
  /\ \A r \in Requests : request[r].at \in {"price", "decimals"} => request[r] \in RequestType

(* A stored quote is what its request makes of the price that it carries.  *)
QuotesOK ==
  \A r \in DOMAIN quotes :
    /\ quotes[r].amountIn \in Nat /\ quotes[r].slippageBps \in Nat /\ quotes[r].price \in Nat
    /\ quotes[r].minOut = MinOut(quotes[r])
    /\ quotes[r].expiresAt = quotes[r].deadline /\ quotes[r].deadline \in Nat
QuoteInv == clock \in Nat /\ FeedOK /\ LoopsOK /\ RequestsOK /\ QuotesOK


(* A pool of n transactions leaves one of the first n + 1 nonces.          *)
LEMMA NonceIs == ASSUME FeedOK PROVE PendingNonce \in Nat
<1> USE QuoteAssumption
<1> DEFINE D == DOMAIN pool
           N == Cardinality(D)
           Free == {n \in 0 .. N : n \notin D}
<1>1. IsFiniteSet(D) /\ N \in Nat
  BY FS_CardinalityType DEF FeedOK
<1>2. Free # {}
  <2> SUFFICES ASSUME Free = {} PROVE FALSE
    OBVIOUS
  <2>1. 0 .. N \subseteq D
    OBVIOUS
  <2>2. IsFiniteSet(0 .. N) /\ Cardinality(0 .. N) = N + 1
    BY <1>1, FS_Interval
  <2>3. Cardinality(0 .. N) <= N
    BY <1>1, <2>1, FS_Subset
  <2> QED
    BY <1>1, <2>2, <2>3
<1>3. Free \in SUBSET Nat
  BY <1>1
<1>4. PICK m \in Free : \A n \in Free : m <= n
  BY <1>2, <1>3, First
<1>5. \A k \in 0 .. m - 1 : k \in D
  BY <1>1, <1>4
<1>6. \E n \in 0 .. N : n \notin D /\ \A k \in 0 .. n - 1 : k \in D
  BY <1>4, <1>5
<1>7. PendingNonce \in 0 .. N
  BY <1>6, Zenon DEF PendingNonce
<1> QED
  BY <1>1, <1>7

LEMMA FeedAdds ==
  ASSUME FeedOK, NEW n \in Int, NEW tx, tx.token \in Tokens, tx.price \in Nat, Add(n, tx), price' = price
  PROVE FeedOK'
<1> USE QuoteAssumption
<1>1. /\ DOMAIN pool' = DOMAIN pool \cup {n}
      /\ \A k \in DOMAIN pool' : pool'[k] = IF k = n THEN tx ELSE pool[k]
  BY DEF Add
<1>2. IsFiniteSet(DOMAIN pool')
  <2>1. IsFiniteSet(DOMAIN pool)
    BY DEF FeedOK
  <2>2. IsFiniteSet(DOMAIN pool \cup {n})
    BY <2>1, FS_AddElement
  <2> QED
    BY <1>1, <2>2
<1> QED
  BY <1>1, <1>2 DEF FeedOK

LEMMA FeedMined == ASSUME FeedOK, Mine PROVE FeedOK'
<1> USE QuoteAssumption
<1>1. 0 \in DOMAIN pool /\ price' = [price EXCEPT ![pool[0].token] = pool[0].price]
      /\ pool' = [n \in {m - 1 : m \in DOMAIN pool \ {0}} |-> pool[n + 1]]
  BY DEF Mine
<1>2. price' \in [Tokens -> Nat]
  BY <1>1 DEF FeedOK
<1>3. ASSUME NEW n \in DOMAIN pool' PROVE n \in Int /\ n + 1 \in DOMAIN pool /\ pool'[n] = pool[n + 1]
  <2>1. pool'[n] = pool[n + 1]
    BY <1>1
  <2>2. PICK m \in DOMAIN pool \ {0} : n = m - 1
    BY <1>1
  <2>3. m \in Int
    BY DEF FeedOK
  <2> QED
    BY <2>1, <2>2, <2>3
<1>4. IsFiniteSet(DOMAIN pool')
  <2> DEFINE f == [m \in DOMAIN pool \ {0} |-> m - 1]
  <2>1. f \in Surjection(DOMAIN pool \ {0}, DOMAIN pool')
    <3>1. DOMAIN pool' = {m - 1 : m \in DOMAIN pool \ {0}}
      BY <1>1
    <3> QED
      BY <3>1 DEF Surjection
  <2>2. IsFiniteSet(DOMAIN pool \ {0})
    BY FS_Difference DEF FeedOK
  <2> HIDE DEF f
  <2> QED
    BY <2>1, <2>2, FS_Surjection
<1> QED
  BY <1>2, <1>3, <1>4 DEF FeedOK

LEMMA SymbolsAre == Len(Symbols) \in Nat \ {0} /\ \A i \in 1 .. Len(Symbols) : Symbols[i] \in Tokens
  BY QuoteAssumption

LEMMA NextTokenIs == ASSUME LoopsOK, NEW l \in Loops, NextToken(l), loop[l].at # "idle" PROVE LoopsOK'
<1> USE QuoteAssumption
<1>1. loop[l] \in LoopType /\ loop[l].i \in 1 .. Len(Symbols)
  BY DEF LoopsOK
<1> DEFINE next == IF loop[l].i = Len(Symbols) THEN Idle
                   ELSE [at |-> "decimals", i |-> loop[l].i + 1, nonce |-> 0]
<1>2. loop' = [loop EXCEPT ![l] = next]
  BY DEF NextToken
<1>3. next \in LoopType /\ (next.at # "idle" => next.i \in 1 .. Len(Symbols))
  BY <1>1, SymbolsAre DEF Idle, LoopType
<1> HIDE DEF next
<1> QED
  BY <1>2, <1>3 DEF LoopsOK

LEMMA FeedKept == QuoteInv /\ QuoteNext => FeedOK'
<1> USE QuoteAssumption
<1> SUFFICES ASSUME QuoteInv, QuoteNext PROVE FeedOK'
  OBVIOUS
<1> USE DEF QuoteInv
<1>1. CASE Mine
  BY <1>1, FeedMined
<1>2. CASE SetByHand
  <2>1. PICK t \in Tokens, p \in OtherPrices : Add(PendingNonce, [token |-> t, price |-> p, by |-> 0])
    BY <1>2 DEF SetByHand
  <2>2. price' = price /\ p \in Nat
    BY <1>2 DEF SetByHand
  <2> QED
    BY <2>1, <2>2, NonceIs, FeedAdds
<1>3. ASSUME NEW l \in Loops, Send(l) PROVE FeedOK'
  <2>1. price' = price /\ loop[l].at # "idle"
    BY <1>3 DEF Send
  <2>2. loop[l].nonce \in Int /\ loop[l].i \in 1 .. Len(Symbols)
    BY <2>1 DEF LoopsOK, LoopType
  <2>3. CASE pool' = pool
    BY <2>1, <2>3 DEF FeedOK
  <2> DEFINE t == Symbols[loop[l].i]
             tx == [token |-> t, price |-> FetchedPrice[t], by |-> l]
  <2>4. tx.token \in Tokens /\ tx.price \in Nat
    BY <2>2, SymbolsAre
  <2>5. CASE Add(loop[l].nonce, tx)
    <3> HIDE DEF tx
    <3> QED
      BY <2>1, <2>2, <2>4, <2>5, FeedAdds
  <2> QED
    BY <1>3, <2>3, <2>5 DEF Send
<1>4. CASE UNCHANGED chainVars
  BY <1>4 DEF chainVars, FeedOK
<1>5. ASSUME NEW l \in Loops, RunLoop(l) \/ NonceRead(l) \/ Wait(l) \/ LoopRequestFails(l)
      PROVE UNCHANGED chainVars
  BY <1>5 DEF RunLoop, NonceRead, Wait, LoopRequestFails, chainVars
<1>6. ASSUME NEW r \in Requests, Quote(r) \/ PriceRead(r) \/ Quoted(r) \/ QuoteRequestFails(r)
      PROVE UNCHANGED chainVars
  BY <1>6 DEF Quote, PriceRead, Quoted, QuoteRequestFails, chainVars
<1>7. ClockTicks \/ Start => UNCHANGED chainVars
  BY DEF ClockTicks, Start, chainVars
<1> QED
  BY <1>1, <1>2, <1>3, <1>4, <1>5, <1>6, <1>7 DEF QuoteNext

LEMMA LoopsKept == QuoteInv /\ QuoteNext => LoopsOK'
<1> USE QuoteAssumption
<1> SUFFICES ASSUME QuoteInv, QuoteNext PROVE LoopsOK'
  OBVIOUS
<1> USE DEF QuoteInv
<1> DEFINE Begun == [at |-> "decimals", i |-> 1, nonce |-> 0]
<1>0. Begun \in LoopType /\ Begun.i \in 1 .. Len(Symbols)
  BY SymbolsAre DEF LoopType
<1>1. ASSUME NEW l \in Loops, NEW c \in LoopType, c.i \in 1 .. Len(Symbols),
             loop' = [loop EXCEPT ![l] = c]
      PROVE LoopsOK'
  BY <1>1 DEF LoopsOK
<1> HIDE DEF Begun
<1>2. CASE Start
  BY <1>0, <1>1, <1>2 DEF Start, Begun
<1>3. ASSUME NEW l \in Loops, RunLoop(l) PROVE LoopsOK'
  BY <1>0, <1>1, <1>3 DEF RunLoop, Begun
<1>4. ASSUME NEW l \in Loops, NonceRead(l) PROVE LoopsOK'
  <2> DEFINE c == [loop[l] EXCEPT !.at = "send", !.nonce = PendingNonce]
  <2>1. loop[l] \in LoopType /\ loop[l].i \in 1 .. Len(Symbols) /\ PendingNonce \in Int
    BY <1>4, NonceIs DEF NonceRead, LoopsOK
  <2>2. c \in LoopType /\ c.i = loop[l].i
    BY <2>1 DEF LoopType
  <2>3. loop' = [loop EXCEPT ![l] = c]
    BY <1>4 DEF NonceRead
  <2> HIDE DEF c
  <2> QED
    BY <1>1, <2>1, <2>2, <2>3
<1>5. ASSUME NEW l \in Loops, loop[l].at # "idle", NextToken(l) PROVE LoopsOK'
  BY <1>5, NextTokenIs
<1>6. ASSUME NEW l \in Loops, Send(l) PROVE LoopsOK'
  <2>1. loop[l].at # "idle"
    BY <1>6 DEF Send
  <2> DEFINE c == [loop[l] EXCEPT !.at = "wait"]
  <2>2. loop[l] \in LoopType /\ loop[l].i \in 1 .. Len(Symbols)
    BY <2>1 DEF LoopsOK
  <2>3. c \in LoopType /\ c.i = loop[l].i
    BY <2>2 DEF LoopType
  <2>4. NextToken(l) \/ loop' = [loop EXCEPT ![l] = c]
    BY <1>6 DEF Send, TokenFails
  <2> HIDE DEF c
  <2> QED
    BY <1>1, <1>5, <2>1, <2>2, <2>3, <2>4
<1>7. ASSUME NEW l \in Loops, Wait(l) \/ LoopRequestFails(l) PROVE LoopsOK'
  BY <1>5, <1>7 DEF Wait, LoopRequestFails, TokenFails, TokenUpdated
<1>8. CASE Mine
  <2>1. ASSUME NEW l \in Loops
        PROVE /\ loop'[l] \in LoopType /\ loop'[l].i = loop[l].i
              /\ loop'[l].at # "idle" => loop[l].at # "idle"
    <3> DEFINE a == IF pool[0].by = l THEN "mined" ELSE "replaced"
               c == [loop[l] EXCEPT !.at = a]
               d == [loop[l] EXCEPT !.nonce = @ - 1]
    <3>1. a \in {"mined", "replaced"} /\ loop[l] \in LoopType
      BY DEF LoopsOK
    <3>2. loop'[l] = loop[l] \/ (loop'[l] = c /\ loop[l].at = "wait") \/ loop'[l] = d
      BY <1>8 DEF Mine
    <3> HIDE DEF a
    <3>3. c \in LoopType /\ c.i = loop[l].i
      BY <3>1 DEF LoopType
    <3>4. loop[l].nonce - 1 \in Int
      BY <3>1 DEF LoopType
    <3>5. d \in LoopType /\ d.i = loop[l].i /\ d.at = loop[l].at
      BY <3>1, <3>4 DEF LoopType
    <3> HIDE DEF c, d
    <3> QED
      BY <3>1, <3>2, <3>3, <3>5
  <2>2. loop' = [l \in Loops |-> loop'[l]]
    BY <1>8 DEF Mine
  <2>3. loop' \in [Loops -> LoopType]
    BY <2>1, <2>2
  <2> QED
    BY <2>1, <2>3 DEF LoopsOK
<1>9. CASE UNCHANGED loop
  BY <1>9 DEF LoopsOK
<1>10. ASSUME NEW r \in Requests, Quote(r) \/ PriceRead(r) \/ Quoted(r) \/ QuoteRequestFails(r)
       PROVE UNCHANGED loop
  BY <1>10 DEF Quote, PriceRead, Quoted, QuoteRequestFails, oracleVars
<1>11. ClockTicks \/ SetByHand => UNCHANGED loop
  BY DEF ClockTicks, SetByHand, oracleVars
<1> QED
  BY <1>2, <1>3, <1>4, <1>6, <1>7, <1>8, <1>9, <1>10, <1>11 DEF QuoteNext

LEMMA RequestsKept == QuoteInv /\ QuoteNext => RequestsOK' /\ QuotesOK' /\ clock' \in Nat
<1> USE QuoteAssumption
<1> SUFFICES ASSUME QuoteInv, QuoteNext PROVE RequestsOK' /\ QuotesOK' /\ clock' \in Nat
  OBVIOUS
<1> USE DEF QuoteInv
<1>1. CASE UNCHANGED <<request, quotes>> /\ clock' \in Nat
  BY <1>1 DEF RequestsOK, QuotesOK, MinOut, ExpectedOut
<1>2. ASSUME NEW r \in Requests, NEW c, c.at \in {"price", "decimals"} => c \in RequestType,
             request' = [request EXCEPT ![r] = c]
      PROVE RequestsOK'
  BY <1>2 DEF RequestsOK
<1>3. ASSUME quotes' = quotes PROVE QuotesOK'
  BY <1>3 DEF QuotesOK, MinOut, ExpectedOut
<1>4. ASSUME NEW r \in Requests, Quote(r) PROVE RequestsOK' /\ QuotesOK' /\ clock' \in Nat
  <2>1. PICK t \in Tokens, a \in AmountsIn, s \in Slippages :
          request' = [request EXCEPT ![r] =
            [at |-> "price", token |-> t, amountIn |-> a, slippageBps |-> s,
             createdAt |-> clock, deadline |-> clock + quoteTtlSec, price |-> 0]]
    BY <1>4 DEF Quote
  <2> DEFINE c == [at |-> "price", token |-> t, amountIn |-> a, slippageBps |-> s,
                   createdAt |-> clock, deadline |-> clock + quoteTtlSec, price |-> 0]
  <2>2. clock + quoteTtlSec \in Nat /\ a \in Nat /\ s \in Nat
    OBVIOUS
  <2>3. c \in RequestType
    BY <2>2 DEF RequestType
  <2>4. request' = [request EXCEPT ![r] = c]
    BY <2>1
  <2> HIDE DEF c
  <2> QED
    BY <1>2, <1>3, <1>4, <2>3, <2>4 DEF Quote
<1>5. ASSUME NEW r \in Requests, PriceRead(r) PROVE RequestsOK' /\ QuotesOK' /\ clock' \in Nat
  <2> DEFINE c == IF price[request[r].token] = 0 THEN [at |-> "failed"]
                  ELSE [request[r] EXCEPT !.at = "decimals", !.price = price[request[r].token]]
  <2>1. request[r] \in RequestType
    BY <1>5 DEF PriceRead, RequestsOK
  <2>2. price[request[r].token] \in Nat
    BY <2>1 DEF RequestType, FeedOK
  <2>3. c.at \in {"price", "decimals"} => c \in RequestType
    <3>1. CASE c = [at |-> "failed"]
      BY <3>1
    <3>2. CASE c = [request[r] EXCEPT !.at = "decimals", !.price = price[request[r].token]]
      BY <2>1, <2>2, <3>2 DEF RequestType
    <3> QED
      BY <3>1, <3>2
  <2>4. request' = [request EXCEPT ![r] = c]
    BY <1>5 DEF PriceRead
  <2> HIDE DEF c
  <2> QED
    BY <1>2, <1>3, <1>5, <2>3, <2>4 DEF PriceRead
<1>6. ASSUME NEW r \in Requests, Quoted(r) PROVE RequestsOK' /\ QuotesOK' /\ clock' \in Nat
  <2> DEFINE q == [token |-> request[r].token, amountIn |-> request[r].amountIn,
                   slippageBps |-> request[r].slippageBps, price |-> request[r].price,
                   minOut |-> MinOut(request[r]), expiresAt |-> request[r].deadline,
                   deadline |-> request[r].deadline]
  <2>1. request[r] \in RequestType
    BY <1>6 DEF Quoted, RequestsOK
  <2>2. /\ q.amountIn \in Nat /\ q.slippageBps \in Nat /\ q.price \in Nat
        /\ q.expiresAt = q.deadline /\ q.deadline \in Nat
    BY <2>1 DEF RequestType
  <2>3. q.minOut = MinOut(q)
    BY DEF MinOut, ExpectedOut
  <2>4. quotes' = [k \in DOMAIN quotes \cup {r} |-> IF k = r THEN q ELSE quotes[k]]
    BY <1>6 DEF Quoted
  <2> HIDE DEF q
  <2>5. \A k \in DOMAIN quotes' : quotes'[k] = q \/ (k \in DOMAIN quotes /\ quotes'[k] = quotes[k])
    BY <2>4
  <2>6. QuotesOK'
    <3> SUFFICES ASSUME NEW k \in DOMAIN quotes'
                 PROVE /\ quotes'[k].amountIn \in Nat /\ quotes'[k].slippageBps \in Nat
                       /\ quotes'[k].price \in Nat /\ quotes'[k].minOut = MinOut(quotes'[k])
                       /\ quotes'[k].expiresAt = quotes'[k].deadline /\ quotes'[k].deadline \in Nat
      BY DEF QuotesOK, MinOut, ExpectedOut
    <3> QED
      BY <2>2, <2>3, <2>5 DEF QuotesOK
  <2> DEFINE c == [at |-> "answered"]
  <2>7. c.at = "answered" /\ request' = [request EXCEPT ![r] = c] /\ clock' = clock
    BY <1>6 DEF Quoted
  <2> HIDE DEF c
  <2> QED
    BY <1>2, <2>6, <2>7
<1>7. ASSUME NEW r \in Requests, QuoteRequestFails(r) PROVE RequestsOK' /\ QuotesOK' /\ clock' \in Nat
  <2> DEFINE c == [at |-> "failed"]
  <2>1. c.at = "failed" /\ request' = [request EXCEPT ![r] = c] /\ clock' = clock /\ quotes' = quotes
    BY <1>7 DEF QuoteRequestFails
  <2> HIDE DEF c
  <2> QED
    BY <1>2, <1>3, <2>1
<1>8. ASSUME NEW l \in Loops, RunLoop(l) \/ NonceRead(l) \/ Send(l) \/ Wait(l) \/ LoopRequestFails(l)
      PROVE UNCHANGED <<request, quotes>> /\ clock' \in Nat
  BY <1>8 DEF RunLoop, NonceRead, Send, Wait, LoopRequestFails, quoteVars
<1>9. Mine \/ SetByHand \/ ClockTicks \/ Start => UNCHANGED <<request, quotes>> /\ clock' \in Nat
  BY DEF Mine, SetByHand, ClockTicks, Start, quoteVars
<1> QED
  BY <1>1, <1>4, <1>5, <1>6, <1>7, <1>8, <1>9 DEF QuoteNext

(* QuoteInv is inductive.                                                  *)
THEOREM QuoteInvariant == QuoteSpec => []QuoteInv
<1> USE QuoteAssumption
<1>1. QuoteInit => QuoteInv
  <2> SUFFICES ASSUME QuoteInit PROVE QuoteInv
    OBVIOUS
  <2>1. Idle \in LoopType /\ Idle.at = "idle"
    BY DEF Idle, LoopType
  <2>2. DOMAIN pool = {} /\ IsFiniteSet({})
    BY FS_EmptySet DEF QuoteInit
  <2>3. FeedOK
    BY <2>2 DEF QuoteInit, FeedOK
  <2>4. LoopsOK
    BY <2>1 DEF QuoteInit, LoopsOK
  <2> QED
    BY <2>3, <2>4 DEF QuoteInit, QuoteInv, RequestsOK, QuotesOK
<1>2. QuoteInv /\ UNCHANGED allQuoteVars => QuoteInv'
  BY DEF allQuoteVars, QuoteInv, FeedOK, LoopsOK, RequestsOK, QuotesOK, MinOut, ExpectedOut
<1>3. QuoteInv /\ [QuoteNext]_allQuoteVars => QuoteInv'
  BY <1>2, FeedKept, LoopsKept, RequestsKept DEF QuoteInv
<1> QED
  BY <1>1, <1>3, PTL DEF QuoteSpec

(* What the quote service leaves of the expected amount, with a slippage   *)
(* up to 4.7%, is at least the paymaster's 95%.                            *)
LEMMA RoundedDown ==
  ASSUME NEW e \in Nat, NEW s \in Nat, s <= 470
  PROVE LET scaled == e * (Bps - (s + 30))
        IN scaled >= 0 /\ scaled \in Nat /\ scaled \div Bps >= (e * 95) \div 100
<1> USE QuoteAssumption
<1> DEFINE f == Bps - (s + 30)
<1>1. f \in Nat /\ f >= 9500
  BY DEF Bps
<1> HIDE DEF f
<1>2. e * f \in Nat /\ e * f >= e * 9500
  BY <1>1
<1>3. (e * 9500) \div 10000 = (e * 95) \div 100
  OBVIOUS
<1>4. (e * f) \div 10000 >= (e * 9500) \div 10000
  <2> DEFINE x == e * f
             y == e * 9500
  <2>1. x \in Nat /\ y \in Nat /\ x >= y
    BY <1>2
  <2> HIDE DEF x, y
  <2>2. x \div 10000 >= y \div 10000
    BY <2>1
  <2> QED
    BY <2>2 DEF x, y
<1> QED
  BY <1>2, <1>3, <1>4 DEF f, Bps

(* For any prices, amounts, loops and requests: a quote that is still      *)
(* served is taken by router and paymaster while its price holds.          *)
THEOREM QuotesAreSponsored == QuoteSpec => []ServedIsSponsored
<1> USE QuoteAssumption
<1>1. QuoteInv => ServedIsSponsored
  <2> SUFFICES ASSUME QuoteInv, NEW r \in Requests, Serves(r), quotes[r].slippageBps <= 470,
                      quotes[r].price = price[quotes[r].token]
               PROVE RouterAccepts(quotes[r]) /\ PaymasterAccepts(quotes[r])
    BY DEF ServedIsSponsored
  <2> DEFINE q == quotes[r]
  <2>1. /\ q.amountIn \in Nat /\ q.slippageBps \in Nat /\ q.price \in Nat
        /\ q.minOut = MinOut(q) /\ q.expiresAt = q.deadline /\ q.deadline \in Nat
        /\ ~(q.expiresAt < clock) /\ clock \in Nat
    BY DEF QuoteInv, QuotesOK, Serves
  <2>2. FairOut(q) = ExpectedOut(q)
    BY DEF FairOut, ExpectedOut
  <2> HIDE DEF q
  <2>3. RouterAccepts(q)
    BY <2>1 DEF RouterAccepts
  <2>4. ExpectedOut(q) \in Nat
    <3>1. q.amountIn * q.price \in Nat /\ OracleUnit \in Nat \ {0}
      BY <2>1
    <3> DEFINE n == q.amountIn * q.price
    <3>2. n \in Nat
      BY <3>1
    <3> HIDE DEF n
    <3>3. n \div OracleUnit \in Nat
      BY <3>2
    <3> QED
      BY <3>3 DEF ExpectedOut, n
  <2>5. q.slippageBps <= 470
    BY DEF q
  <2>6. MinOut(q) >= (ExpectedOut(q) * 95) \div 100
    <3> DEFINE scaled == ExpectedOut(q) * (Bps - (q.slippageBps + 30))
    <3>1. scaled >= 0 /\ scaled \in Nat /\ scaled \div Bps >= (ExpectedOut(q) * 95) \div 100
      BY <2>1, <2>4, <2>5, RoundedDown
    <3>2. MinOut(q) = IF scaled < 0 THEN -((-scaled) \div Bps) ELSE scaled \div Bps
      BY DEF MinOut
    <3> HIDE DEF scaled
    <3>3. MinOut(q) = scaled \div Bps
      BY <3>1, <3>2
    <3> QED
      BY <3>1, <3>3
  <2>7. PaymasterAccepts(q)
    BY <2>1, <2>2, <2>6 DEF PaymasterAccepts
  <2> QED
    BY <2>3, <2>7 DEF q
<1> QED
  BY <1>1, QuoteInvariant, PTL

----------------------------------------------------------------------------
(* Bundles that fail.                                                      *)

Reverts ==
  [error : {"FailedOp"}, opIndex : Nat, reason : {"AA25", "AA32"}] \cup
  [error : {"FailedOpWithRevert"}, opIndex : Nat, reason : {"AA33"}, inner : {"SlippageRisk", "Error"}]
ChainOK(c) == c \in Chains /\ LastPassed(c)
Earlier(c, d) ==
  c.now <= d.now /\ \A s \in OpSenders : c.nonce[s] <= d.nonce[s] /\ c.last[s] <= d.last[s]

(* What an error says of an operation is true on a chain.                  *)
Blamed(c, e) ==
  LET k == e.opIndex + 1
  IN /\ k \in Positions
     /\ e.reason = "AA25" => NonceUsed(c, k) \/ NonceTooHigh(c, k)
     /\ e.reason = "AA32" => OutOfTime(c, k) \/ WithinDelay(c, k, c.delay)

AttemptOK ==
  /\ DOMAIN attempt = {"at", "beneficiary", "type", "error", "state", "report"}
  /\ attempt.at \in {"selected", "building", "waiting"} => cause = NoError
  /\ attempt.at \in {"selected", "building", "waiting", "reverted"} =>
       attempt.state = NoError /\ attempt.error = Absent
  /\ attempt.at = "failing" /\ attempt.error # Absent =>
       cause # NoError /\ attempt.error \in Carried(cause.revert)
  /\ attempt.at # "over" => attempt.report = NoError

(* The bundle has failed on a chain since its selection, and is replayed   *)
(* on the same or a later one.                                             *)
CauseOK ==
  /\ cause # NoError =>
       /\ cause.revert \in Reverts /\ Blamed(cause.chain, cause.revert)
       /\ ChainOK(cause.chain) /\ Earlier(selected, cause.chain) /\ Earlier(cause.chain, chain)
  /\ attempt.state # NoError =>
       /\ ChainOK(attempt.state) /\ Earlier(selected, attempt.state) /\ Earlier(attempt.state, chain)
       /\ cause # NoError => Earlier(cause.chain, attempt.state)

SubmissionInv ==
  /\ bundle \in Bundles
  /\ ChainOK(chain) /\ ChainOK(selected) /\ Earlier(selected, chain)
  /\ AttemptOK /\ CauseOK /\ BlameIsFair

LEMMA PositionsAre ==
  ASSUME bundle \in Bundles
  PROVE /\ Positions \subseteq Nat \ {0} /\ IsFiniteSet(Positions)
        /\ \A k \in Positions : bundle[k] \in BundledOps
<1> USE SubmissionAssumption
<1>1. bundle \in Seq(BundledOps)
  OBVIOUS
<1>2. DOMAIN bundle = 1 .. Len(bundle) /\ Len(bundle) \in Nat
  BY <1>1
<1>3. IsFiniteSet(1 .. Len(bundle))
  BY <1>2, FS_Interval
<1>4. \A k \in 1 .. Len(bundle) : bundle[k] \in BundledOps
  BY <1>1
<1> QED
  BY <1>2, <1>3, <1>4 DEF Positions

LEMMA LeastIs ==
  ASSUME NEW S \in SUBSET Nat, S # {}
  PROVE Min(S) \in S /\ \A n \in S : Min(S) <= n
<1> USE SubmissionAssumption
<1>1. \E m \in S : \A n \in S : m <= n
  BY First
<1> QED
  BY <1>1, Zenon DEF Min

(* The nonce that is wanted is a number.                                   *)
LEMMA DueIs ==
  ASSUME bundle \in Bundles, NEW c \in Chains, NEW ops \in SUBSET Positions, NEW k \in Positions
  PROVE NonceDue(c, ops, k) \in Nat /\ bundle[k].nonce \in Nat
<1> USE SubmissionAssumption
<1> DEFINE Before == {j \in ops : j < k /\ bundle[j].sender = bundle[k].sender}
<1>1. bundle[k] \in BundledOps /\ IsFiniteSet(Positions)
  BY PositionsAre
<1>2. Before \subseteq Positions
  OBVIOUS
<1> HIDE DEF Before
<1>3. Cardinality(Before) \in Nat
  BY <1>1, <1>2, FS_Subset, FS_CardinalityType
<1>4. c.nonce[bundle[k].sender] \in Nat /\ bundle[k].nonce \in Nat
  BY <1>1 DEF Chains, BundledOps
<1> QED
  BY <1>3, <1>4 DEF NonceDue, Before

(* A used nonce and a passed deadline stay so; a nonce that is too high    *)
(* has always been; a delay is longest for who has swapped last.           *)
LEMMA LaterIs ==
  ASSUME bundle \in Bundles, NEW c, NEW d, ChainOK(c), ChainOK(d), Earlier(c, d), NEW k \in Positions
  PROVE /\ NonceUsed(c, k) => NonceUsed(d, k)
        /\ NonceTooHigh(d, k) => NonceTooHigh(c, k)
        /\ OutOfTime(c, k) => OutOfTime(d, k)
<1> USE SubmissionAssumption
<1> DEFINE n == Cardinality({j \in Positions : j < k /\ bundle[j].sender = bundle[k].sender})
           s == bundle[k].sender
<1>1. bundle[k] \in BundledOps
  BY PositionsAre
<1>2. c \in Chains /\ d \in Chains
  BY DEF ChainOK
<1>3. /\ NonceDue(c, Positions, k) = c.nonce[s] + n
      /\ NonceDue(d, Positions, k) = d.nonce[s] + n
  BY DEF NonceDue
<1>4. n \in Nat
  <2>1. IsFiniteSet(Positions)
    BY PositionsAre
  <2>2. {j \in Positions : j < k /\ bundle[j].sender = bundle[k].sender} \subseteq Positions
    OBVIOUS
  <2> QED
    BY <2>1, <2>2, FS_Subset, FS_CardinalityType
<1>5. s \in OpSenders /\ bundle[k].nonce \in Nat /\ bundle[k].deadline \in Nat
  BY <1>1 DEF BundledOps
<1>6. c.nonce[s] \in Nat /\ d.nonce[s] \in Nat /\ c.nonce[s] <= d.nonce[s]
      /\ c.now \in Nat /\ d.now \in Nat /\ c.now <= d.now
  BY <1>2, <1>5 DEF Chains, Earlier
<1> HIDE DEF n, s
<1>7. (NonceUsed(c, k) => NonceUsed(d, k)) /\ (NonceTooHigh(d, k) => NonceTooHigh(c, k))
  <2> DEFINE x == NonceDue(c, Positions, k)
             y == NonceDue(d, Positions, k)
             z == bundle[k].nonce
             p == c.nonce[s]
             q == d.nonce[s]
  <2>1. x \in Nat /\ y \in Nat /\ x <= y /\ z \in Nat
    <3>1. x = p + n /\ y = q + n /\ z \in Nat /\ p \in Nat /\ q \in Nat /\ p <= q
      BY <1>3, <1>5, <1>6
    <3> HIDE DEF x, y, z, p, q
    <3> QED
      BY <1>4, <3>1
  <2>2. /\ NonceUsed(c, k) <=> z < x
        /\ NonceUsed(d, k) <=> z < y
        /\ NonceTooHigh(c, k) <=> z > x
        /\ NonceTooHigh(d, k) <=> z > y
    BY DEF NonceUsed, NonceTooHigh
  <2> HIDE DEF x, y, z
  <2> QED
    BY <2>1, <2>2
<1>8. OutOfTime(c, k) => OutOfTime(d, k)
  BY <1>5, <1>6 DEF OutOfTime
<1> QED
  BY <1>7, <1>8

(* The delay that there may have been, for a sender that has swapped since.*)
SwappedBy(c, d) == [c EXCEPT !.last = d.last]
LEMMA DelayIs ==
  ASSUME bundle \in Bundles, NEW b, NEW c, NEW d, ChainOK(b), ChainOK(c), ChainOK(d),
         Earlier(b, c), Earlier(c, d), NEW k \in Positions, NEW x \in Delays
  PROVE /\ WithinDelay(c, k, x) => WithinDelay(SwappedBy(b, c), k, x)
        /\ WithinDelay(SwappedBy(b, c), k, x) => WithinDelay(SwappedBy(b, d), k, x)
<1> USE SubmissionAssumption
<1> DEFINE s == bundle[k].sender
<1>1. bundle[k] \in BundledOps
  BY PositionsAre
<1>2. b \in Chains /\ c \in Chains /\ d \in Chains
  BY DEF ChainOK
<1>3. s \in OpSenders /\ x \in Nat
  BY <1>1 DEF BundledOps
<1>4. /\ c.last[s] \in Nat /\ d.last[s] \in Nat /\ c.last[s] <= d.last[s]
      /\ b.now \in Nat /\ c.now \in Nat /\ b.now <= c.now
  BY <1>2, <1>3 DEF Chains, Earlier
<1>5. /\ SwappedBy(b, c).now = b.now /\ SwappedBy(b, c).last = c.last
      /\ SwappedBy(b, d).now = b.now /\ SwappedBy(b, d).last = d.last
  BY <1>2 DEF Chains, SwappedBy
<1>6. /\ WithinDelay(c, k, x) <=> c.last[s] # 0 /\ c.now < c.last[s] + x
      /\ WithinDelay(SwappedBy(b, c), k, x) <=> c.last[s] # 0 /\ b.now < c.last[s] + x
      /\ WithinDelay(SwappedBy(b, d), k, x) <=> d.last[s] # 0 /\ b.now < d.last[s] + x
  BY <1>5 DEF WithinDelay
<1> DEFINE p == c.last[s]
           q == d.last[s]
           u == b.now
           v == c.now
<1>7. p \in Nat /\ q \in Nat /\ u \in Nat /\ v \in Nat /\ p <= q /\ u <= v
  BY <1>4
<1>8. /\ WithinDelay(c, k, x) <=> p # 0 /\ v < p + x
      /\ WithinDelay(SwappedBy(b, c), k, x) <=> p # 0 /\ u < p + x
      /\ WithinDelay(SwappedBy(b, d), k, x) <=> q # 0 /\ u < q + x
  BY <1>6
<1> HIDE DEF p, q, u, v
<1> QED
  BY <1>3, <1>7, <1>8

LEMMA EarlierIs ==
  ASSUME NEW b \in Chains, NEW c \in Chains, NEW d \in Chains
  PROVE Earlier(b, b) /\ (Earlier(b, c) /\ Earlier(c, d) => Earlier(b, d))
<1>1. b.now \in Nat /\ c.now \in Nat /\ d.now \in Nat
  BY DEF Chains
<1>2. \A s \in OpSenders :
        /\ b.nonce[s] \in Nat /\ c.nonce[s] \in Nat /\ d.nonce[s] \in Nat
        /\ b.last[s] \in Nat /\ c.last[s] \in Nat /\ d.last[s] \in Nat
  BY DEF Chains
<1> QED
  BY <1>1, <1>2 DEF Earlier

LEMMA PrepaymentIs ==
  ASSUME bundle \in Bundles, NEW c \in Chains, NEW ops \in SUBSET Positions, NEW k \in Positions,
         validatePrepayment(c, ops, k) # NoError
  PROVE /\ validatePrepayment(c, ops, k) \in Reverts
        /\ validatePrepayment(c, ops, k).opIndex + 1 = k
        /\ validatePrepayment(c, ops, k).reason # "AA32"
        /\ validatePrepayment(c, ops, k).reason = "AA25" => bundle[k].nonce # NonceDue(c, ops, k)
<1> USE SubmissionAssumption
<1>1. k - 1 \in Nat /\ (k - 1) + 1 = k
  BY PositionsAre
<1>2. CASE bundle[k].nonce # NonceDue(c, ops, k)
  <2>1. validatePrepayment(c, ops, k) = [error |-> "FailedOp", opIndex |-> k - 1, reason |-> "AA25"]
    BY <1>2 DEF validatePrepayment, FailedOp
  <2> QED
    BY <1>1, <1>2, <2>1 DEF Reverts
<1>3. CASE bundle[k].nonce = NonceDue(c, ops, k)
  <2>1. c.paymaster # "pays"
        /\ validatePrepayment(c, ops, k) =
             [error |-> "FailedOpWithRevert", opIndex |-> k - 1, reason |-> "AA33", inner |-> c.paymaster]
    BY <1>3 DEF validatePrepayment
  <2>2. c.paymaster \in {"SlippageRisk", "Error"}
    BY <2>1 DEF Chains, Paymasters
  <2> QED
    BY <1>1, <2>1, <2>2 DEF Reverts
<1> QED
  BY <1>2, <1>3

LEMMA InvalidIs ==
  ASSUME bundle \in Bundles, NEW c \in Chains, NEW k \in Positions
  PROVE /\ Invalid(c, k) # NoError =>
             Invalid(c, k) \in Reverts /\ Invalid(c, k).opIndex + 1 = k /\ Blamed(c, Invalid(c, k))
        /\ NonceUsed(c, k) \/ OutOfTime(c, k) => Invalid(c, k) # NoError
<1> USE SubmissionAssumption
<1> DEFINE due == NonceDue(c, Positions, k)
           early == validatePrepayment(c, Positions, k)
<1>1. due \in Nat /\ bundle[k].nonce \in Nat
  BY DueIs
<1>2. bundle[k].nonce # due => NonceUsed(c, k) \/ NonceTooHigh(c, k)
  BY <1>1 DEF NonceUsed, NonceTooHigh
<1>3. NonceUsed(c, k) => early # NoError
  BY <1>1 DEF NonceUsed, validatePrepayment, FailedOp, NoError
<1>4. k - 1 \in Nat /\ (k - 1) + 1 = k
  BY PositionsAre
<1>5. CASE early # NoError
  <2>1. Invalid(c, k) = early
    BY <1>5 DEF Invalid
  <2>2. early \in Reverts /\ early.opIndex + 1 = k /\ early.reason # "AA32"
        /\ (early.reason = "AA25" => bundle[k].nonce # due)
    BY <1>5, PrepaymentIs
  <2> HIDE DEF due, early
  <2>3. Blamed(c, early)
    BY <1>2, <2>2 DEF Blamed
  <2> QED
    BY <1>5, <2>1, <2>2, <2>3
<1>6. CASE early = NoError /\ (OutOfTime(c, k) \/ WithinDelay(c, k, c.delay))
  <2>1. Invalid(c, k) = [error |-> "FailedOp", opIndex |-> k - 1, reason |-> "AA32"]
    BY <1>6 DEF Invalid, FailedOp
  <2> QED
    BY <1>4, <1>6, <2>1 DEF Reverts, Blamed, NoError
<1>7. CASE early = NoError /\ ~(OutOfTime(c, k) \/ WithinDelay(c, k, c.delay))
  <2>1. Invalid(c, k) = NoError
    BY <1>7 DEF Invalid
  <2> QED
    BY <1>3, <1>7, <2>1
<1> QED
  BY <1>5, <1>6, <1>7

(* handleOps reverts for the first operation that is not valid.            *)
LEMMA RevertIs ==
  ASSUME bundle \in Bundles, NEW c \in Chains, handleOps(c) # NoError
  PROVE /\ handleOps(c) \in Reverts /\ Blamed(c, handleOps(c))
        /\ \A j \in Positions : NonceUsed(c, j) \/ OutOfTime(c, j) => handleOps(c).opIndex + 1 <= j
<1> USE SubmissionAssumption
<1> DEFINE bad == {k \in Positions : Invalid(c, k) # NoError}
<1>1. bad # {} /\ handleOps(c) = Invalid(c, Min(bad))
  BY DEF handleOps
<1>2. bad \in SUBSET Nat
  BY PositionsAre
<1>3. Min(bad) \in bad /\ \A n \in bad : Min(bad) <= n
  BY <1>1, <1>2, LeastIs
<1>4. \A j \in Positions : NonceUsed(c, j) \/ OutOfTime(c, j) => j \in bad
  BY InvalidIs
<1>5. Min(bad) \in Positions /\ Invalid(c, Min(bad)) # NoError
  BY <1>3
<1> HIDE DEF bad
<1> QED
  BY <1>1, <1>3, <1>4, <1>5, InvalidIs

LEMMA FoundAt ==
  ASSUME NEW candidates, DOMAIN candidates \subseteq Nat, NEW i \in DOMAIN candidates,
         "hex" \in DOMAIN candidates[i],
         \A j \in DOMAIN candidates : j # i => "hex" \notin DOMAIN candidates[j]
  PROVE FirstHex(candidates) = candidates[i].hex
<1> USE SubmissionAssumption
<1> DEFINE found == {j \in DOMAIN candidates : "hex" \in DOMAIN candidates[j]}
<1>1. found = {i} /\ found \in SUBSET Nat /\ found # {}
  OBVIOUS
<1>2. Min(found) = i
  BY <1>1, LeastIs
<1> QED
  BY <1>1, <1>2 DEF FirstHex

LEMMA ValueIs ==
  /\ \A d : "hex" \in DOMAIN Hex(d) /\ Hex(d).hex = d /\ "fields" \notin DOMAIN Hex(d)
  /\ \A fs : "hex" \notin DOMAIN Object(fs)
  /\ "hex" \notin DOMAIN Absent /\ \A f : ValueAt(Absent, f) = Absent
  /\ \A fs, f : ValueAt(Object(fs), f) = IF f \in DOMAIN fs THEN fs[f] ELSE Absent
  /\ \A d, f : ValueAt(Hex(d), f) = Absent
  BY DEF Hex, Object, Absent, ValueAt

(* The bundler finds the data of an error at every depth it may be at.     *)
LEMMA ErrorDataIs ==
  /\ ErrorData(Absent) = NoError
  /\ \A data : \A err \in Carried(data) : ErrorData(err) = data
<1> USE SubmissionAssumption
<1>1. ErrorData(Absent) = NoError
  <2> DEFINE given == ValueAt(ValueAt(Absent, "error"), "data")
             cs == <<ValueAt(Absent, "data"), given, ValueAt(given, "data")>>
  <2>1. cs = <<Absent, Absent, Absent>>
    BY ValueIs
  <2>2. {i \in DOMAIN cs : "hex" \in DOMAIN cs[i]} = {}
    BY <2>1, ValueIs
  <2> QED
    BY <2>2 DEF ErrorData, FirstHex
<1>2. ASSUME NEW data PROVE \A err \in Carried(data) : ErrorData(err) = data
  <2>1. ErrorData(Object([data |-> Hex(data)])) = data
    <3> DEFINE err == Object([data |-> Hex(data)])
               given == ValueAt(ValueAt(err, "error"), "data")
               cs == <<ValueAt(err, "data"), given, ValueAt(given, "data")>>
    <3>1. cs = <<Hex(data), Absent, Absent>>
      BY ValueIs
    <3>2. DOMAIN cs = {1, 2, 3} /\ cs[1] = Hex(data) /\ cs[2] = Absent /\ cs[3] = Absent
      BY <3>1
    <3>3. ErrorData(err) = FirstHex(cs)
      BY DEF ErrorData
    <3> HIDE DEF cs
    <3>4. /\ "hex" \in DOMAIN cs[1]
          /\ \A j \in DOMAIN cs : j # 1 => "hex" \notin DOMAIN cs[j]
          /\ 1 \in DOMAIN cs /\ DOMAIN cs \subseteq Nat
      BY <3>2, ValueIs
    <3>5. FirstHex(cs) = cs[1].hex
      BY <3>4, FoundAt
    <3> QED
      BY <3>2, <3>3, <3>5, ValueIs
  <2>2. ErrorData(Object([error |-> Object([data |-> Hex(data)])])) = data
    <3> DEFINE err == Object([error |-> Object([data |-> Hex(data)])])
               given == ValueAt(ValueAt(err, "error"), "data")
               cs == <<ValueAt(err, "data"), given, ValueAt(given, "data")>>
    <3>1. cs = <<Absent, Hex(data), Absent>>
      BY ValueIs
    <3>2. DOMAIN cs = {1, 2, 3} /\ cs[1] = Absent /\ cs[2] = Hex(data) /\ cs[3] = Absent
      BY <3>1
    <3>3. ErrorData(err) = FirstHex(cs)
      BY DEF ErrorData
    <3> HIDE DEF cs
    <3>4. /\ "hex" \in DOMAIN cs[2]
          /\ \A j \in DOMAIN cs : j # 2 => "hex" \notin DOMAIN cs[j]
          /\ 2 \in DOMAIN cs /\ DOMAIN cs \subseteq Nat
      BY <3>2, ValueIs
    <3>5. FirstHex(cs) = cs[2].hex
      BY <3>4, FoundAt
    <3> QED
      BY <3>2, <3>3, <3>5, ValueIs
  <2>3. ErrorData(Object([error |-> Object([data |-> Object([data |-> Hex(data)])])])) = data
    <3> DEFINE inner == Object([data |-> Hex(data)])
               err == Object([error |-> Object([data |-> inner])])
               given == ValueAt(ValueAt(err, "error"), "data")
               cs == <<ValueAt(err, "data"), given, ValueAt(given, "data")>>
    <3>1. cs = <<Absent, inner, Hex(data)>>
      BY ValueIs
    <3>2. DOMAIN cs = {1, 2, 3} /\ cs[1] = Absent /\ cs[2] = inner /\ cs[3] = Hex(data)
      BY <3>1
    <3>3. ErrorData(err) = FirstHex(cs)
      BY DEF ErrorData
    <3> HIDE DEF cs
    <3>4. /\ "hex" \in DOMAIN cs[3]
          /\ \A j \in DOMAIN cs : j # 3 => "hex" \notin DOMAIN cs[j]
          /\ 3 \in DOMAIN cs /\ DOMAIN cs \subseteq Nat
      BY <3>2, ValueIs
    <3>5. FirstHex(cs) = cs[3].hex
      BY <3>4, FoundAt
    <3> QED
      BY <3>2, <3>3, <3>5, ValueIs
  <2> QED
    BY <2>1, <2>2, <2>3 DEF Carried
<1> QED
  BY <1>1, <1>2

(* A report is fair: see BlameIsFair.                                      *)
Fair(c, report) ==
  LET k == report.opIndex + 1
  IN /\ k \in Positions
     /\ report.reason = "AA25" => NonceUsed(c, k) \/ NonceTooHigh(selected, k)
     /\ report.reason = "AA32" =>
          \/ OutOfTime(c, k)
          \/ \E d \in Delays : WithinDelay(SwappedBy(selected, c), k, d)
FairReport(report) ==
  report.error \in {"FailedOp", "FailedOpWithRevert"} =>
    /\ Fair(chain, report)
    /\ cause # NoError /\ Lasting(cause.chain, cause.revert) =>
         report.opIndex + 1 <= cause.revert.opIndex + 1

LEMMA FairIs == BlameIsFair <=> FairReport(attempt.report)
  BY DEF BlameIsFair, FairReport, Fair, SwappedBy

(* While the bundle is the same, so is what is said of its operations.     *)
LEMMA BundleRests ==
  ASSUME bundle' = bundle, selected' = selected
  PROVE /\ Positions' = Positions
        /\ \A c, e : Blamed(c, e)' <=> Blamed(c, e)
        /\ \A c, e : Fair(c, e)' <=> Fair(c, e)
        /\ \A c, e : Lasting(c, e)' <=> Lasting(c, e)
<1>1. Positions' = Positions
  BY DEF Positions
<1>2. \A c, k : NonceDue(c, Positions, k)' = NonceDue(c, Positions, k)
  BY <1>1, Zenon DEF NonceDue
<1>3. \A c, k : /\ NonceUsed(c, k)' <=> NonceUsed(c, k)
                /\ NonceTooHigh(c, k)' <=> NonceTooHigh(c, k)
  BY <1>2, Zenon DEF NonceUsed, NonceTooHigh
<1>4. \A c, k : OutOfTime(c, k)' <=> OutOfTime(c, k)
  BY Zenon DEF OutOfTime
<1>5. \A c, k, d : WithinDelay(c, k, d)' <=> WithinDelay(c, k, d)
  BY Zenon DEF WithinDelay
<1>6. \A c, e : Blamed(c, e)' <=> Blamed(c, e)
  BY <1>1, <1>3, <1>4, <1>5, Zenon DEF Blamed
<1>7. \A c, e : Fair(c, e)' <=> Fair(c, e)
  BY <1>1, <1>3, <1>4, <1>5, Zenon DEF Fair, SwappedBy
<1>8. \A c, e : Lasting(c, e)' <=> Lasting(c, e)
  BY <1>3, <1>4, Zenon DEF Lasting
<1> QED
  BY <1>1, <1>6, <1>7, <1>8

(* What is true of an operation on a chain since the selection is fair     *)
(* there, and stays so.                                                    *)
LEMMA BlamedIsFair ==
  ASSUME bundle \in Bundles, ChainOK(selected), NEW c, ChainOK(c), Earlier(selected, c),
         NEW e, Blamed(c, e)
  PROVE Fair(c, e)
<1> USE SubmissionAssumption
<1> DEFINE k == e.opIndex + 1
<1>1. k \in Positions
  BY DEF Blamed
<1>2. c \in Chains /\ c.delay \in Delays /\ selected \in Chains
  BY DEF ChainOK, Chains
<1>3. NonceTooHigh(c, k) => NonceTooHigh(selected, k)
  BY <1>1, LaterIs
<1>4. WithinDelay(c, k, c.delay) => WithinDelay(SwappedBy(selected, c), k, c.delay)
  <2>1. Earlier(c, c)
    BY <1>2, EarlierIs
  <2> QED
    BY <1>1, <1>2, <2>1, DelayIs
<1> QED
  BY <1>1, <1>2, <1>3, <1>4 DEF Blamed, Fair

LEMMA FairStays ==
  ASSUME bundle \in Bundles, ChainOK(selected), NEW c, NEW d, ChainOK(c), ChainOK(d),
         Earlier(selected, c), Earlier(c, d), NEW e, Fair(c, e)
  PROVE Fair(d, e)
<1> USE SubmissionAssumption
<1> DEFINE k == e.opIndex + 1
<1>1. k \in Positions
  BY DEF Fair
<1>2. (NonceUsed(c, k) => NonceUsed(d, k)) /\ (OutOfTime(c, k) => OutOfTime(d, k))
  BY <1>1, LaterIs
<1>3. \A x \in Delays :
        WithinDelay(SwappedBy(selected, c), k, x) => WithinDelay(SwappedBy(selected, d), k, x)
  BY <1>1, DelayIs
<1> QED
  BY <1>1, <1>2, <1>3 DEF Fair

LEMMA FormattedIs ==
  ASSUME NEW e \in Reverts
  PROVE /\ formatEntryPointError(e).error = e.error /\ formatEntryPointError(e).opIndex = e.opIndex
        /\ formatEntryPointError(e).reason = e.reason
<1> USE SubmissionAssumption
<1>1. CASE e.error = "FailedOp"
  BY <1>1 DEF formatEntryPointError
<1>2. CASE e.error = "FailedOpWithRevert"
  <2>1. e \in [error : {"FailedOpWithRevert"}, opIndex : Nat, reason : {"AA33"},
               inner : {"SlippageRisk", "Error"}]
    BY <1>2 DEF Reverts
  <2>2. formatEntryPointError(e) = [e EXCEPT !.inner = decodeRevertData(@)]
    BY <1>2 DEF formatEntryPointError
  <2> QED
    BY <2>1, <2>2
<1> QED
  BY <1>1, <1>2 DEF Reverts

LEMMA FairlyFormatted ==
  ASSUME NEW e \in Reverts, Fair(chain, e),
         cause # NoError /\ Lasting(cause.chain, cause.revert) =>
           e.opIndex + 1 <= cause.revert.opIndex + 1
  PROVE FairReport(formatEntryPointError(e))
<1> DEFINE r == formatEntryPointError(e)
<1>1. r.opIndex = e.opIndex /\ r.reason = e.reason
  BY FormattedIs
<1> HIDE DEF r
<1>2. Fair(chain, r)
  BY <1>1 DEF Fair
<1> QED
  BY <1>1, <1>2 DEF FairReport, r

(* The error of handleOps on the chain of the failure or a later one makes *)
(* a fair report.                                                          *)
LEMMA ReplayIsFair ==
  ASSUME SubmissionInv, NEW c, ChainOK(c), Earlier(selected, c), Earlier(c, chain),
         cause # NoError => Earlier(cause.chain, c), handleOps(c) # NoError
  PROVE FairReport(formatEntryPointError(handleOps(c)))
<1> USE SubmissionAssumption
<1> DEFINE e == handleOps(c)
<1>1. /\ bundle \in Bundles /\ ChainOK(selected) /\ ChainOK(chain) /\ c \in Chains
      /\ cause # NoError => ChainOK(cause.chain) /\ Blamed(cause.chain, cause.revert)
  BY DEF SubmissionInv, ChainOK, CauseOK
<1>2. e \in Reverts /\ Blamed(c, e)
      /\ \A j \in Positions : NonceUsed(c, j) \/ OutOfTime(c, j) => e.opIndex + 1 <= j
  BY <1>1, RevertIs
<1> HIDE DEF e
<1>3. Fair(chain, e)
  BY <1>1, <1>2, BlamedIsFair, FairStays
<1>4. ASSUME cause # NoError, Lasting(cause.chain, cause.revert)
      PROVE e.opIndex + 1 <= cause.revert.opIndex + 1
  <2> DEFINE j == cause.revert.opIndex + 1
  <2>1. j \in Positions
    BY <1>1, <1>4 DEF Blamed
  <2>2. NonceUsed(cause.chain, j) \/ OutOfTime(cause.chain, j)
    BY <1>4 DEF Lasting
  <2>3. NonceUsed(c, j) \/ OutOfTime(c, j)
    BY <1>1, <1>4, <2>1, <2>2, LaterIs
  <2> QED
    BY <1>2, <2>1, <2>3
<1> QED
  BY <1>2, <1>3, <1>4, FairlyFormatted DEF e

(* What the invariant says of a chain, while the bundle rests.             *)
LEMMA ChainOKRests == \A c : ChainOK(c)' <=> ChainOK(c)
  BY DEF ChainOK, Chains, LastPassed
LEMMA EarlierRests == \A c, d : Earlier(c, d)' <=> Earlier(c, d)
  BY DEF Earlier

(* A step of the attempt that leaves bundle, chain and cause alone.        *)
LEMMA InvKept ==
  ASSUME SubmissionInv, UNCHANGED <<bundle, chain, selected, cause>>,
         attempt'.state = attempt.state, AttemptOK', FairReport(attempt.report)'
  PROVE SubmissionInv'
<1> USE SubmissionAssumption
<1>1. /\ bundle' \in Bundles /\ ChainOK(chain)' /\ ChainOK(selected)' /\ Earlier(selected, chain)'
  BY ChainOKRests, EarlierRests DEF SubmissionInv
<1>2. CauseOK'
  BY BundleRests, ChainOKRests, EarlierRests DEF SubmissionInv, CauseOK
<1>3. BlameIsFair'
  BY DEF BlameIsFair, FairReport, Fair, SwappedBy
<1> QED
  BY <1>1, <1>2, <1>3 DEF SubmissionInv

(* The attempt ends with a fair report.                                    *)
LEMMA OverKept ==
  ASSUME SubmissionInv, NEW report, FairReport(report),
         attempt' = [attempt EXCEPT !.at = "over", !.report = report],
         UNCHANGED <<bundle, chain, selected, cause>>
  PROVE SubmissionInv'
<1> USE SubmissionAssumption
<1>1. /\ DOMAIN attempt' = DOMAIN attempt /\ attempt'.at = "over" /\ attempt'.report = report
      /\ attempt'.state = attempt.state /\ attempt'.error = attempt.error
  BY DEF SubmissionInv, AttemptOK
<1>2. AttemptOK'
  BY <1>1 DEF SubmissionInv, AttemptOK
<1>3. FairReport(attempt.report)'
  BY <1>1, BundleRests DEF FairReport
<1> QED
  BY <1>1, <1>2, <1>3, InvKept

(* The attempt goes on before its transaction has reverted.                *)
LEMMA GoesOn ==
  ASSUME SubmissionInv, attempt.at \in {"selected", "building"},
         attempt'.at \in {"selected", "building", "waiting"}, DOMAIN attempt' = DOMAIN attempt,
         attempt'.state = attempt.state, attempt'.error = attempt.error,
         attempt'.report = attempt.report, UNCHANGED <<bundle, chain, selected, cause>>
  PROVE SubmissionInv'
<1> USE SubmissionAssumption
<1>1. cause = NoError /\ attempt.report = NoError
  BY DEF SubmissionInv, AttemptOK
<1>2. AttemptOK'
  BY <1>1 DEF SubmissionInv, AttemptOK
<1>3. FairReport(attempt.report)'
  BY <1>1 DEF FairReport, NoError
<1> QED
  BY <1>2, <1>3, InvKept

(* The chain has gone on, and so the blame is still fair.                  *)
LEMMA LaterKept ==
  ASSUME SubmissionInv, ChainOK(chain'), Earlier(chain, chain'),
         UNCHANGED <<bundle, selected, cause, attempt>>
  PROVE SubmissionInv'
<1> USE SubmissionAssumption
<1>1. /\ bundle \in Bundles /\ chain \in Chains /\ chain' \in Chains /\ selected \in Chains
      /\ ChainOK(chain) /\ ChainOK(selected) /\ Earlier(selected, chain)
  BY DEF SubmissionInv, ChainOK
<1>2. Earlier(selected, chain')
  BY <1>1, EarlierIs
<1>3. cause # NoError => cause.chain \in Chains /\ Earlier(cause.chain, chain')
  BY <1>1, EarlierIs DEF SubmissionInv, CauseOK, ChainOK
<1>4. attempt.state # NoError => Earlier(attempt.state, chain')
  BY <1>1, EarlierIs DEF SubmissionInv, CauseOK, ChainOK
<1>5. CauseOK'
  BY <1>3, <1>4, BundleRests, ChainOKRests, EarlierRests DEF SubmissionInv, CauseOK
<1>6. AttemptOK'
  BY DEF SubmissionInv, AttemptOK
<1>7. FairReport(attempt.report)'
  <2>1. Fair(chain, attempt.report) => Fair(chain', attempt.report)
    BY <1>1, FairStays
  <2>2. FairReport(attempt.report)
    BY FairIs DEF SubmissionInv
  <2> QED
    BY <2>1, <2>2, BundleRests DEF FairReport
<1>8. BlameIsFair'
  BY <1>7 DEF BlameIsFair, FairReport, Fair, SwappedBy
<1>9. bundle' \in Bundles /\ ChainOK(chain)' /\ ChainOK(selected)' /\ Earlier(selected, chain)'
  BY <1>1, <1>2, ChainOKRests, EarlierRests
<1> QED
  BY <1>5, <1>6, <1>8, <1>9 DEF SubmissionInv

Changed(d, n, f, g) == d \in Chains /\ d.now = n /\ d.nonce = f /\ d.last = g
LEMMA ChainChanges ==
  ASSUME NEW c \in Chains, NEW d
  PROVE /\ \A f \in [OpSenders -> Nat], g \in [OpSenders -> Nat] :
             d = [c EXCEPT !.nonce = f, !.last = g] => Changed(d, c.now, f, g)
        /\ \A n \in Nat : d = [c EXCEPT !.now = n] => Changed(d, n, c.nonce, c.last)
        /\ \A p \in Paymasters : d = [c EXCEPT !.paymaster = p] => Changed(d, c.now, c.nonce, c.last)
        /\ \A x \in Delays : d = [c EXCEPT !.delay = x] => Changed(d, c.now, c.nonce, c.last)
<1> DEFINE F == [OpSenders -> Nat]
<1>1. Chains = [nonce : F, last : F, now : Nat, delay : Delays, paymaster : Paymasters]
  BY DEF Chains
<1> HIDE DEF F
<1>2. \A f \in F, g \in F : d = [c EXCEPT !.nonce = f, !.last = g] => Changed(d, c.now, f, g)
  BY <1>1 DEF Changed
<1>3. \A n \in Nat : d = [c EXCEPT !.now = n] => Changed(d, n, c.nonce, c.last)
  BY <1>1 DEF Changed
<1>4. \A p \in Paymasters : d = [c EXCEPT !.paymaster = p] => Changed(d, c.now, c.nonce, c.last)
  BY <1>1 DEF Changed
<1>5. \A x \in Delays : d = [c EXCEPT !.delay = x] => Changed(d, c.now, c.nonce, c.last)
  BY <1>1 DEF Changed
<1> QED
  BY <1>2, <1>3, <1>4, <1>5, Zenon DEF F

LEMMA ChainGoesOn ==
  ASSUME ChainOK(chain), ChainMoves
  PROVE ChainOK(chain') /\ Earlier(chain, chain')
<1>1. chain \in Chains /\ (\A s \in OpSenders : chain.last[s] <= chain.now)
      /\ chain.now \in Nat /\ chain.nonce \in [OpSenders -> Nat] /\ chain.last \in [OpSenders -> Nat]
  BY DEF ChainOK, Chains, LastPassed
<1>2. ASSUME NEW s \in OpSenders, NEW paid \in BOOLEAN,
             chain' = [chain EXCEPT !.nonce[s] = @ + 1, !.last[s] = IF paid THEN chain.now ELSE @]
      PROVE ChainOK(chain') /\ Earlier(chain, chain')
  <2>1. /\ chain' \in Chains /\ chain'.now = chain.now
        /\ chain'.nonce = [chain.nonce EXCEPT ![s] = @ + 1]
        /\ chain'.last = [chain.last EXCEPT ![s] = IF paid THEN chain.now ELSE @]
    <3> DEFINE f == [chain.nonce EXCEPT ![s] = @ + 1]
               g == [chain.last EXCEPT ![s] = IF paid THEN chain.now ELSE @]
    <3>1. f \in [OpSenders -> Nat] /\ g \in [OpSenders -> Nat]
      BY <1>1
    <3>2. [chain EXCEPT !.nonce = f].last = chain.last
      BY <1>1 DEF Chains
    <3>3. chain' = [chain EXCEPT !.nonce = f, !.last = g]
      BY <1>2, <3>2
    <3> HIDE DEF f, g
    <3>4. chain' \in Chains /\ chain'.now = chain.now /\ chain'.nonce = f /\ chain'.last = g
      <4>1. Changed(chain', chain.now, f, g)
        BY <1>1, <3>1, <3>3, ChainChanges, Zenon
      <4> QED
        BY <4>1 DEF Changed
    <3> QED
      BY <3>4 DEF f, g
  <2>2. \A v \in OpSenders :
          /\ chain.nonce[v] \in Nat /\ chain.last[v] \in Nat
          /\ chain'.nonce[v] = IF v = s THEN chain.nonce[v] + 1 ELSE chain.nonce[v]
          /\ chain'.last[v] = IF v = s /\ paid THEN chain.now ELSE chain.last[v]
    BY <1>1, <2>1
  <2>3. LastPassed(chain')
    BY <1>1, <2>1, <2>2 DEF LastPassed
  <2>4. Earlier(chain, chain')
    BY <1>1, <2>1, <2>2 DEF Earlier
  <2> QED
    BY <2>1, <2>3, <2>4 DEF ChainOK
<1>3. ASSUME NEW n \in {chain.now, chain.now + 1}, chain' \in Chains, chain'.now = n,
             chain'.nonce = chain.nonce, chain'.last = chain.last
      PROVE ChainOK(chain') /\ Earlier(chain, chain')
  <2>1. \A v \in OpSenders : chain.nonce[v] \in Nat /\ chain.last[v] \in Nat
    BY <1>1
  <2>2. LastPassed(chain')
    BY <1>1, <1>3, <2>1 DEF LastPassed
  <2>3. Earlier(chain, chain')
    BY <1>1, <1>3, <2>1 DEF Earlier
  <2> QED
    BY <1>3, <2>2, <2>3 DEF ChainOK
<1>4. ASSUME chain' = [chain EXCEPT !.now = @ + 1]
      PROVE ChainOK(chain') /\ Earlier(chain, chain')
  <2>1. chain' \in Chains /\ chain'.now = chain.now + 1
        /\ chain'.nonce = chain.nonce /\ chain'.last = chain.last
    <3>0. chain.now + 1 \in Nat
      BY <1>1
    <3>1. Changed(chain', chain.now + 1, chain.nonce, chain.last)
      BY <1>1, <1>4, <3>0, ChainChanges, Zenon
    <3> QED
      BY <3>1 DEF Changed
  <2> QED
    BY <1>3, <2>1
<1>5. ASSUME NEW p \in Paymasters, chain' = [chain EXCEPT !.paymaster = p]
      PROVE ChainOK(chain') /\ Earlier(chain, chain')
  <2>1. chain' \in Chains /\ chain'.now = chain.now
        /\ chain'.nonce = chain.nonce /\ chain'.last = chain.last
    <3>1. Changed(chain', chain.now, chain.nonce, chain.last)
      BY <1>1, <1>5, ChainChanges, Zenon
    <3> QED
      BY <3>1 DEF Changed
  <2> QED
    BY <1>3, <2>1
<1>6. ASSUME NEW d \in Delays, chain' = [chain EXCEPT !.delay = d]
      PROVE ChainOK(chain') /\ Earlier(chain, chain')
  <2>1. chain' \in Chains /\ chain'.now = chain.now
        /\ chain'.nonce = chain.nonce /\ chain'.last = chain.last
    <3>1. Changed(chain', chain.now, chain.nonce, chain.last)
      BY <1>1, <1>6, ChainChanges, Zenon
    <3> QED
      BY <3>1 DEF Changed
  <2> QED
    BY <1>3, <2>1
<1> QED
  <2>1. CASE \E s \in OpSenders, paid \in BOOLEAN :
               chain' = [chain EXCEPT !.nonce[s] = @ + 1, !.last[s] = IF paid THEN chain.now ELSE @]
    BY <1>2, <2>1, Zenon
  <2>2. CASE chain' = [chain EXCEPT !.now = @ + 1]
    BY <1>4, <2>2
  <2>3. CASE \E p \in Paymasters \ {chain.paymaster} : chain' = [chain EXCEPT !.paymaster = p]
    BY <1>5, <2>3
  <2>4. CASE \E d \in Delays \ {chain.delay} : chain' = [chain EXCEPT !.delay = d]
    BY <1>6, <2>4
  <2> QED
    BY <2>1, <2>2, <2>3, <2>4, Zenon DEF ChainMoves

(* The bundle has been executed: the nonces of its operations are used, and*)
(* its senders have swapped now.                                           *)
LEMMA ExecutedIs ==
  ASSUME bundle \in Bundles, ChainOK(chain), Execute, CauseNow = NoError
  PROVE ChainOK(chain') /\ Earlier(chain, chain')
<1> USE SubmissionAssumption
<1> DEFINE Of(s) == {k \in Positions : bundle[k].sender = s}
           nonces == [s \in OpSenders |-> chain.nonce[s] + Cardinality(Of(s))]
           swapped == [s \in OpSenders |->
                        IF \E k \in Positions : bundle[k].sender = s THEN chain.now ELSE chain.last[s]]
<1>1. chain \in Chains /\ (\A s \in OpSenders : chain.last[s] <= chain.now)
      /\ chain.now \in Nat /\ chain.nonce \in [OpSenders -> Nat] /\ chain.last \in [OpSenders -> Nat]
  BY DEF ChainOK, Chains, LastPassed
<1>2. chain' = [chain EXCEPT !.nonce = nonces, !.last = swapped]
  BY DEF Execute
<1>3. \A s \in OpSenders : Cardinality(Of(s)) \in Nat
  <2>1. IsFiniteSet(Positions) /\ \A s : Of(s) \subseteq Positions
    BY PositionsAre
  <2> HIDE DEF Of
  <2> QED
    BY <2>1, FS_Subset, FS_CardinalityType
<1> HIDE DEF Of
<1>4. nonces \in [OpSenders -> Nat] /\ \A s \in OpSenders : chain.nonce[s] <= nonces[s]
  BY <1>1, <1>3
<1>5. /\ swapped \in [OpSenders -> Nat]
      /\ \A s \in OpSenders : chain.last[s] <= swapped[s] /\ swapped[s] <= chain.now
  BY <1>1
<1> HIDE DEF nonces, swapped
<1>6. chain' \in Chains /\ chain'.now = chain.now /\ chain'.nonce = nonces /\ chain'.last = swapped
  BY <1>1, <1>2, <1>4, <1>5 DEF Chains
<1> QED
  BY <1>1, <1>4, <1>5, <1>6 DEF ChainOK, LastPassed, Earlier

(* The bundle fails on the chain of now.                                   *)
LEMMA FailsNow ==
  ASSUME SubmissionInv, cause = NoError, attempt.state = NoError, cause' = CauseNow,
         UNCHANGED <<bundle, chain, selected>>, attempt'.state = NoError, AttemptOK',
         attempt'.report = NoError
  PROVE SubmissionInv'
<1> USE SubmissionAssumption
<1>1. bundle \in Bundles /\ chain \in Chains /\ ChainOK(chain) /\ Earlier(selected, chain)
  BY DEF SubmissionInv, ChainOK
<1>2. CauseNow # NoError =>
        CauseNow = [revert |-> handleOps(chain), chain |-> chain] /\ handleOps(chain) # NoError
  BY DEF CauseNow
<1>3. CauseNow # NoError =>
        /\ CauseNow.chain = chain /\ CauseNow.revert \in Reverts /\ Blamed(chain, CauseNow.revert)
  BY <1>1, <1>2, RevertIs
<1>4. Earlier(chain, chain)
  BY <1>1, EarlierIs
<1>5. CauseOK'
  BY <1>1, <1>3, <1>4, BundleRests, ChainOKRests, EarlierRests DEF CauseOK
<1>6. BlameIsFair'
  BY DEF BlameIsFair, NoError
<1>7. bundle' \in Bundles /\ ChainOK(chain)' /\ ChainOK(selected)' /\ Earlier(selected, chain)'
  BY ChainOKRests, EarlierRests DEF SubmissionInv
<1> QED
  BY <1>5, <1>6, <1>7 DEF SubmissionInv

(* SubmissionInv is inductive.                                             *)
THEOREM SubmissionInvariant == SubmissionSpec => []SubmissionInv
<1> USE SubmissionAssumption
<1>1. SubmissionInit => SubmissionInv
  <2> SUFFICES ASSUME SubmissionInit PROVE SubmissionInv
    OBVIOUS
  <2>1. chain \in Chains /\ ChainOK(chain) /\ selected = chain
    BY DEF SubmissionInit, ChainOK
  <2>2. Earlier(chain, chain)
    BY <2>1, EarlierIs
  <2>3. /\ DOMAIN attempt = {"at", "beneficiary", "type", "error", "state", "report"}
        /\ attempt.at = "selected" /\ attempt.error = Absent /\ attempt.state = NoError
        /\ attempt.report = NoError
    BY DEF SubmissionInit, NewAttempt
  <2>4. cause = NoError /\ bundle \in Bundles
    BY DEF SubmissionInit
  <2> QED
    BY <2>1, <2>2, <2>3, <2>4 DEF SubmissionInv, AttemptOK, CauseOK, BlameIsFair, NoError
<1>2. SubmissionInv /\ SubmissionNext => SubmissionInv'
  <2> SUFFICES ASSUME SubmissionInv, SubmissionNext PROVE SubmissionInv'
    OBVIOUS
  <2>0. /\ DOMAIN attempt = {"at", "beneficiary", "type", "error", "state", "report"}
        /\ bundle \in Bundles /\ ChainOK(chain) /\ chain \in Chains
    BY DEF SubmissionInv, AttemptOK, ChainOK
  <2>1. ASSUME NEW message \in {"request", "message", "0x"},
               attempt' = [attempt EXCEPT !.at = "over", !.report = [error |-> message]],
               UNCHANGED <<bundle, chain, selected, cause>>
        PROVE SubmissionInv'
    <3> DEFINE report == [error |-> message]
    <3>1. FairReport(report)
      BY DEF FairReport
    <3>2. attempt' = [attempt EXCEPT !.at = "over", !.report = report]
      BY <2>1
    <3> HIDE DEF report
    <3> QED
      BY <2>1, <3>1, <3>2, OverKept, Zenon
  <2>2. CASE ChainMoves
    <3>1. UNCHANGED <<bundle, selected, cause, attempt>>
      BY <2>2, Zenon DEF ChainMoves
    <3>2. ChainOK(chain') /\ Earlier(chain, chain')
      BY <2>0, <2>2, ChainGoesOn
    <3> QED
      BY <3>1, <3>2, LaterKept
  <2>3. CASE SelectBeneficiary
    <3>1. PICK low \in BOOLEAN :
            attempt' = [attempt EXCEPT !.at = "building",
              !.beneficiary = IF Configured /\ ~low THEN "configured" ELSE "wallet"]
      BY <2>3, Zenon DEF SelectBeneficiary
    <3>2. /\ DOMAIN attempt' = DOMAIN attempt /\ attempt'.at = "building"
          /\ attempt'.state = attempt.state /\ attempt'.error = attempt.error
          /\ attempt'.report = attempt.report
      BY <2>0, <3>1
    <3> QED
      BY <2>3, <3>2, GoesOn DEF SelectBeneficiary
  <2>4. CASE RequestFails
    BY <2>1, <2>4 DEF RequestFails, FailWith
  <2>5. CASE SubmitType4
    <3>1. CASE attempt' = [attempt EXCEPT !.at = "waiting", !.type = 4]
      <4>1. /\ DOMAIN attempt' = DOMAIN attempt /\ attempt'.at = "waiting"
            /\ attempt'.state = attempt.state /\ attempt'.error = attempt.error
            /\ attempt'.report = attempt.report
        BY <2>0, <3>1
      <4> QED
        BY <2>5, <4>1, GoesOn DEF SubmitType4
    <3>2. CASE attempt' = FailWith("message")
      BY <2>1, <2>5, <3>2 DEF SubmitType4, FailWith
    <3> QED
      BY <2>5, <3>1, <3>2 DEF SubmitType4
  <2>6. CASE SubmitHandleOps
    <3>1. /\ DOMAIN attempt' = DOMAIN attempt /\ attempt'.at = "waiting"
          /\ attempt'.state = attempt.state /\ attempt'.error = attempt.error
          /\ attempt'.report = attempt.report
      BY <2>0, <2>6 DEF SubmitHandleOps
    <3> QED
      BY <2>6, <3>1, GoesOn DEF SubmitHandleOps
  <2>7. CASE SubmitRefused
    <3>1. PICK err \in {Absent} \cup (IF CauseNow = NoError THEN {} ELSE Carried(CauseNow.revert)) :
            attempt' = [attempt EXCEPT !.at = "failing", !.error = err]
      BY <2>7, Zenon DEF SubmitRefused
    <3>2. /\ DOMAIN attempt' = DOMAIN attempt /\ attempt'.at = "failing" /\ attempt'.error = err
          /\ attempt'.state = attempt.state /\ attempt'.report = attempt.report
      BY <2>0, <3>1
    <3>3. /\ UNCHANGED <<bundle, chain, selected>> /\ cause = NoError /\ cause' = CauseNow
          /\ attempt.state = NoError /\ attempt.report = NoError
      BY <2>7 DEF SubmitRefused, SubmissionInv, AttemptOK
    <3>4. err # Absent => CauseNow # NoError /\ err \in Carried(CauseNow.revert)
      BY <3>1
    <3>5. \A data : Carried(data)' = Carried(data)
      BY DEF Carried
    <3>6. AttemptOK'
      BY <2>0, <3>2, <3>3, <3>4, <3>5 DEF AttemptOK
    <3> QED
      BY <3>2, <3>3, <3>6, FailsNow
  <2>8. CASE Execute
    <3>1. UNCHANGED <<bundle, selected>> /\ cause' = CauseNow
      BY <2>8 DEF Execute
    <3>2. cause = NoError /\ attempt.state = NoError /\ attempt.error = Absent
          /\ attempt.report = NoError
      BY <2>8 DEF Execute, SubmissionInv, AttemptOK
    <3>3. CASE CauseNow = NoError
      <4>1. attempt' = [attempt EXCEPT !.at = "over", !.report = [error |-> "mined"]]
        BY <2>8, <3>3 DEF Execute
      <4>2. /\ DOMAIN attempt' = DOMAIN attempt /\ attempt'.at = "over"
            /\ attempt'.report.error = "mined"
            /\ attempt'.state = attempt.state /\ attempt'.error = attempt.error
        BY <2>0, <4>1
      <4>3. ChainOK(chain') /\ Earlier(chain, chain')
        BY <2>0, <2>8, <3>3, ExecutedIs
      <4>4. Earlier(selected, chain')
        BY <2>0, <4>3, EarlierIs DEF SubmissionInv, ChainOK
      <4>5. AttemptOK'
        BY <2>0, <3>1, <3>2, <3>3, <4>2 DEF AttemptOK
      <4>6. CauseOK'
        BY <3>1, <3>2, <3>3, <4>2 DEF CauseOK
      <4>7. BlameIsFair'
        BY <4>2 DEF BlameIsFair
      <4>8. bundle' \in Bundles /\ ChainOK(chain)' /\ ChainOK(selected)' /\ Earlier(selected, chain)'
        BY <3>1, <4>3, <4>4, ChainOKRests, EarlierRests DEF SubmissionInv
      <4> QED
        BY <4>5, <4>6, <4>7, <4>8 DEF SubmissionInv
    <3>4. CASE CauseNow # NoError
      <4>1. attempt' = [attempt EXCEPT !.at = "reverted"] /\ chain' = chain
        BY <2>8, <3>4 DEF Execute
      <4>2. /\ DOMAIN attempt' = DOMAIN attempt /\ attempt'.at = "reverted"
            /\ attempt'.report = attempt.report
            /\ attempt'.state = attempt.state /\ attempt'.error = attempt.error
        BY <2>0, <4>1
      <4>3. AttemptOK'
        BY <2>0, <3>2, <4>2 DEF AttemptOK
      <4> QED
        BY <3>1, <3>2, <4>1, <4>2, <4>3, FailsNow
    <3> QED
      BY <3>3, <3>4
  <2>9. CASE BlockEnds
    <3>1. UNCHANGED <<bundle, chain, selected, cause>>
          /\ attempt.state = NoError /\ attempt.error = Absent /\ attempt.report = NoError
      BY <2>9 DEF BlockEnds, SubmissionInv, AttemptOK
    <3>2. /\ DOMAIN attempt' = DOMAIN attempt /\ attempt'.at = "failing" /\ attempt'.state = chain
          /\ attempt'.report = attempt.report /\ attempt'.error = attempt.error
      BY <2>0, <2>9 DEF BlockEnds
    <3>3. AttemptOK'
      BY <2>0, <3>1, <3>2 DEF AttemptOK
    <3>4. Earlier(chain, chain)
      BY <2>0, EarlierIs
    <3>5. CauseOK'
      BY <3>1, <3>2, <3>4, BundleRests, ChainOKRests, EarlierRests DEF SubmissionInv, CauseOK
    <3>6. BlameIsFair'
      BY <3>1, <3>2 DEF BlameIsFair, NoError
    <3>7. bundle' \in Bundles /\ ChainOK(chain)' /\ ChainOK(selected)' /\ Earlier(selected, chain)'
      BY <3>1, ChainOKRests, EarlierRests DEF SubmissionInv
    <3> QED
      BY <3>3, <3>5, <3>6, <3>7 DEF SubmissionInv
  <2>10. CASE FormatGiven
    <3>1. attempt.error # Absent /\ attempt.at = "failing" /\ UNCHANGED <<bundle, chain, selected, cause>>
      BY <2>10, ErrorDataIs DEF FormatGiven
    <3>2. cause # NoError /\ attempt.error \in Carried(cause.revert)
      BY <3>1 DEF SubmissionInv, AttemptOK
    <3>3. ErrorData(attempt.error) = cause.revert
      BY <3>2, ErrorDataIs
    <3>4. Fair(cause.chain, cause.revert) /\ Fair(chain, cause.revert) /\ cause.revert \in Reverts
      BY <3>2, BlamedIsFair, FairStays DEF SubmissionInv, CauseOK
    <3>5. cause.revert.opIndex + 1 <= cause.revert.opIndex + 1
      BY <3>4 DEF Reverts
    <3>6. FairReport(formatEntryPointError(cause.revert))
      BY <3>4, <3>5, FairlyFormatted
    <3>7. attempt' = [attempt EXCEPT !.at = "over", !.report = formatEntryPointError(cause.revert)]
      BY <2>10, <3>3 DEF FormatGiven, Reported
    <3> QED
      BY <3>1, <3>6, <3>7, OverKept, Zenon
  <2>11. CASE FormatRecovered
    <3>1. UNCHANGED <<bundle, chain, selected, cause>>
      BY <2>11 DEF FormatRecovered
    <3>2. ASSUME NEW err \in Carried(Replayed), Replayed # NoError, attempt' = Reported(ErrorData(err))
          PROVE SubmissionInv'
      <4> DEFINE st == IF attempt.state = NoError THEN chain ELSE attempt.state
      <4>1. Earlier(chain, chain)
        BY <2>0, EarlierIs
      <4>2. ChainOK(st) /\ Earlier(selected, st) /\ Earlier(st, chain)
            /\ (cause # NoError => Earlier(cause.chain, st))
        BY <4>1 DEF SubmissionInv, CauseOK
      <4>3. handleOps(st) = Replayed
        BY DEF Replayed
      <4> HIDE DEF st
      <4>4. FairReport(formatEntryPointError(handleOps(st)))
        BY <3>2, <4>2, <4>3, ReplayIsFair
      <4>5. attempt' = [attempt EXCEPT !.at = "over", !.report = formatEntryPointError(handleOps(st))]
        BY <3>2, <4>3, ErrorDataIs DEF Reported
      <4> QED
        BY <3>1, <4>4, <4>5, OverKept, Zenon
    <3> QED
      BY <2>1, <2>11, <3>1, <3>2 DEF FormatRecovered, FailWith
  <2>12. CASE UNCHANGED <<bundle, chain, attempt, selected, cause>>
    <3>1. AttemptOK' /\ FairReport(attempt.report)'
      BY <2>12, FairIs, BundleRests DEF SubmissionInv, AttemptOK, FairReport
    <3> QED
      BY <2>12, <3>1, InvKept
  <2> QED
    BY <2>2, <2>3, <2>4, <2>5, <2>6, <2>7, <2>8, <2>9, <2>10, <2>11, <2>12 DEF SubmissionNext, Estimate
<1>3. SubmissionInv /\ UNCHANGED submissionVars => SubmissionInv'
  <2> SUFFICES ASSUME SubmissionInv, UNCHANGED submissionVars PROVE SubmissionInv'
    OBVIOUS
  <2>1. UNCHANGED <<bundle, chain, attempt, selected, cause>>
    BY DEF submissionVars
  <2>2. AttemptOK' /\ FairReport(attempt.report)'
    BY <2>1, FairIs, BundleRests DEF SubmissionInv, AttemptOK, FairReport
  <2> QED
    BY <2>1, <2>2, InvKept
<1> QED
  BY <1>1, <1>2, <1>3, PTL DEF SubmissionSpec

(* For any bundle, and however the chain moves between the failure and the *)
(* replay: an operation whose nonce is blamed cannot be executed in the    *)
(* bundle any more or was selected too early, one whose time is blamed is  *)
(* past its deadline or was in the delay of a policy, and none is blamed   *)
(* behind a lasting cause.                                                 *)
THEOREM BlameStaysFair == SubmissionSpec => []BlameIsFair
<1> USE SubmissionAssumption
<1>1. SubmissionInv => BlameIsFair
  BY DEF SubmissionInv
<1> QED
  BY <1>1, SubmissionInvariant, PTL

(* The page finds the data that the node has not wrapped, and its text is  *)
(* the error's.                                                            *)
LEMMA ShownIs == ASSUME NEW e \in Reverts PROVE ShownFor(Refusal(Hex(e))) = e
<1> USE SubmissionAssumption
<1> DEFINE err == Object([data |-> Hex(e)])
           rpc == Object([data |-> err])
           given == ValueAt(ValueAt(err, "error"), "data")
           ofRpc == ValueAt(ValueAt(err, "rpc"), "data")
           cs == <<ValueAt(err, "data"), given, ValueAt(given, "data"),
                   ValueAt(ValueAt(given, "originalError"), "data"), ofRpc, ValueAt(ofRpc, "data")>>
<1>1. ValueAt(rpc, "data") = err /\ err # Absent
  BY ValueIs DEF Object, Absent
<1>2. cs = <<Hex(e), Absent, Absent, Absent, Absent, Absent>>
  <2>1. ValueAt(err, "data") = Hex(e)
    BY ValueIs
  <2>2. ValueAt(err, "error") = Absent /\ ValueAt(err, "rpc") = Absent
    BY ValueIs
  <2>3. \A f : ValueAt(Absent, f) = Absent
    BY ValueIs
  <2> HIDE DEF err
  <2>4. given = Absent /\ ofRpc = Absent
    BY <2>2, <2>3
  <2> QED
    BY <2>1, <2>3, <2>4
<1>3. extractRevertData(err) = FirstHex(cs)
  BY DEF extractRevertData
<1> HIDE DEF cs
<1>4. /\ DOMAIN cs = 1 .. 6 /\ cs[1] = Hex(e)
      /\ \A i \in DOMAIN cs : i # 1 => cs[i] = Absent
  BY <1>2
<1>5. /\ "hex" \in DOMAIN cs[1] /\ \A i \in DOMAIN cs : i # 1 => "hex" \notin DOMAIN cs[i]
      /\ 1 \in DOMAIN cs /\ DOMAIN cs \subseteq Nat
  BY <1>4, ValueIs
<1>6. FirstHex(cs) = cs[1].hex
  BY <1>5, FoundAt
<1>7. extractRevertData(err) = e
  BY <1>3, <1>4, <1>6, ValueIs
<1>8. e # NoError
  BY DEF Reverts, NoError
<1>9. rpc = Refusal(Hex(e))
  BY DEF Refusal
<1> HIDE DEF rpc, err
<1>10. ShownFor(rpc) = format4337ErrorData(e)
  BY <1>1, <1>7, <1>8 DEF ShownFor
<1>11. format4337ErrorData(e) = e
  <2>1. CASE e.error = "FailedOpWithRevert" /\ e.inner # "SlippageRisk"
    <3>1. e \in [error : {"FailedOpWithRevert"}, opIndex : Nat, reason : {"AA33"},
                 inner : {"SlippageRisk", "Error"}]
      BY <2>1 DEF Reverts
    <3>2. e.inner = "Error" /\ decodeRevertData("Error") = "Error"
      BY <2>1, <3>1 DEF decodeRevertData
    <3>3. format4337ErrorData(e) = [e EXCEPT !.inner = "Error"]
      BY <2>1, <3>2 DEF format4337ErrorData
    <3> QED
      BY <3>1, <3>2, <3>3
  <2>2. CASE ~(e.error = "FailedOpWithRevert" /\ e.inner # "SlippageRisk")
    BY <2>2 DEF format4337ErrorData
  <2> QED
    BY <2>1, <2>2
<1> QED
  BY <1>9, <1>10, <1>11

(* For any bundle and chain: a refusal that the node does not wrap once    *)
(* more is shown as the EntryPoint's error, with the paymaster's name.     *)
THEOREM RefusalsAreExplained == SubmissionSpec => []RefusalIsExplained
<1> USE SubmissionAssumption
<1>1. SubmissionInit => RefusalIsExplained
  BY DEF SubmissionInit, RefusalIsExplained
<1>2. SubmissionInv /\ RefusalIsExplained /\ [SubmissionNext]_submissionVars => RefusalIsExplained'
  <2> SUFFICES ASSUME SubmissionInv, RefusalIsExplained, [SubmissionNext]_submissionVars
               PROVE RefusalIsExplained'
    OBVIOUS
  <2>1. CASE Estimate
    <3>1. PICK k \in Positions, wrapped \in BOOLEAN :
            LET revert == validatePrepayment(chain, {k}, k)
                alone == [revert EXCEPT !.opIndex = 0]
                given == IF wrapped THEN Object([data |-> Hex(alone)]) ELSE Hex(alone)
            IN /\ revert # NoError /\ refusal' = alone
               /\ displayed' = [text |-> ShownFor(Refusal(given)), wrapped |-> wrapped]
      BY <2>1, Zenon DEF Estimate
    <3> DEFINE revert == validatePrepayment(chain, {k}, k)
               alone == [revert EXCEPT !.opIndex = 0]
    <3>2. revert \in Reverts
      BY <3>1, PrepaymentIs DEF SubmissionInv, ChainOK
    <3> HIDE DEF revert
    <3>3. alone \in Reverts
      <4>1. CASE revert \in [error : {"FailedOp"}, opIndex : Nat, reason : {"AA25", "AA32"}]
        BY <4>1 DEF Reverts
      <4>2. CASE revert \in [error : {"FailedOpWithRevert"}, opIndex : Nat, reason : {"AA33"},
                             inner : {"SlippageRisk", "Error"}]
        BY <4>2 DEF Reverts
      <4> QED
        BY <3>2, <4>1, <4>2 DEF Reverts
    <3>4. refusal' = alone
      BY <3>1 DEF revert
    <3>5. displayed'.wrapped = wrapped /\ (~wrapped => displayed'.text = ShownFor(Refusal(Hex(alone))))
      BY <3>1 DEF revert
    <3> HIDE DEF alone
    <3>6. ShownFor(Refusal(Hex(alone))) = alone
      BY <3>3, ShownIs
    <3> QED
      BY <3>4, <3>5, <3>6 DEF RefusalIsExplained
  <2>2. CASE UNCHANGED <<refusal, displayed>>
    BY <2>2 DEF RefusalIsExplained
  <2>3. Estimate \/ UNCHANGED <<refusal, displayed>>
    <3>1. ASSUME ChainMoves PROVE UNCHANGED <<refusal, displayed>>
      BY <3>1, Zenon DEF ChainMoves
    <3>2. ASSUME SelectBeneficiary PROVE UNCHANGED <<refusal, displayed>>
      BY <3>2, Zenon DEF SelectBeneficiary
    <3>3. ASSUME RequestFails PROVE UNCHANGED <<refusal, displayed>>
      BY <3>3, Zenon DEF RequestFails
    <3>4. ASSUME SubmitType4 PROVE UNCHANGED <<refusal, displayed>>
      BY <3>4, Zenon DEF SubmitType4
    <3>5. ASSUME SubmitHandleOps PROVE UNCHANGED <<refusal, displayed>>
      BY <3>5, Zenon DEF SubmitHandleOps
    <3>6. ASSUME SubmitRefused PROVE UNCHANGED <<refusal, displayed>>
      BY <3>6, Zenon DEF SubmitRefused
    <3>7. ASSUME Execute PROVE UNCHANGED <<refusal, displayed>>
      BY <3>7, Zenon DEF Execute
    <3>8. ASSUME BlockEnds PROVE UNCHANGED <<refusal, displayed>>
      BY <3>8, Zenon DEF BlockEnds
    <3>9. ASSUME FormatGiven PROVE UNCHANGED <<refusal, displayed>>
      BY <3>9, Zenon DEF FormatGiven
    <3>10. ASSUME FormatRecovered PROVE UNCHANGED <<refusal, displayed>>
      BY <3>10, Zenon DEF FormatRecovered
    <3>11. ASSUME UNCHANGED submissionVars PROVE UNCHANGED <<refusal, displayed>>
      BY <3>11 DEF submissionVars
    <3> QED
      BY <3>1, <3>2, <3>3, <3>4, <3>5, <3>6, <3>7,
         <3>8, <3>9, <3>10, <3>11, Zenon DEF SubmissionNext
  <2> QED
    BY <2>1, <2>2, <2>3
<1> QED
  BY <1>1, <1>2, SubmissionInvariant, PTL DEF SubmissionSpec

----------------------------------------------------------------------------
(* Wallets.                                                                *)

Balances == [balance : Nat, lastSeen : Nat]
WorkersType == [at : {"idle", "block", "wallets", "wallet"}, block : Nat, to : Nat,
                left : SUBSET Wallets, wallet : SUBSET Wallets, balance : Nat]
WalletTypes ==
  /\ Tip \in Nat /\ touched \in [1 .. Tip -> SUBSET Wallets]
  /\ reached \in 0 .. Tip
  /\ worker \in [Workers -> WorkersType]
  /\ DOMAIN wallets \subseteq Wallets /\ wallets \in [DOMAIN wallets -> Balances]
  /\ reported \in [Wallets -> Nat]
  /\ evicted \subseteq Wallets /\ lookupsLost \in Nat

(* A sync is at a block that there is, and has what it has read of it.     *)
WorkersOK ==
  \A s \in Workers : worker[s].at # "idle" =>
    /\ worker[s].block \in 1 .. worker[s].to /\ worker[s].to <= Tip
    /\ worker[s].at = "wallet" =>
         \E w \in Wallets :
           /\ worker[s].wallet = {w}
           /\ worker[s].balance <= Balance(w)
           /\ \A b \in 1 .. worker[s].block : w \in touched[b] => b <= worker[s].balance

(* What is stored of a wallet was its balance when it was last seen, or    *)
(* later.                                                                  *)
BalancesOK ==
  \A w \in DOMAIN wallets :
    /\ wallets[w].lastSeen <= Tip /\ wallets[w].balance <= Balance(w)
    /\ \A b \in 1 .. wallets[w].lastSeen : w \in touched[b] => b <= wallets[w].balance

(* A wallet has been seen as late as a block, or evicted.                  *)
SeenSince(w, b) == w \in evicted \/ (w \in DOMAIN wallets /\ wallets[w].lastSeen >= b)
Looked(b) == \A w \in touched[b] : SeenSince(w, b)

(* No wallet is passed over, by none of the syncs.                         *)
NonePassedOver ==
  lookupsLost = 0 =>
    /\ \A b \in 1 .. reached : Looked(b)
    /\ \A s \in Workers : worker[s].at # "idle" =>
         /\ \A b \in 1 .. worker[s].block - 1 : Looked(b)
         /\ worker[s].at \in {"wallets", "wallet"} =>
              \A w \in touched[worker[s].block] :
                \/ w \in worker[s].left \/ (worker[s].at = "wallet" /\ w \in worker[s].wallet)
                \/ SeenSince(w, worker[s].block)

(* The wallets seen as late as a block, and the places that eviction       *)
(* leaves.                                                                 *)
Newest(m, b) == {v \in DOMAIN m : m[v].lastSeen >= b}
Places == WalletsMax + 1 - EvictBatch
ListedOrFull(m, w, b) ==
  (w \in DOMAIN m /\ m[w].lastSeen = b) \/ Cardinality(Newest(m, b)) >= Places
PlacesOK ==
  /\ Cardinality(DOMAIN wallets) <= WalletsMax
  /\ \A w \in DOMAIN wallets : wallets[w].lastSeen <= reported[w]
  /\ \A w \in Wallets : reported[w] # 0 => ListedOrFull(wallets, w, reported[w])

WalletInv == WalletTypes /\ WorkersOK /\ BalancesOK /\ NonePassedOver /\ PlacesOK

USE WalletAssumption

(* A finite set of naturals that is not empty has a last one.              *)
LEMMA Greatest ==
  ASSUME NEW S \in SUBSET Nat, S # {}, IsFiniteSet(S)
  PROVE \E m \in S : \A n \in S : n <= m
<1> DEFINE Above(b) == {c \in S : c > b}
           R == StrictSubsetOrdering(S)
           T == {Above(b) : b \in S}
<1>1. IsWellFoundedOn(R, FiniteSubsetsOf(S))
  BY FS_StrictSubsetOrderingWellFounded
<1>2. ASSUME NEW b \in S PROVE Above(b) \in SUBSET S /\ IsFiniteSet(Above(b))
  <2>1. Above(b) \in SUBSET S
    OBVIOUS
  <2> HIDE DEF Above
  <2> QED
    BY <2>1, FS_Subset
<1>3. T \subseteq FiniteSubsetsOf(S) /\ T # {}
  BY <1>2 DEF FiniteSubsetsOf
<1> HIDE DEF R, T
<1>4. PICK A \in T : \A B \in T : <<B, A>> \notin R
  BY <1>1, <1>3, WFMin
<1>5. PICK m \in S : A = Above(m)
  BY DEF T
<1>6. ASSUME NEW c \in S, c > m PROVE FALSE
  <2>1. \A d \in Above(c) : d \in Above(m)
    BY <1>6
  <2>2. c \in Above(m) /\ c \notin Above(c)
    BY <1>6
  <2>3. Above(c) \in T /\ Above(c) \in SUBSET S /\ Above(m) \in SUBSET S
    BY <1>2 DEF T
  <2> HIDE DEF Above
  <2>4. <<Above(c), Above(m)>> \in R
    BY <2>1, <2>2, <2>3 DEF R, StrictSubsetOrdering
  <2> QED
    BY <2>3, <2>4, <1>4, <1>5
<1> QED
  BY <1>6

(* A set 1 .. n has n members.                                             *)
LEMMA UpTo == \A n \in Nat : IsFiniteSet(1 .. n) /\ Cardinality(1 .. n) = n
<1> SUFFICES ASSUME NEW n \in Nat PROVE IsFiniteSet(1 .. n) /\ Cardinality(1 .. n) = n
  OBVIOUS
<1>1. 1 \in Int /\ n \in Int
  OBVIOUS
<1>2. IsFiniteSet(1 .. n) /\ Cardinality(1 .. n) = (IF 1 > n THEN 0 ELSE n - 1 + 1)
  BY ONLY <1>1, FS_Interval
<1> QED
  BY <1>2

LEMMA LatestIs ==
  ASSUME NEW S \in SUBSET (Nat \ {0}), IsFiniteSet(S)
  PROVE /\ Latest(S) \in Nat /\ \A c \in S : c <= Latest(S)
        /\ Latest(S) # 0 => Latest(S) \in S
<1>1. CASE S = {}
  BY <1>1 DEF Latest
<1>2. CASE S # {}
  <2>1. S \in SUBSET Nat
    OBVIOUS
  <2>2. \E m \in S : \A c \in S : c <= m
    BY <1>2, <2>1, Greatest
  <2>3. Latest(S) = CHOOSE m \in S : \A c \in S : c <= m
    BY <1>2 DEF Latest
  <2> QED
    BY <2>1, <2>2, <2>3
<1> QED
  BY <1>1, <1>2

(* A balance is the last block that touches the wallet.                    *)
BalanceLast(w) ==
  /\ Balance(w) \in Nat
  /\ \A b \in 1 .. Tip : w \in touched[b] => b <= Balance(w)
  /\ Balance(w) # 0 => Balance(w) \in 1 .. Tip /\ w \in touched[Balance(w)]

BalancesLast == \A w \in Wallets : BalanceLast(w)

LEMMA BalanceIs == WalletTypes => BalancesLast
<1> SUFFICES ASSUME WalletTypes, NEW w \in Wallets PROVE BalanceLast(w)
  BY DEF BalancesLast
<1> DEFINE S == {b \in DOMAIN touched : w \in touched[b]}
<1>1. DOMAIN touched = 1 .. Tip /\ Tip \in Nat
  BY DEF WalletTypes
<1>2. S \in SUBSET (Nat \ {0}) /\ S \in SUBSET Nat /\ \A b \in S : b <= Tip
  BY <1>1
<1>3. IsFiniteSet(S)
  <2> HIDE DEF S
  <2> QED
    BY <1>1, <1>2, FS_BoundedSetOfNaturals
<1>4. /\ Latest(S) \in Nat /\ \A c \in S : c <= Latest(S)
      /\ Latest(S) # 0 => Latest(S) \in S
  <2> HIDE DEF S
  <2> QED
    BY <1>2, <1>3, LatestIs
<1> QED
  BY <1>1, <1>4 DEF Balance, BalanceLast

(* While no block is mined, nothing of what the chain holds changes.       *)
LEMMA ChainRests == touched' = touched => Tip' = Tip /\ \A w \in Wallets : Balance(w)' = Balance(w)
  BY DEF Tip, Balance

(* A block leaves those before it as they are; balances only grow.         *)
LEMMA ChainGrows ==
  ASSUME WalletTypes, BlockMined
  PROVE /\ Tip' = Tip + 1 /\ touched' \in [1 .. Tip' -> SUBSET Wallets]
        /\ \A b \in 1 .. Tip : touched'[b] = touched[b]
        /\ \A w \in Wallets : Balance(w) \in Nat /\ Balance(w)' \in Nat /\ Balance(w)' >= Balance(w)
<1> USE DEF WalletTypes
<1>1. PICK W \in SUBSET Wallets :
        touched' = [b \in 1 .. Tip + 1 |-> IF b <= Tip THEN touched[b] ELSE W]
  BY DEF BlockMined
<1>2. Tip + 1 \in Nat
  OBVIOUS
<1>3. Tip' = Cardinality(1 .. Tip + 1)
  BY <1>1 DEF Tip
<1>4. Cardinality(1 .. Tip + 1) = Tip + 1
  BY <1>2, UpTo
<1>5. touched' \in [1 .. Tip + 1 -> SUBSET Wallets] /\ \A b \in 1 .. Tip : touched'[b] = touched[b]
  BY <1>1
<1>6. WalletTypes'
  BY <1>3, <1>4, <1>5 DEF BlockMined
<1>7. ASSUME NEW w \in Wallets
      PROVE Balance(w) \in Nat /\ Balance(w)' \in Nat /\ Balance(w)' >= Balance(w)
  <2> HIDE DEF WalletTypes
  <2>1. /\ Balance(w) \in Nat
        /\ Balance(w) # 0 => Balance(w) \in 1 .. Tip /\ w \in touched[Balance(w)]
    BY BalanceIs DEF BalanceLast, BalancesLast
  <2>2. Balance(w)' \in Nat /\ \A b \in 1 .. Tip' : w \in touched'[b] => b <= Balance(w)'
    <3>1. (WalletTypes => BalancesLast)'
      BY BalanceIs, PTL
    <3>2. BalanceLast(w)'
      BY <1>6, <3>1 DEF BalancesLast
    <3> QED
      BY <3>2 DEF BalanceLast
  <2>3. Tip \in Nat
    BY DEF WalletTypes
  <2> QED
    BY <2>1, <2>2, <2>3, <1>3, <1>4, <1>5
<1> QED
  BY <1>3, <1>4, <1>5, <1>7

LEMMA RestingType == Resting \in WorkersType
  BY DEF Resting, WorkersType

(* A sync that goes on to another block, or to rest.                       *)
LEMMA BlockDoneType ==
  ASSUME WalletTypes, WorkersOK, NEW s \in Workers, worker[s].at # "idle", BlockDone(s)
  PROVE worker' \in [Workers -> WorkersType] /\ reached' \in 0 .. Tip
<1> USE DEF WalletTypes
<1>1. worker[s].block + 1 \in Nat /\ worker[s].to \in 0 .. Tip
  BY DEF WorkersOK, WorkersType
<1>2. [Resting EXCEPT !.at = "block", !.block = worker[s].block + 1, !.to = worker[s].to] \in WorkersType
  BY <1>1 DEF Resting, WorkersType
<1> QED
  BY <1>1, <1>2, RestingType DEF BlockDone

LEMMA BlockDoneIs ==
  ASSUME WalletTypes, WorkersOK, NEW s \in Workers, worker[s].at # "idle", BlockDone(s)
  PROVE \E r \in WorkersType :
          /\ worker' = [worker EXCEPT ![s] = r]
          /\ \/ /\ r.at = "block" /\ r.block = worker[s].block + 1 /\ r.to = worker[s].to
                /\ r.block <= r.to /\ reached' = reached
             \/ r.at = "idle" /\ reached' = worker[s].to /\ worker[s].to = worker[s].block
<1>1. worker[s].block \in 1 .. worker[s].to /\ worker[s].to \in Nat
  BY DEF WorkersOK, WalletTypes, WorkersType
<1>2. CASE worker[s].block < worker[s].to
  <2> DEFINE r == [Resting EXCEPT !.at = "block", !.block = worker[s].block + 1, !.to = worker[s].to]
  <2>1. r \in WorkersType
    <3>1. worker[s].block + 1 \in Nat
      BY <1>1
    <3> QED
      BY <1>1, <3>1 DEF Resting, WorkersType
  <2>2. r.at = "block" /\ r.block = worker[s].block + 1 /\ r.to = worker[s].to
    BY DEF Resting
  <2>3. worker' = [worker EXCEPT ![s] = r] /\ reached' = reached
    BY <1>2 DEF BlockDone
  <2>4. r.block <= r.to
    BY <1>1, <1>2, <2>2
  <2> HIDE DEF r
  <2> QED
    BY <2>1, <2>2, <2>3, <2>4, Zenon
<1>3. CASE ~(worker[s].block < worker[s].to)
  <2>1. worker' = [worker EXCEPT ![s] = Resting] /\ reached' = worker[s].to
    BY <1>3 DEF BlockDone
  <2>2. Resting.at = "idle"
    BY DEF Resting
  <2>3. worker[s].to = worker[s].block
    BY <1>1, <1>3
  <2> QED
    BY <2>1, <2>2, <2>3, RestingType, Zenon
<1> QED
  BY <1>2, <1>3

(* What a report leaves in the store before it evicts.                     *)
LEMMA UpdatedIs ==
  ASSUME WalletTypes, NEW w \in Wallets, NEW stats \in Balances
  PROVE LET m == Updated(w, stats)
        IN /\ DOMAIN m = DOMAIN wallets \cup {w} /\ m \in [DOMAIN m -> Balances]
           /\ \A v \in DOMAIN wallets : v # w => m[v] = wallets[v]
           /\ \/ m[w] = stats /\ (w \in DOMAIN wallets => stats.lastSeen >= wallets[w].lastSeen)
              \/ w \in DOMAIN wallets /\ m[w] = wallets[w] /\ stats.lastSeen < wallets[w].lastSeen
<1> USE DEF WalletTypes, Updated
<1>1. DOMAIN Updated(w, stats) = DOMAIN wallets \cup {w}
  OBVIOUS
<1>2. \A v \in DOMAIN wallets : v # w => Updated(w, stats)[v] = wallets[v]
  OBVIOUS
<1>3. \/ Updated(w, stats)[w] = stats /\ (w \in DOMAIN wallets => stats.lastSeen >= wallets[w].lastSeen)
      \/ /\ w \in DOMAIN wallets /\ Updated(w, stats)[w] = wallets[w]
         /\ stats.lastSeen < wallets[w].lastSeen
  <2>1. w \in DOMAIN wallets => stats.lastSeen \in Nat /\ wallets[w].lastSeen \in Nat
    BY DEF Balances
  <2> QED
    BY <2>1
<1>4. Updated(w, stats) \in [DOMAIN wallets \cup {w} -> Balances]
  OBVIOUS
<1> HIDE DEF Updated
<1> QED
  BY <1>1, <1>2, <1>3, <1>4

(* Eviction makes room and takes the oldest.                               *)
LEMMA RemainingIs ==
  ASSUME NEW m, IsFiniteSet(DOMAIN m), Cardinality(DOMAIN m) <= WalletsMax + 1,
         NEW S \in Remaining(m)
  PROVE /\ S \subseteq DOMAIN m /\ Cardinality(S) <= WalletsMax
        /\ \/ S = DOMAIN m
           \/ /\ Cardinality(S) >= Places
              /\ \A v \in S, w \in DOMAIN m \ S : m[w].lastSeen <= m[v].lastSeen
<1>1. Cardinality(DOMAIN m) \in Nat
  BY FS_CardinalityType
<1>2. CASE Cardinality(DOMAIN m) <= WalletsMax
  BY <1>2 DEF Remaining
<1>3. CASE Cardinality(DOMAIN m) > WalletsMax
  <2>1. /\ S \in SUBSET DOMAIN m
        /\ Cardinality(DOMAIN m \ S) =
             (IF EvictBatch < Cardinality(DOMAIN m) THEN EvictBatch ELSE Cardinality(DOMAIN m))
        /\ \A v \in S, w \in DOMAIN m \ S : m[w].lastSeen <= m[v].lastSeen
    BY <1>1, <1>3 DEF Remaining
  <2>2. IsFiniteSet(S) /\ Cardinality(S) \in Nat
    BY <2>1, FS_Subset, FS_CardinalityType
  <2>3. Cardinality(DOMAIN m \ S) = Cardinality(DOMAIN m) - Cardinality(DOMAIN m \cap S)
    BY FS_Difference
  <2>4. DOMAIN m \cap S = S
    BY <2>1
  <2>5. Cardinality(DOMAIN m) = WalletsMax + 1
    BY <1>1, <1>3
  <2>6. WalletsMax + 1 - Cardinality(S) =
          (IF EvictBatch < WalletsMax + 1 THEN EvictBatch ELSE WalletsMax + 1)
    <3>1. Cardinality(DOMAIN m \ S) = Cardinality(DOMAIN m) - Cardinality(S)
      BY <2>3, <2>4
    <3> QED
      BY <2>1, <2>2, <2>5, <3>1
  <2>7. Cardinality(S) <= WalletsMax /\ Cardinality(S) >= Places
    BY <2>2, <2>6 DEF Places
  <2> QED
    BY <2>1, <2>7
<1> QED
  BY <1>1, <1>2, <1>3

(* A report is one of a wallet of the block at hand.                       *)
LEMMA ReportIs ==
  ASSUME WalletTypes, WorkersOK, NEW s \in Workers, WalletAnswered(s)
  PROVE \E w \in Wallets, stats \in Balances :
          /\ worker[s].wallet = {w}
          /\ stats.lastSeen = worker[s].block /\ stats.balance = worker[s].balance
          /\ updateWallet(w, stats)
          /\ reported' = [reported EXCEPT ![w] = IF @ < worker[s].block THEN worker[s].block ELSE @]
          /\ worker[s].block \in 1 .. Tip /\ stats.balance <= Balance(w)
          /\ \A b \in 1 .. worker[s].block : w \in touched[b] => b <= stats.balance
<1>1. worker[s].at = "wallet"
  BY DEF WalletAnswered
<1>2. PICK w \in Wallets :
        /\ worker[s].wallet = {w}
        /\ worker[s].balance <= Balance(w)
        /\ \A b \in 1 .. worker[s].block : w \in touched[b] => b <= worker[s].balance
  BY <1>1 DEF WorkersOK
<1>3. worker[s].block \in 1 .. Tip /\ worker[s].balance \in Nat
  BY <1>1 DEF WorkersOK, WalletTypes, WorkersType
<1> DEFINE stats == [balance |-> worker[s].balance, lastSeen |-> worker[s].block]
<1>4. stats \in Balances /\ stats.lastSeen = worker[s].block /\ stats.balance = worker[s].balance
  BY <1>3 DEF Balances
<1>5. updateWallet(w, stats)
  BY <1>2 DEF WalletAnswered
<1>6. reported' = [reported EXCEPT ![w] = IF @ < worker[s].block THEN worker[s].block ELSE @]
  BY <1>2 DEF WalletAnswered
<1> HIDE DEF stats
<1> QED
  BY <1>2, <1>3, <1>4, <1>5, <1>6

LEMMA TouchedKept == WalletNext => BlockMined \/ touched' = touched
<1> SUFFICES ASSUME NEW s \in Workers,
                    \/ TrafficStarts(s) \/ BlockRead(s) \/ WalletRead(s)
                    \/ WalletAnswered(s) \/ WalletsDone(s) \/ LookupFails(s)
             PROVE touched' = touched
  BY DEF WalletNext
<1> QED
  BY ZenonT(30) DEF TrafficStarts, BlockRead, WalletRead, WalletAnswered, WalletsDone, LookupFails

(* Only reports change the store.                                          *)
StoreVars == <<wallets, reported, evicted>>

LEMMA StoreKept == WalletNext => UNCHANGED StoreVars \/ \E s \in Workers : WalletAnswered(s)
<1> SUFFICES ASSUME WalletNext, ~\E s \in Workers : WalletAnswered(s) PROVE UNCHANGED StoreVars
  OBVIOUS
<1>1. CASE BlockMined
  BY <1>1 DEF BlockMined, StoreVars
<1>2. ASSUME NEW s \in Workers,
             TrafficStarts(s) \/ BlockRead(s) \/ WalletRead(s) \/ WalletsDone(s) \/ LookupFails(s)
      PROVE UNCHANGED StoreVars
  BY <1>2, ZenonT(30) DEF StoreVars, TrafficStarts, BlockRead, WalletRead, WalletsDone, LookupFails
<1> QED
  BY <1>1, <1>2 DEF WalletNext

LEMMA WalletTypesKept == WalletInv /\ WalletNext => WalletTypes'
<1> SUFFICES ASSUME WalletInv, WalletNext PROVE WalletTypes'
  OBVIOUS
<1> USE DEF WalletInv
<1>1. CASE BlockMined
  <2>1. Tip' = Tip + 1 /\ touched' \in [1 .. Tip' -> SUBSET Wallets]
    BY <1>1, ChainGrows
  <2> QED
    BY <1>1, <2>1 DEF WalletTypes, BlockMined
<1>2. CASE touched' = touched
  <2> USE DEF WalletTypes
  <2>1. Tip' = Tip
    BY <1>2, ChainRests
  <2>2. ASSUME NEW s \in Workers, TrafficStarts(s) PROVE WalletTypes'
    <3>1. reached + 1 \in Nat
      OBVIOUS
    <3>2. [Resting EXCEPT !.at = "block", !.block = reached + 1, !.to = Tip] \in WorkersType
      BY <3>1 DEF Resting, WorkersType
    <3> QED
      BY <2>1, <2>2, <3>2 DEF TrafficStarts
  <2>3. ASSUME NEW s \in Workers, BlockRead(s) PROVE WalletTypes'
    <3>1. worker[s].block \in 1 .. Tip
      BY <2>3 DEF BlockRead, WorkersOK, WorkersType
    <3>2. touched[worker[s].block] \in SUBSET Wallets
      BY <3>1
    <3>3. [worker[s] EXCEPT !.at = "wallets", !.left = touched[worker[s].block]] \in WorkersType
      BY <3>2 DEF WorkersType
    <3> QED
      BY <2>1, <2>3, <3>3 DEF BlockRead
  <2>4. ASSUME NEW s \in Workers, WalletRead(s) PROVE WalletTypes'
    <3>1. PICK w \in worker[s].left :
            worker' = [worker EXCEPT ![s] = Reading(s, w)]
      BY <2>4 DEF WalletRead
    <3>2. w \in Wallets /\ worker[s].left \ {w} \in SUBSET Wallets
      BY DEF WorkersType
    <3>3. Balance(w) \in Nat
      BY <3>2, BalanceIs DEF BalancesLast, BalanceLast
    <3>4. Reading(s, w) \in WorkersType
      BY <3>2, <3>3 DEF WorkersType, Reading
    <3>5. worker' \in [Workers -> WorkersType]
      BY <3>1, <3>4
    <3> QED
      BY <2>1, <2>4, <3>5 DEF WalletRead
  <2>5. ASSUME NEW s \in Workers, WalletAnswered(s) PROVE WalletTypes'
    <3>1. PICK w \in Wallets, stats \in Balances :
            /\ updateWallet(w, stats)
            /\ reported' = [reported EXCEPT ![w] = IF @ < worker[s].block THEN worker[s].block ELSE @]
            /\ worker[s].block \in 1 .. Tip
      BY <2>5, ReportIs
    <3> DEFINE m == Updated(w, stats)
    <3>2. DOMAIN m = DOMAIN wallets \cup {w} /\ m \in [DOMAIN m -> Balances]
      BY UpdatedIs
    <3> HIDE DEF m
    <3>3. PICK S \in Remaining(m) :
            wallets' = [v \in S |-> m[v]] /\ evicted' = evicted \cup (DOMAIN m \ S)
      BY <3>1 DEF updateWallet, m
    <3>4. S \subseteq DOMAIN m
      BY <3>3 DEF Remaining
    <3>5. worker' \in [Workers -> WorkersType]
      <4>1. Looking(s) \in WorkersType
        BY DEF WorkersType, Looking
      <4> QED
        BY <2>5, <4>1 DEF WalletAnswered
    <3>6. reported' \in [Wallets -> Nat]
      BY <3>1
    <3> QED
      BY <2>1, <2>5, <3>2, <3>3, <3>4, <3>5, <3>6 DEF WalletAnswered
  <2>6. ASSUME NEW s \in Workers, WalletsDone(s) PROVE WalletTypes'
    <3>1. worker' \in [Workers -> WorkersType] /\ reached' \in 0 .. Tip
      BY <2>6, BlockDoneType DEF WalletsDone
    <3> QED
      BY <2>1, <2>6, <3>1 DEF WalletsDone
  <2>7. ASSUME NEW s \in Workers, LookupFails(s) PROVE WalletTypes'
    <3>1. CASE worker[s].at = "block" /\ BlockDone(s)
      <4>1. worker' \in [Workers -> WorkersType] /\ reached' \in 0 .. Tip
        BY <3>1, BlockDoneType
      <4> QED
        BY <2>1, <2>7, <4>1 DEF LookupFails
    <3>2. CASE /\ worker' = [worker EXCEPT ![s] = Looking(s)]
               /\ UNCHANGED reached
      <4>1. Looking(s) \in WorkersType
        BY DEF WorkersType, Looking
      <4> QED
        BY <2>1, <2>7, <3>2, <4>1 DEF LookupFails
    <3> QED
      BY <2>7, <3>1, <3>2 DEF LookupFails
  <2> QED
    BY <1>1, <2>2, <2>3, <2>4, <2>5, <2>6, <2>7 DEF WalletNext
<1>3. BlockMined \/ touched' = touched
  BY TouchedKept
<1> QED
  BY <1>1, <1>2, <1>3

LEMMA WorkersKept == WalletInv /\ WalletNext => WorkersOK'
<1> SUFFICES ASSUME WalletInv, WalletNext PROVE WorkersOK'
  OBVIOUS
<1> USE DEF WalletInv
<1>1. CASE BlockMined
  <2>1. /\ Tip' = Tip + 1 /\ \A b \in 1 .. Tip : touched'[b] = touched[b]
        /\ \A w \in Wallets : Balance(w) \in Nat /\ Balance(w)' \in Nat /\ Balance(w)' >= Balance(w)
    BY <1>1, ChainGrows
  <2>2. worker' = worker
    BY <1>1 DEF BlockMined
  <2> SUFFICES ASSUME NEW s \in Workers, worker[s].at # "idle"
               PROVE /\ worker[s].block \in 1 .. worker[s].to /\ worker[s].to <= Tip'
                     /\ worker[s].at = "wallet" =>
                          \E w \in Wallets :
                            /\ worker[s].wallet = {w} /\ worker[s].balance <= Balance(w)'
                            /\ \A b \in 1 .. worker[s].block : w \in touched'[b] => b <= worker[s].balance
    BY <2>2 DEF WorkersOK
  <2>3. /\ worker[s].block \in 1 .. worker[s].to /\ worker[s].to <= Tip
        /\ worker[s].to \in Nat /\ Tip \in Nat /\ worker[s].balance \in Nat
    BY DEF WorkersOK, WalletTypes, WorkersType
  <2>4. ASSUME worker[s].at = "wallet"
        PROVE \E w \in Wallets :
                /\ worker[s].wallet = {w} /\ worker[s].balance <= Balance(w)'
                /\ \A b \in 1 .. worker[s].block : w \in touched'[b] => b <= worker[s].balance
    <3>1. PICK w \in Wallets :
            /\ worker[s].wallet = {w} /\ worker[s].balance <= Balance(w)
            /\ \A b \in 1 .. worker[s].block : w \in touched[b] => b <= worker[s].balance
      BY <2>4 DEF WorkersOK
    <3>2. worker[s].balance <= Balance(w)'
      BY <2>1, <2>3, <3>1
    <3>3. \A b \in 1 .. worker[s].block : touched'[b] = touched[b]
      BY <2>1, <2>3
    <3> QED
      BY <3>1, <3>2, <3>3
  <2> QED
    BY <2>1, <2>3, <2>4
<1>2. CASE touched' = touched
  <2>1. Tip' = Tip /\ \A w \in Wallets : Balance(w)' = Balance(w)
    BY <1>2, ChainRests
  <2>2. Tip \in Nat /\ reached \in 0 .. Tip /\ worker \in [Workers -> WorkersType]
    BY DEF WalletTypes
  <2>3. ASSUME NEW s \in Workers, TrafficStarts(s) PROVE WorkersOK'
    BY <1>2, <2>1, <2>2, <2>3 DEF TrafficStarts, WorkersOK, Resting
  <2>4. ASSUME NEW s \in Workers, BlockRead(s) PROVE WorkersOK'
    BY <1>2, <2>1, <2>2, <2>4 DEF BlockRead, WorkersOK, WorkersType
  <2>5. ASSUME NEW s \in Workers, WalletRead(s) PROVE WorkersOK'
    <3>1. PICK w \in worker[s].left : worker' = [worker EXCEPT ![s] = Reading(s, w)]
      BY <2>5 DEF WalletRead
    <3>2. w \in Wallets
      BY <2>2 DEF WorkersType
    <3>3. worker[s].block \in 1 .. worker[s].to /\ worker[s].to <= Tip /\ worker[s].to \in Nat
      BY <2>2, <2>5 DEF WalletRead, WorkersOK, WorkersType
    <3>4. Balance(w) \in Nat /\ \A b \in 1 .. Tip : w \in touched[b] => b <= Balance(w)
      BY <3>2, BalanceIs DEF BalancesLast, BalanceLast
    <3>5. Balance(w) <= Balance(w) /\ \A b \in 1 .. worker[s].block : w \in touched[b] => b <= Balance(w)
      BY <2>2, <3>3, <3>4
    <3>6. /\ Reading(s, w).block = worker[s].block /\ Reading(s, w).to = worker[s].to
          /\ Reading(s, w).wallet = {w} /\ Reading(s, w).balance = Balance(w)
      BY <2>2 DEF Reading, WorkersType
    <3> QED
      BY <1>2, <2>1, <2>2, <3>1, <3>2, <3>3, <3>5, <3>6 DEF WorkersOK
  <2>6. ASSUME NEW s \in Workers, worker[s].at # "idle", worker' = [worker EXCEPT ![s] = Looking(s)]
        PROVE WorkersOK'
    <3>1. /\ Looking(s).block = worker[s].block /\ Looking(s).to = worker[s].to
          /\ Looking(s).at = "wallets"
      BY <2>2 DEF Looking, WorkersType
    <3> QED
      BY <1>2, <2>1, <2>2, <2>6, <3>1 DEF WorkersOK
  <2>7. ASSUME NEW s \in Workers, worker[s].at # "idle", BlockDone(s) PROVE WorkersOK'
    <3>1. worker[s].block \in 1 .. worker[s].to /\ worker[s].to <= Tip /\ worker[s].to \in Nat
      BY <2>2, <2>7 DEF WorkersOK, WorkersType
    <3>2. PICK r \in WorkersType :
            /\ worker' = [worker EXCEPT ![s] = r]
            /\ \/ r.at = "block" /\ r.block = worker[s].block + 1 /\ r.to = worker[s].to /\ r.block <= r.to
               \/ r.at = "idle"
      BY <2>7, BlockDoneIs
    <3> QED
      BY <1>2, <2>1, <2>2, <3>1, <3>2 DEF WorkersOK
  <2> QED
    BY <1>1, <2>3, <2>4, <2>5, <2>6, <2>7 DEF WalletNext, WalletAnswered, WalletsDone, LookupFails
<1> QED
  BY <1>1, <1>2, TouchedKept

LEMMA BalancesKept == WalletInv /\ WalletNext => BalancesOK'
<1> SUFFICES ASSUME WalletInv, WalletNext PROVE BalancesOK'
  OBVIOUS
<1> USE DEF WalletInv
<1>1. CASE BlockMined
  <2>1. /\ Tip' = Tip + 1 /\ \A b \in 1 .. Tip : touched'[b] = touched[b]
        /\ \A w \in Wallets : Balance(w) \in Nat /\ Balance(w)' \in Nat /\ Balance(w)' >= Balance(w)
    BY <1>1, ChainGrows
  <2>2. wallets' = wallets
    BY <1>1 DEF BlockMined
  <2>3. ASSUME NEW w \in DOMAIN wallets
        PROVE /\ wallets[w].lastSeen <= Tip' /\ wallets[w].balance <= Balance(w)'
              /\ \A b \in 1 .. wallets[w].lastSeen : w \in touched'[b] => b <= wallets[w].balance
    <3>1. Tip \in Nat /\ w \in Wallets /\ wallets[w].lastSeen \in Nat /\ wallets[w].balance \in Nat
      BY DEF WalletTypes, Balances
    <3>2. /\ wallets[w].lastSeen <= Tip /\ wallets[w].balance <= Balance(w)
          /\ \A b \in 1 .. wallets[w].lastSeen : w \in touched[b] => b <= wallets[w].balance
      BY DEF BalancesOK
    <3>3. \A b \in 1 .. wallets[w].lastSeen : touched'[b] = touched[b]
      BY <2>1, <3>1, <3>2
    <3> QED
      BY <2>1, <3>1, <3>2, <3>3
  <2> QED
    BY <2>2, <2>3 DEF BalancesOK
<1>2. CASE touched' = touched
  <2>1. Tip' = Tip /\ \A w \in Wallets : Balance(w)' = Balance(w)
    BY <1>2, ChainRests
  <2>2. ASSUME NEW s \in Workers, WalletAnswered(s) PROVE BalancesOK'
    <3>1. PICK w \in Wallets, stats \in Balances :
            /\ updateWallet(w, stats)
            /\ stats.lastSeen = worker[s].block /\ worker[s].block \in 1 .. Tip
            /\ stats.balance <= Balance(w)
            /\ \A b \in 1 .. worker[s].block : w \in touched[b] => b <= stats.balance
      BY <2>2, ReportIs
    <3> DEFINE m == Updated(w, stats)
    <3>2. /\ DOMAIN m = DOMAIN wallets \cup {w}
          /\ \A v \in DOMAIN wallets : v # w => m[v] = wallets[v]
          /\ m[w] = stats \/ (w \in DOMAIN wallets /\ m[w] = wallets[w])
      BY UpdatedIs
    <3> HIDE DEF m
    <3>3. PICK S \in Remaining(m) : wallets' = [v \in S |-> m[v]]
      BY <3>1 DEF updateWallet, m
    <3>4. S \subseteq DOMAIN m
      BY <3>3 DEF Remaining
    <3>5. ASSUME NEW v \in DOMAIN m
          PROVE /\ m[v].lastSeen <= Tip /\ m[v].balance <= Balance(v)
                /\ \A b \in 1 .. m[v].lastSeen : v \in touched[b] => b <= m[v].balance
      <4>1. CASE v \in DOMAIN wallets /\ m[v] = wallets[v]
        BY <4>1 DEF BalancesOK
      <4>2. CASE v = w /\ m[v] = stats
        BY <3>1, <4>2 DEF WalletTypes
      <4> QED
        BY <3>2, <4>1, <4>2
    <3>6. \A v \in S : v \in Wallets
      BY <3>2, <3>4 DEF WalletTypes
    <3> QED
      BY <1>2, <2>1, <3>3, <3>4, <3>5, <3>6 DEF BalancesOK
  <2>3. CASE wallets' = wallets
    <3>1. DOMAIN wallets \subseteq Wallets
      BY DEF WalletTypes
    <3> QED
      BY <1>2, <2>1, <2>3, <3>1 DEF BalancesOK
  <2>4. wallets' = wallets \/ \E s \in Workers : WalletAnswered(s)
    BY StoreKept DEF StoreVars
  <2> QED
    BY <2>2, <2>3, <2>4
<1> QED
  BY <1>1, <1>2, TouchedKept

(* Once seen, or evicted, a wallet stays so.                               *)
LEMMA SeenKept ==
  ASSUME WalletInv, WalletNext
  PROVE \A w \in Wallets, b \in Nat : SeenSince(w, b) => SeenSince(w, b)'
<1> SUFFICES ASSUME NEW w \in Wallets, NEW b \in Nat, SeenSince(w, b) PROVE SeenSince(w, b)'
  OBVIOUS
<1> USE DEF WalletInv
<1>1. CASE UNCHANGED StoreVars
  BY <1>1 DEF StoreVars, SeenSince
<1>2. ASSUME NEW s \in Workers, WalletAnswered(s) PROVE SeenSince(w, b)'
  <2>1. PICK v \in Wallets, stats \in Balances : updateWallet(v, stats)
    BY <1>2, ReportIs
  <2> DEFINE m == Updated(v, stats)
  <2>2. /\ DOMAIN m = DOMAIN wallets \cup {v}
        /\ \A u \in DOMAIN wallets : u # v => m[u] = wallets[u]
        /\ \/ m[v] = stats /\ (v \in DOMAIN wallets => stats.lastSeen >= wallets[v].lastSeen)
           \/ v \in DOMAIN wallets /\ m[v] = wallets[v]
    BY <2>1, UpdatedIs
  <2> HIDE DEF m
  <2>3. PICK S \in Remaining(m) :
          wallets' = [u \in S |-> m[u]] /\ evicted' = evicted \cup (DOMAIN m \ S)
    BY <2>1 DEF updateWallet, m
  <2>4. CASE w \in evicted
    BY <2>3, <2>4 DEF SeenSince
  <2>5. CASE w \in DOMAIN wallets /\ wallets[w].lastSeen >= b
    <3>1. wallets[w].lastSeen \in Nat /\ stats.lastSeen \in Nat
      BY <2>5 DEF WalletTypes, Balances
    <3>2. w \in DOMAIN m /\ m[w].lastSeen >= b
      BY <2>2, <2>5, <3>1
    <3> QED
      BY <2>3, <3>2 DEF SeenSince
  <2> QED
    BY <2>4, <2>5 DEF SeenSince
<1> QED
  BY <1>1, <1>2, StoreKept

LEMMA LookedKept ==
  ASSUME WalletInv, WalletNext, NEW b \in 1 .. Tip, Looked(b), touched'[b] = touched[b]
  PROVE Looked(b)'
<1>1. \A w \in touched[b] : w \in Wallets /\ SeenSince(w, b) /\ b \in Nat
  BY DEF WalletInv, WalletTypes, Looked
<1> QED
  BY <1>1, SeenKept DEF Looked

(* A report makes its wallet seen.                                         *)
LEMMA ReportSeen ==
  ASSUME WalletInv, NEW w \in Wallets, NEW stats \in Balances, updateWallet(w, stats)
  PROVE SeenSince(w, stats.lastSeen)'
<1> DEFINE m == Updated(w, stats)
<1>1. /\ w \in DOMAIN m
      /\ \/ m[w] = stats
         \/ w \in DOMAIN wallets /\ m[w] = wallets[w] /\ stats.lastSeen < wallets[w].lastSeen
  BY UpdatedIs DEF WalletInv
<1> HIDE DEF m
<1>2. stats.lastSeen \in Nat /\ (w \in DOMAIN wallets => wallets[w].lastSeen \in Nat)
  BY DEF WalletInv, WalletTypes, Balances
<1>3. m[w].lastSeen >= stats.lastSeen
  BY <1>1, <1>2
<1>4. PICK S \in Remaining(m) :
        wallets' = [u \in S |-> m[u]] /\ evicted' = evicted \cup (DOMAIN m \ S)
  BY DEF updateWallet, m
<1> QED
  BY <1>1, <1>3, <1>4 DEF SeenSince

LEMMA NoneKept == WalletInv /\ WalletNext => NonePassedOver'
<1> SUFFICES ASSUME WalletInv, WalletNext, lookupsLost' = 0 PROVE NonePassedOver'
  BY DEF NonePassedOver
<1> USE DEF WalletInv
<1>1. Tip \in Nat /\ reached \in 0 .. Tip /\ worker \in [Workers -> WorkersType]
  BY DEF WalletTypes
<1>2. \A b \in 1 .. Tip : touched'[b] = touched[b]
  BY ChainGrows, TouchedKept
<1>3. lookupsLost = 0
  <2>1. lookupsLost \in Nat
    BY DEF WalletTypes
  <2>2. ASSUME NEW s \in Workers, LookupFails(s) PROVE FALSE
    BY <2>1, <2>2 DEF LookupFails
  <2>3. ASSUME NEW s \in Workers,
               TrafficStarts(s) \/ BlockRead(s) \/ WalletRead(s) \/ WalletAnswered(s) \/ WalletsDone(s)
        PROVE lookupsLost' = lookupsLost
    BY <2>3, ZenonT(30) DEF TrafficStarts, BlockRead, WalletRead, WalletAnswered, WalletsDone
  <2>4. CASE BlockMined
    BY <2>4 DEF BlockMined
  <2> QED
    BY <2>2, <2>3, <2>4 DEF WalletNext
<1>4. /\ \A b \in 1 .. reached : Looked(b)
      /\ \A s \in Workers : worker[s].at # "idle" =>
           /\ \A b \in 1 .. worker[s].block - 1 : Looked(b)
           /\ worker[s].at \in {"wallets", "wallet"} =>
                \A w \in touched[worker[s].block] :
                  \/ w \in worker[s].left \/ (worker[s].at = "wallet" /\ w \in worker[s].wallet)
                  \/ SeenSince(w, worker[s].block)
  BY <1>3 DEF NonePassedOver
<1>5. \A s \in Workers : worker[s].at # "idle" =>
        worker[s].block \in 1 .. worker[s].to /\ worker[s].to <= Tip /\ worker[s].to \in Nat
  BY <1>1 DEF WorkersOK, WorkersType
(* What a sync has done stays done, by whichever step.                     *)
<1>6. \A b \in 1 .. reached : Looked(b)'
  BY <1>1, <1>2, <1>4, LookedKept
<1>7. \A s \in Workers : worker[s].at # "idle" => \A b \in 1 .. worker[s].block - 1 : Looked(b)'
  BY <1>1, <1>2, <1>4, <1>5, LookedKept
<1>8. ASSUME NEW s \in Workers, worker[s].at \in {"wallets", "wallet"},
             NEW b \in Nat, b = worker[s].block, NEW w \in touched'[b]
      PROVE \/ w \in worker[s].left \/ (worker[s].at = "wallet" /\ w \in worker[s].wallet)
            \/ SeenSince(w, b)'
  <2>1. b \in 1 .. Tip
    BY <1>1, <1>5, <1>8
  <2>2. touched'[b] = touched[b]
    BY <1>2, <2>1
  <2>3. \/ w \in worker[s].left \/ (worker[s].at = "wallet" /\ w \in worker[s].wallet)
        \/ SeenSince(w, b)
    BY <1>4, <1>8, <2>2
  <2>4. w \in Wallets
    BY <2>1, <2>2 DEF WalletTypes
  <2> QED
    BY <2>3, <2>4, SeenKept
(* The steps.                                                              *)
<1>9. ASSUME NEW s \in Workers, NEW r, worker' = [worker EXCEPT ![s] = r],
             \A b \in 1 .. reached' : Looked(b)',
             r.at # "idle" =>
               /\ \A b \in 1 .. r.block - 1 : Looked(b)'
               /\ r.at \in {"wallets", "wallet"} =>
                    /\ r.block \in Nat
                    /\ \A b \in Nat : b = r.block => \A w \in touched'[b] :
                         w \in r.left \/ (r.at = "wallet" /\ w \in r.wallet) \/ SeenSince(w, b)'
      PROVE NonePassedOver'
  <2>1. worker'[s] = r /\ \A v \in Workers : v # s => worker'[v] = worker[v]
    BY <1>1, <1>9
  <2>2. ASSUME NEW v \in Workers, worker'[v].at # "idle"
        PROVE /\ \A b \in 1 .. worker'[v].block - 1 : Looked(b)'
              /\ worker'[v].at \in {"wallets", "wallet"} =>
                   \A w \in touched'[worker'[v].block] :
                     \/ w \in worker'[v].left \/ (worker'[v].at = "wallet" /\ w \in worker'[v].wallet)
                     \/ SeenSince(w, worker[v].block)'
    <3>1. CASE v = s
      BY <1>9, <2>1, <2>2, <3>1
    <3>2. CASE v # s
      BY <1>5, <1>7, <1>8, <2>1, <2>2, <3>2
    <3> QED
      BY <3>1, <3>2
  <2> QED
    BY <1>9, <2>2 DEF NonePassedOver
<1>10. CASE UNCHANGED <<worker, reached>>
  BY <1>5, <1>6, <1>7, <1>8, <1>10 DEF NonePassedOver
<1>11. ASSUME NEW s \in Workers, TrafficStarts(s) PROVE NonePassedOver'
  <2> DEFINE r == [Resting EXCEPT !.at = "block", !.block = reached + 1, !.to = Tip]
  <2>1. worker' = [worker EXCEPT ![s] = r] /\ reached' = reached
    BY <1>11 DEF TrafficStarts
  <2>2. r.at = "block" /\ r.block - 1 = reached
    BY <1>1 DEF Resting
  <2> HIDE DEF r
  <2> QED
    BY <1>6, <1>9, <2>1, <2>2
<1>12. ASSUME NEW s \in Workers, BlockRead(s) PROVE NonePassedOver'
  <2> DEFINE r == [worker[s] EXCEPT !.at = "wallets", !.left = touched[worker[s].block]]
  <2>1. worker' = [worker EXCEPT ![s] = r] /\ reached' = reached /\ worker[s].at = "block" /\ touched' = touched
    BY <1>12 DEF BlockRead
  <2>2. r.block = worker[s].block /\ r.left = touched[worker[s].block]
    BY <1>1 DEF WorkersType
  <2>3. worker[s].block \in Nat
    BY <1>1 DEF WorkersType
  <2> HIDE DEF r
  <2> QED
    BY <1>6, <1>7, <1>9, <2>1, <2>2, <2>3
<1>13. ASSUME NEW s \in Workers, WalletRead(s) PROVE NonePassedOver'
  <2>1. PICK w \in worker[s].left : worker' = [worker EXCEPT ![s] = Reading(s, w)]
    BY <1>13 DEF WalletRead
  <2>2. reached' = reached /\ worker[s].at = "wallets"
    BY <1>13 DEF WalletRead
  <2>3. /\ Reading(s, w).block = worker[s].block /\ Reading(s, w).left = worker[s].left \ {w}
        /\ Reading(s, w).wallet = {w} /\ Reading(s, w).at = "wallet"
    BY <1>1 DEF WorkersType, Reading
  <2>4. worker[s].block \in Nat
    BY <1>1 DEF WorkersType
  <2>5. \A b \in Nat : b = worker[s].block => \A v \in touched'[b] : v \in worker[s].left \/ SeenSince(v, b)'
    BY <1>8, <2>2
  <2> QED
    BY <1>6, <1>7, <1>9, <2>1, <2>2, <2>3, <2>4, <2>5
<1>14. ASSUME NEW s \in Workers, WalletAnswered(s) PROVE NonePassedOver'
  <2>1. worker' = [worker EXCEPT ![s] = Looking(s)] /\ reached' = reached /\ worker[s].at = "wallet"
    BY <1>14 DEF WalletAnswered
  <2>2. /\ Looking(s).block = worker[s].block /\ Looking(s).left = worker[s].left
        /\ Looking(s).at = "wallets"
    BY <1>1 DEF WorkersType, Looking
  <2>3. PICK w \in Wallets, stats \in Balances :
          worker[s].wallet = {w} /\ stats.lastSeen = worker[s].block /\ updateWallet(w, stats)
    BY <1>14, ReportIs
  <2>4. \A b \in Nat : b = worker[s].block => SeenSince(w, b)'
    BY <2>3, ReportSeen
  <2>5. worker[s].block \in Nat
    BY <1>1 DEF WorkersType
  <2>6. \A b \in Nat : b = worker[s].block => \A v \in touched'[b] : v \in worker[s].left \/ SeenSince(v, b)'
    BY <1>8, <2>1, <2>3, <2>4
  <2> QED
    BY <1>6, <1>7, <1>9, <2>1, <2>2, <2>5, <2>6
<1>15. ASSUME NEW s \in Workers, WalletsDone(s) PROVE NonePassedOver'
  <2>1. worker[s].at = "wallets" /\ worker[s].left = {}
    BY <1>15 DEF WalletsDone
  <2>2. PICK r \in WorkersType :
          /\ worker' = [worker EXCEPT ![s] = r]
          /\ \/ r.at = "block" /\ r.block = worker[s].block + 1 /\ reached' = reached
             \/ r.at = "idle" /\ reached' = worker[s].to /\ worker[s].to = worker[s].block
    BY <1>15, <2>1, BlockDoneIs DEF WalletsDone
  <2>3. worker[s].block \in Nat
    BY <1>1 DEF WorkersType
  <2>4. \A b \in Nat : b = worker[s].block => Looked(b)'
    BY <1>8, <2>1 DEF Looked
  <2>5. \A b \in 1 .. worker[s].block : Looked(b)'
    BY <1>7, <2>1, <2>3, <2>4
  <2>6. CASE r.at = "block" /\ r.block = worker[s].block + 1 /\ reached' = reached
    <3>1. r.block - 1 = worker[s].block
      BY <2>3, <2>6
    <3> QED
      BY <1>6, <1>9, <2>2, <2>5, <2>6, <3>1
  <2>7. CASE r.at = "idle" /\ reached' = worker[s].block
    BY <1>9, <2>2, <2>5, <2>7
  <2> QED
    BY <2>2, <2>6, <2>7
<1>16. ASSUME NEW s \in Workers, LookupFails(s) PROVE FALSE
  BY <1>3, <1>16 DEF LookupFails
<1> QED
  BY <1>10, <1>11, <1>12, <1>13, <1>14, <1>15, <1>16 DEF WalletNext, BlockMined

(* Who is seen as late stays listed, or what eviction leaves is full of    *)
(* wallets seen as late.                                                   *)
LEMMA EvictionFair ==
  ASSUME NEW m, IsFiniteSet(DOMAIN m), Cardinality(DOMAIN m) <= WalletsMax + 1,
         m \in [DOMAIN m -> Balances], NEW S \in Remaining(m),
         NEW w, NEW b \in Nat, ListedOrFull(m, w, b)
  PROVE ListedOrFull([v \in S |-> m[v]], w, b)
<1> DEFINE n == [v \in S |-> m[v]]
<1> SUFFICES ListedOrFull(n, w, b)
  OBVIOUS
<1>1. /\ S \subseteq DOMAIN m
      /\ \/ S = DOMAIN m
         \/ /\ Cardinality(S) >= Places
            /\ \A v \in S, u \in DOMAIN m \ S : m[u].lastSeen <= m[v].lastSeen
  BY RemainingIs
<1>2. \A v \in DOMAIN m : m[v].lastSeen \in Nat
  BY DEF Balances
<1>3. \A v \in S : n[v] = m[v]
  OBVIOUS
<1>4. DOMAIN n = S
  OBVIOUS
<1> HIDE DEF n
<1>5. CASE w \in S /\ m[w].lastSeen = b
  BY <1>3, <1>4, <1>5 DEF ListedOrFull
<1>6. ASSUME NEW u \in DOMAIN m \ S, m[u].lastSeen >= b PROVE ListedOrFull(n, w, b)
  <2>1. \A v \in S : m[v].lastSeen >= b
    BY <1>1, <1>2, <1>6
  <2>2. Newest(n, b) = S
    BY <1>3, <1>4, <2>1 DEF Newest
  <2> QED
    BY <1>1, <1>6, <2>2 DEF ListedOrFull
<1>7. CASE Cardinality(Newest(m, b)) >= Places /\ ~\E u \in DOMAIN m \ S : m[u].lastSeen >= b
  <2>1. Newest(n, b) = Newest(m, b)
    BY <1>1, <1>3, <1>4, <1>7 DEF Newest
  <2> QED
    BY <1>7, <2>1 DEF ListedOrFull
<1>8. CASE w \in DOMAIN m \ S /\ m[w].lastSeen = b
  BY <1>2, <1>6, <1>8
<1> QED
  BY <1>5, <1>6, <1>7, <1>8 DEF ListedOrFull

LEMMA PlacesKept == WalletInv /\ WalletNext => PlacesOK'
<1> SUFFICES ASSUME WalletInv, WalletNext PROVE PlacesOK'
  OBVIOUS
<1> USE DEF WalletInv
<1>1. CASE UNCHANGED StoreVars
  BY <1>1 DEF StoreVars, PlacesOK, ListedOrFull, Newest
<1>2. ASSUME NEW s \in Workers, WalletAnswered(s) PROVE PlacesOK'
  <2>1. PICK w \in Wallets, stats \in Balances :
          /\ stats.lastSeen = worker[s].block /\ updateWallet(w, stats)
          /\ reported' = [reported EXCEPT ![w] = IF @ < worker[s].block THEN worker[s].block ELSE @]
          /\ worker[s].block \in 1 .. Tip
    BY <1>2, ReportIs
  <2> DEFINE m == Updated(w, stats)
             b == worker[s].block
  <2>2. /\ DOMAIN m = DOMAIN wallets \cup {w} /\ m \in [DOMAIN m -> Balances]
        /\ \A v \in DOMAIN wallets : v # w => m[v] = wallets[v]
        /\ \/ m[w] = stats /\ (w \in DOMAIN wallets => stats.lastSeen >= wallets[w].lastSeen)
           \/ w \in DOMAIN wallets /\ m[w] = wallets[w] /\ stats.lastSeen < wallets[w].lastSeen
    BY <2>1, UpdatedIs
  <2> HIDE DEF m
  <2>3. PICK S \in Remaining(m) : wallets' = [v \in S |-> m[v]]
    BY <2>1 DEF updateWallet, m
  <2>4. IsFiniteSet(DOMAIN wallets) /\ Cardinality(DOMAIN wallets) \in Nat
    BY FS_Subset, FS_CardinalityType DEF WalletTypes
  <2>5. IsFiniteSet(DOMAIN m) /\ Cardinality(DOMAIN m) <= WalletsMax + 1
    <3>1. /\ IsFiniteSet(DOMAIN wallets \cup {w})
          /\ Cardinality(DOMAIN wallets \cup {w}) =
               IF w \in DOMAIN wallets THEN Cardinality(DOMAIN wallets) ELSE Cardinality(DOMAIN wallets) + 1
      BY <2>4, FS_AddElement
    <3>2. Cardinality(DOMAIN wallets) <= WalletsMax
      BY DEF PlacesOK
    <3> QED
      BY <2>2, <2>4, <3>1, <3>2
  <2>6. b \in Nat \ {0} /\ reported \in [Wallets -> Nat]
    BY <2>1 DEF WalletTypes
  <2>7. S \subseteq DOMAIN m /\ Cardinality(S) <= WalletsMax
    BY <2>5, RemainingIs
  <2>8. \A v \in DOMAIN wallets :
          v \in Wallets /\ wallets[v].lastSeen \in Nat /\ wallets[v].lastSeen <= reported[v]
    BY DEF WalletTypes, Balances, PlacesOK
  <2>9. /\ reported' \in [Wallets -> Nat] /\ \A v \in Wallets : v # w => reported'[v] = reported[v]
        /\ reported'[w] = (IF reported[w] < b THEN b ELSE reported[w])
    BY <2>1, <2>6
  <2>10. \A v \in DOMAIN m : m[v].lastSeen <= reported'[v]
    BY <2>1, <2>2, <2>6, <2>8, <2>9
  <2>11. ASSUME NEW c \in Nat PROVE Cardinality(Newest(wallets, c)) <= Cardinality(Newest(m, c))
    <3>1. \A v \in DOMAIN wallets : v \in DOMAIN m /\ m[v].lastSeen >= wallets[v].lastSeen /\ m[v].lastSeen \in Nat
      BY <2>2, <2>8 DEF Balances
    <3>2. Newest(wallets, c) \subseteq Newest(m, c)
      BY <2>8, <3>1 DEF Newest
    <3>3. Newest(m, c) \subseteq DOMAIN m
      BY DEF Newest
    <3>4. IsFiniteSet(Newest(m, c))
      BY <2>5, <3>3, FS_Subset
    <3> QED
      BY <3>2, <3>4, FS_Subset
  <2>12. ASSUME NEW c \in Nat
         PROVE Cardinality(Newest(wallets, c)) \in Nat /\ Cardinality(Newest(m, c)) \in Nat
    <3>1. Newest(wallets, c) \subseteq DOMAIN wallets /\ Newest(m, c) \subseteq DOMAIN m
      BY DEF Newest
    <3> QED
      BY <2>4, <2>5, <3>1, FS_Subset, FS_CardinalityType
  <2>13. Places \in Int
    BY DEF Places
  <2>14. ASSUME NEW v \in Wallets, reported'[v] # 0 PROVE ListedOrFull(m, v, reported'[v])
    <3>1. CASE v # w
      <4>1. ListedOrFull(wallets, v, reported[v]) /\ reported'[v] = reported[v]
        BY <2>9, <2>14, <3>1 DEF PlacesOK
      <4>2. reported[v] \in Nat
        BY <2>6
      <4> QED
        BY <2>2, <2>11, <2>12, <2>13, <3>1, <4>1, <4>2 DEF ListedOrFull
    <3>2. CASE v = w /\ m[w] = stats /\ reported[w] <= b
      BY <2>1, <2>2, <2>6, <2>9, <3>2 DEF ListedOrFull
    <3>3. CASE v = w /\ b < reported[w]
      <4>1. ListedOrFull(wallets, w, reported[w]) /\ reported'[w] = reported[w] /\ reported[w] \in Nat
        BY <2>6, <2>9, <3>3 DEF PlacesOK
      <4>2. CASE w \in DOMAIN wallets /\ wallets[w].lastSeen = reported[w]
        BY <2>1, <2>2, <2>6, <2>8, <3>3, <4>1, <4>2 DEF ListedOrFull
      <4>3. CASE Cardinality(Newest(wallets, reported[w])) >= Places
        BY <2>11, <2>12, <2>13, <3>3, <4>1, <4>3 DEF ListedOrFull
      <4> QED
        BY <4>1, <4>2, <4>3 DEF ListedOrFull
    <3>4. CASE v = w /\ reported[w] <= b /\ m[w] # stats
      BY <2>1, <2>2, <2>6, <2>8, <3>4
    <3> QED
      BY <2>6, <3>1, <3>2, <3>3, <3>4
  <2>15. ASSUME NEW v \in Wallets, reported'[v] # 0 PROVE ListedOrFull(wallets', v, reported'[v])
    <3>1. reported'[v] \in Nat
      BY <2>9
    <3> QED
      BY <2>2, <2>3, <2>5, <2>14, <2>15, <3>1, EvictionFair
  <2>16. Cardinality(DOMAIN wallets') <= WalletsMax /\ \A v \in DOMAIN wallets' : wallets'[v].lastSeen <= reported'[v]
    BY <2>3, <2>7, <2>10
  <2>17. \A v \in Wallets : reported'[v] # 0 => ListedOrFull(wallets, v, reported[v])'
    BY <2>15 DEF ListedOrFull, Newest
  <2> QED
    BY <2>16, <2>17 DEF PlacesOK
<1> QED
  BY <1>1, <1>2, StoreKept

(* WalletInv is inductive.                                                 *)
THEOREM WalletInvariant == WalletSpec => []WalletInv
<1>1. WalletInit => WalletInv
  <2> SUFFICES ASSUME WalletInit PROVE WalletInv
    OBVIOUS
  <2> USE DEF WalletInit
  <2>1. Tip = 0
    <3>1. DOMAIN touched = {}
      OBVIOUS
    <3> QED
      BY <3>1, FS_EmptySet DEF Tip
  <2>2. Resting.at = "idle" /\ DOMAIN wallets = {}
    BY DEF Resting
  <2>3. WalletTypes
    BY <2>1, <2>2, RestingType DEF WalletTypes
  <2>4. PlacesOK
    BY <2>2, FS_EmptySet DEF PlacesOK
  <2> QED
    BY <2>1, <2>2, <2>3, <2>4 DEF WalletInv, WorkersOK, BalancesOK, NonePassedOver
<1>2. WalletInv /\ UNCHANGED walletVars => WalletInv'
  <2> SUFFICES ASSUME WalletInv, UNCHANGED walletVars PROVE WalletInv'
    OBVIOUS
  <2> USE DEF WalletInv, walletVars
  <2>1. Tip' = Tip /\ \A w \in Wallets : Balance(w)' = Balance(w)
    BY ChainRests
  <2>2. DOMAIN wallets \subseteq Wallets
    BY DEF WalletTypes
  <2>3. WalletTypes' /\ WorkersOK'
    BY <2>1 DEF WalletTypes, WorkersOK
  <2>4. BalancesOK'
    BY <2>1, <2>2 DEF BalancesOK
  <2>5. NonePassedOver'
    BY DEF NonePassedOver, Looked, SeenSince
  <2>6. PlacesOK'
    BY DEF PlacesOK, ListedOrFull, Newest
  <2> QED
    BY <2>3, <2>4, <2>5, <2>6
<1>3. WalletInv /\ [WalletNext]_walletVars => WalletInv'
  BY <1>2, WalletTypesKept, WorkersKept, BalancesKept, NoneKept, PlacesKept DEF WalletInv
<1> QED
  BY <1>1, <1>3, PTL DEF WalletSpec

(* For any numbers of wallets, blocks, syncs and places, and however the   *)
(* syncs overlap: once they have caught up, a wallet that was never        *)
(* evicted shows its balance if no lookup failed; and a wallet that was    *)
(* reported is missing only if wallets seen no earlier take the places.    *)
THEOREM WalletsCurrent == WalletSpec => []WalletsAreCurrent
<1>1. WalletInv => WalletsAreCurrent
  <2> SUFFICES ASSUME WalletInv PROVE WalletsAreCurrent
    OBVIOUS
  <2> USE DEF WalletInv
  <2>1. ASSUME CaughtUp, lookupsLost = 0, NEW w \in DOMAIN wallets, w \notin evicted
        PROVE wallets[w].balance = Balance(w)
    <3>1. w \in Wallets /\ wallets[w].balance \in Nat /\ wallets[w].lastSeen \in Nat /\ Tip \in Nat
      BY DEF WalletTypes, Balances
    <3>2. /\ Balance(w) \in Nat
          /\ Balance(w) # 0 => Balance(w) \in 1 .. Tip /\ w \in touched[Balance(w)]
      BY <3>1, BalanceIs DEF BalancesLast, BalanceLast
    <3>3. /\ wallets[w].balance <= Balance(w)
          /\ \A b \in 1 .. wallets[w].lastSeen : w \in touched[b] => b <= wallets[w].balance
      BY DEF BalancesOK
    <3>4. CASE Balance(w) # 0
      <4>1. Looked(Balance(w))
        BY <2>1, <3>2, <3>4 DEF CaughtUp, NonePassedOver
      <4>2. wallets[w].lastSeen >= Balance(w)
        BY <2>1, <3>2, <3>4, <4>1 DEF Looked, SeenSince
      <4> QED
        BY <3>1, <3>2, <3>3, <3>4, <4>2
    <3> QED
      BY <3>1, <3>2, <3>3, <3>4
  <2>2. ASSUME NEW w \in Wallets, reported[w] # 0, w \notin DOMAIN wallets
        PROVE Cardinality({v \in DOMAIN wallets : wallets[v].lastSeen >= reported[w]})
                >= WalletsMax + 1 - EvictBatch
    BY <2>2 DEF PlacesOK, ListedOrFull, Newest, Places
  <2> QED
    BY <2>1, <2>2 DEF WalletsAreCurrent
<1> QED
  BY <1>1, WalletInvariant, PTL

----------------------------------------------------------------------------
(* Sessions and users.                                                     *)

People == Owners \cup {AccountOf[o] : o \in Owners} \cup {NoOne}
Sessions == {SessionOf[p] : p \in Pages}
PageType == [open : BOOLEAN, owner : Owners \cup {NoOne}, sender : People, use7702 : BOOLEAN,
             connecting : BOOLEAN, asked : SUBSET Owners, timer : Nat]
HeartbeatType == [page : Pages, session : Sessions, owner : Owners \cup {NoOne}, sender : People,
                  sent : Nat]
TelemetryTypes ==
  /\ now \in Nat
  /\ page \in [Pages -> PageType]
  /\ wire \subseteq HeartbeatType
  /\ sessions \in [DOMAIN sessions -> 0 .. now]
  /\ missed \in [Pages -> 0 .. 2] /\ closedAt \in [Pages -> 0 .. now]

(* A page's timer fires on time; a page that is closed waits for nothing.  *)
PagesOK ==
  \A p \in Pages :
    /\ page[p].open => page[p].timer \in {now, now + 1}
    /\ ~page[p].open => page[p] = Blank /\ missed[p] = 2
    /\ page[p].connecting => page[p].owner \in Owners

(* A heartbeat is on its way for at most a unit, and none was sent since   *)
(* its page was closed.                                                    *)
SentWhileOpen(p, t) == page[p].open \/ t <= closedAt[p]
WireOK ==
  \A hb \in wire :
    /\ hb.session = SessionOf[hb.page] /\ hb.sent <= now /\ now <= hb.sent + 1
    /\ SentWhileOpen(hb.page, hb.sent)

(* Behind a session is a page that is open, or was when it was last seen.  *)
SessionsOK ==
  \A s \in DOMAIN sessions :
    \E p \in Pages : SessionOf[p] = s /\ SentWhileOpen(p, sessions[s] - 1)

(* Since a page's heartbeat was received at t, the page has sent one each  *)
(* unit, and all but as many as are missed are on their way.               *)
OnWire(p, u) == \E hb \in wire : hb.page = p /\ hb.sent = u
ReceivedAt(p, t) ==
  /\ SessionOf[p] \in DOMAIN sessions /\ t <= sessions[SessionOf[p]]
  /\ closedAt[p] <= t
  /\ \E x \in Nat : \A u \in t + 1 .. page[p].timer - 1 : OnWire(p, u) \/ (missed[p] = 1 /\ u = x)
Received == \A p \in Pages : page[p].open /\ missed[p] < 2 => \E t \in 0 .. now : ReceivedAt(p, t)

(* Senders, owners and links are entered together, one by one.             *)
LinksOK ==
  /\ NoOne \notin DOMAIN senders /\ IsFiniteSet(DOMAIN senders)
  /\ \A s \in DOMAIN senders : senders[s] # NoOne => <<senders[s], s>> \in links
  /\ \A link \in links : link \in owners \X DOMAIN senders

TelemetryInv == TelemetryTypes /\ PagesOK /\ WireOK /\ SessionsOK /\ Received /\ LinksOK

USE TelemetryAssumption

LEMMA BlankType == Blank \in PageType /\ ~Blank.open /\ ~Blank.connecting /\ Blank.asked = {}
  BY DEF Blank, PageType, People

(* A page shows something else, and sends a heartbeat or not.              *)
PageStep(p) ==
  \E r \in PageType :
    /\ page' = [page EXCEPT ![p] = r]
    /\ page[p].open /\ r.open
    /\ r.connecting => r.owner \in Owners
    /\ \/ r.timer = page[p].timer /\ wire' = wire
       \/ /\ r.timer = now + 1
          /\ \E hb \in HeartbeatType :
               /\ hb.page = p /\ hb.session = SessionOf[p] /\ hb.sent = now
               /\ wire' = wire \cup {hb}
PageStepVars == <<now, sessions, owners, senders, links, missed, closedAt>>

LEMMA HeartbeatIs ==
  ASSUME NEW p \in Pages, NEW shown \in PageType, now \in Nat
  PROVE /\ Heartbeat(p, shown) \in HeartbeatType /\ Heartbeat(p, shown).page = p
        /\ Heartbeat(p, shown).session = SessionOf[p] /\ Heartbeat(p, shown).sent = now
  BY DEF Heartbeat, HeartbeatType, PageType, Sessions

LEMMA SendsIs ==
  ASSUME NEW p, NEW r \in PageType, page' = [page EXCEPT ![p] = r], page[p].open, r.open,
         r.connecting => r.owner \in Owners, r.timer = now + 1,
         NEW hb \in HeartbeatType, hb.page = p, hb.session = SessionOf[p], hb.sent = now,
         wire' = wire \cup {hb}
  PROVE PageStep(p)
  BY Zenon DEF PageStep

LEMMA StaysIs ==
  ASSUME NEW p, NEW r \in PageType, page' = [page EXCEPT ![p] = r], page[p].open, r.open,
         r.connecting => r.owner \in Owners, r.timer = page[p].timer, wire' = wire
  PROVE PageStep(p)
  BY Zenon DEF PageStep

LEMMA RenderedIs ==
  ASSUME TelemetryTypes, NEW p \in Pages, NEW shown \in PageType, Rendered(p, shown),
         page[p].open, shown.open, shown.connecting => shown.owner \in Owners,
         shown.timer = page[p].timer
  PROVE PageStep(p)
<1> DEFINE r == [shown EXCEPT !.timer = now + 1]
<1>1. now \in Nat
  BY DEF TelemetryTypes
<1>2. r \in PageType /\ r.timer = now + 1 /\ (r.open <=> shown.open)
      /\ (r.connecting <=> shown.connecting) /\ r.owner = shown.owner
  BY <1>1 DEF PageType
<1>3. CASE page' = [page EXCEPT ![p] = r] /\ wire' = wire \cup {Heartbeat(p, shown)}
  <2> HIDE DEF r
  <2> QED
    BY <1>1, <1>2, <1>3, HeartbeatIs, SendsIs
<1>4. CASE page' = [page EXCEPT ![p] = shown] /\ wire' = wire \cup {}
  <2>1. wire' = wire
    BY <1>4
  <2> QED
    BY <1>4, <2>1, Zenon DEF PageStep
<1> QED
  BY <1>3, <1>4 DEF Rendered

LEMMA PageSteps ==
  ASSUME TelemetryTypes, PagesOK, NEW p \in Pages,
         \/ TimerFires(p) \/ Toggle7702(p) \/ AddressFound(p) \/ AddressFails(p)
         \/ \E o \in Owners : Connect(p, o)
  PROVE PageStep(p) /\ UNCHANGED PageStepVars
<1> USE DEF TelemetryTypes
<1>1. page[p] \in PageType /\ now \in Nat
  OBVIOUS
<1>2. page[p].connecting => page[p].owner \in Owners
  BY DEF PagesOK
<1>3. ~page[p].open => ~page[p].connecting /\ page[p].asked = {}
  BY BlankType DEF PagesOK
<1>4. CASE TimerFires(p)
  <2> DEFINE r == [page[p] EXCEPT !.timer = now + 1]
  <2>1. r \in PageType /\ r.timer = now + 1 /\ (r.open <=> page[p].open)
        /\ (r.connecting <=> page[p].connecting) /\ r.owner = page[p].owner
    BY <1>1 DEF PageType
  <2>2. page' = [page EXCEPT ![p] = r] /\ wire' = wire \cup {Heartbeat(p, page[p])} /\ page[p].open
    BY <1>4 DEF TimerFires
  <2> HIDE DEF r
  <2>3. PageStep(p)
    <3> DEFINE hb == Heartbeat(p, page[p])
    <3>1. hb \in HeartbeatType /\ hb.page = p /\ hb.session = SessionOf[p] /\ hb.sent = now
      BY <1>1, HeartbeatIs
    <3>2. wire' = wire \cup {hb}
      BY <2>2
    <3>3. r.connecting => r.owner \in Owners
      BY <1>2, <2>1
    <3> HIDE DEF hb
    <3> QED
      BY <2>1, <2>2, <3>1, <3>2, <3>3, SendsIs
  <2> QED
    BY <1>4, <2>3 DEF TimerFires, PageStepVars, store
<1>5. ASSUME NEW o \in Owners, Connect(p, o) PROVE PageStep(p) /\ UNCHANGED PageStepVars
  <2>1. ConnectedTo(p, o) \in PageType
    BY <1>1 DEF PageType, People, ConnectedTo
  <2>2. /\ ConnectedTo(p, o).open <=> page[p].open
        /\ ConnectedTo(p, o).owner = o /\ ConnectedTo(p, o).timer = page[p].timer
    BY <1>1 DEF PageType, ConnectedTo
  <2>3. PageStep(p)
    BY <1>5, <2>1, <2>2, RenderedIs DEF Connect, SwapPageChanges
  <2> QED
    BY <1>5, <2>3 DEF Connect, SwapPageChanges, PageStepVars, store
<1>6. CASE Toggle7702(p)
  <2>1. Toggled(p) \in PageType
    BY <1>1 DEF PageType, People, Toggled
  <2>2. /\ Toggled(p).open <=> page[p].open
        /\ Toggled(p).connecting <=> page[p].connecting
        /\ Toggled(p).owner = page[p].owner /\ Toggled(p).timer = page[p].timer
    BY <1>1 DEF PageType, Toggled
  <2>3. PageStep(p)
    BY <1>2, <1>6, <2>1, <2>2, RenderedIs DEF Toggle7702, SwapPageChanges
  <2> QED
    BY <1>6, <2>3 DEF Toggle7702, SwapPageChanges, PageStepVars, store
<1>7. CASE AddressFound(p)
  <2>1. ASSUME page[p].connecting,
               Rendered(p, [page[p] EXCEPT !.sender = AccountOf[page[p].owner], !.connecting = FALSE])
        PROVE PageStep(p)
    <3> DEFINE shown == [page[p] EXCEPT !.sender = AccountOf[page[p].owner], !.connecting = FALSE]
    <3>1. shown \in PageType
      BY <1>1, <1>2, <2>1 DEF PageType, People
    <3>2. (shown.open <=> page[p].open) /\ shown.timer = page[p].timer /\ ~shown.connecting
      BY <1>1 DEF PageType
    <3>3. Rendered(p, shown) /\ page[p].open
      BY <1>1, <1>3, <2>1 DEF PageType
    <3> HIDE DEF shown
    <3> QED
      BY <3>1, <3>2, <3>3, RenderedIs
  <2>2. ASSUME NEW o \in page[p].asked, Rendered(p, [page[p] EXCEPT !.sender = AccountOf[o], !.asked = @ \ {o}])
        PROVE PageStep(p)
    <3> DEFINE shown == [page[p] EXCEPT !.sender = AccountOf[o], !.asked = @ \ {o}]
    <3>1. shown \in PageType
      BY <1>1 DEF PageType, People
    <3>2. /\ (shown.open <=> page[p].open) /\ shown.timer = page[p].timer /\ shown.owner = page[p].owner
          /\ (shown.connecting <=> page[p].connecting)
      BY <1>1 DEF PageType
    <3>3. Rendered(p, shown) /\ page[p].open
      BY <1>1, <1>3, <2>2 DEF PageType
    <3> HIDE DEF shown
    <3> QED
      BY <1>2, <3>1, <3>2, <3>3, RenderedIs
  <2>3. PageStep(p)
    BY <1>7, <2>1, <2>2, Zenon DEF AddressFound
  <2>4. UNCHANGED PageStepVars
    BY <1>7, Zenon DEF AddressFound, PageStepVars, store
  <2> QED
    BY <2>3, <2>4
<1>8. CASE AddressFails(p)
  <2>1. ASSUME page[p].connecting, page' = [page EXCEPT ![p].connecting = FALSE] PROVE PageStep(p)
    <3> DEFINE r == [page[p] EXCEPT !.connecting = FALSE]
    <3>1. r \in PageType /\ (r.open <=> page[p].open) /\ r.timer = page[p].timer /\ ~r.connecting
      BY <1>1 DEF PageType
    <3>2. page' = [page EXCEPT ![p] = r] /\ page[p].open /\ wire' = wire
      BY <1>1, <1>3, <1>8, <2>1 DEF PageType, AddressFails
    <3> HIDE DEF r
    <3> QED
      BY <3>1, <3>2, StaysIs
  <2>2. ASSUME NEW o \in page[p].asked, page' = [page EXCEPT ![p].asked = @ \ {o}] PROVE PageStep(p)
    <3> DEFINE r == [page[p] EXCEPT !.asked = @ \ {o}]
    <3>1. /\ r \in PageType /\ (r.open <=> page[p].open) /\ r.timer = page[p].timer
          /\ r.owner = page[p].owner /\ (r.connecting <=> page[p].connecting)
      BY <1>1 DEF PageType
    <3>2. page' = [page EXCEPT ![p] = r] /\ page[p].open /\ wire' = wire
      BY <1>1, <1>3, <1>8, <2>2 DEF PageType, AddressFails
    <3> HIDE DEF r
    <3> QED
      BY <1>2, <3>1, <3>2, StaysIs
  <2> QED
    BY <1>8, <2>1, <2>2 DEF AddressFails, PageStepVars, store
<1> QED
  BY <1>4, <1>5, <1>6, <1>7, <1>8

LEMMA TelemetryTypesKept == TelemetryInv /\ TelemetryNext => TelemetryTypes'
<1> SUFFICES ASSUME TelemetryInv, TelemetryNext PROVE TelemetryTypes'
  OBVIOUS
<1> USE DEF TelemetryInv, TelemetryTypes
<1>1. ASSUME NEW p \in Pages, Open(p) PROVE TelemetryTypes'
  <2> DEFINE shown == [Blank EXCEPT !.open = TRUE, !.timer = now + 1]
  <2>1. shown \in PageType
    <3>1. now + 1 \in Nat
      OBVIOUS
    <3> QED
      BY <3>1 DEF Blank, PageType, People
  <2> HIDE DEF shown
  <2>2. page' = [page EXCEPT ![p] = shown] /\ wire' = wire \cup {Heartbeat(p, shown)}
    BY <1>1 DEF Open, shown
  <2>3. Heartbeat(p, shown) \in HeartbeatType
    BY <2>1, HeartbeatIs
  <2> QED
    BY <1>1, <2>1, <2>2, <2>3 DEF Open, store
<1>2. ASSUME NEW p \in Pages, Close(p) PROVE TelemetryTypes'
  BY <1>2, BlankType DEF Close, store
<1>3. ASSUME NEW p \in Pages, PageStep(p), UNCHANGED PageStepVars PROVE TelemetryTypes'
  BY <1>3 DEF PageStep, PageStepVars
<1>4. ASSUME NEW hb \in wire, Receive(hb) PROVE TelemetryTypes'
  <2>1. sessions' \in [DOMAIN sessions' -> 0 .. now]
    BY <1>4 DEF Receive, upsertSession
  <2>2. missed' \in [Pages -> 0 .. 2]
    <3>1. 0 \in 0 .. 2
      OBVIOUS
    <3>2. [missed EXCEPT ![hb.page] = 0] \in [Pages -> 0 .. 2]
      BY <3>1
    <3> QED
      BY <1>4, <3>2 DEF Receive
  <2> QED
    BY <1>4, <2>1, <2>2 DEF Receive
<1>5. ASSUME NEW hb \in wire, Lose(hb) PROVE TelemetryTypes'
  <2>1. missed' \in [Pages -> 0 .. 2]
    <3>1. hb.page \in Pages
      BY DEF HeartbeatType
    <3>2. (IF missed[hb.page] < 2 THEN missed[hb.page] + 1 ELSE 2) \in 0 .. 2
      BY <3>1
    <3> QED
      BY <1>5, <3>1, <3>2 DEF Lose
  <2> QED
    BY <1>5, <2>1 DEF Lose, store
<1>6. CASE Restart
  <2>1. sessions' = <<>> /\ DOMAIN sessions' = {}
    BY <1>6 DEF Restart
  <2>2. missed' \in [Pages -> 0 .. 2]
    BY <1>6 DEF Restart
  <2>3. sessions' \in [DOMAIN sessions' -> 0 .. now]
    BY <2>1
  <2> QED
    BY <1>6, <2>2, <2>3 DEF Restart
<1>7. CASE Tick
  <2>1. 0 .. now \subseteq 0 .. now + 1
    OBVIOUS
  <2> QED
    BY <1>7, <2>1 DEF Tick, store
<1> QED
  BY <1>1, <1>2, <1>3, <1>4, <1>5, <1>6, <1>7, PageSteps DEF TelemetryNext

LEMMA PagesKept == TelemetryInv /\ TelemetryNext => PagesOK'
<1> SUFFICES ASSUME TelemetryInv, TelemetryNext PROVE PagesOK'
  OBVIOUS
<1> USE DEF TelemetryInv, TelemetryTypes
<1>1. ASSUME NEW p \in Pages, Open(p) PROVE PagesOK'
  <2> DEFINE shown == [Blank EXCEPT !.open = TRUE, !.timer = now + 1]
  <2>1. shown.open /\ ~shown.connecting /\ shown.timer = now + 1
    BY DEF Blank
  <2> HIDE DEF shown
  <2>2. page' = [page EXCEPT ![p] = shown] /\ now' = now /\ missed' = missed
    BY <1>1 DEF Open, shown
  <2> QED
    BY <2>1, <2>2 DEF PagesOK
<1>2. ASSUME NEW p \in Pages, Close(p) PROVE PagesOK'
  BY <1>2, BlankType DEF Close, PagesOK
<1>3. ASSUME NEW p \in Pages, PageStep(p), UNCHANGED PageStepVars PROVE PagesOK'
  <2>1. PICK r \in PageType :
          /\ page' = [page EXCEPT ![p] = r] /\ page[p].open /\ r.open
          /\ r.connecting => r.owner \in Owners
          /\ r.timer \in {page[p].timer, now + 1}
    BY <1>3 DEF PageStep
  <2>2. now' = now /\ missed' = missed
    BY <1>3 DEF PageStepVars
  <2> QED
    BY <2>1, <2>2 DEF PagesOK
<1>4. ASSUME NEW hb \in wire, Receive(hb) PROVE PagesOK'
  <2>1. page' = page /\ now' = now
    BY <1>4 DEF Receive
  <2>2. \A p \in Pages : ~page[p].open => missed'[p] = missed[p]
    BY <1>4 DEF Receive
  <2> QED
    BY <2>1, <2>2 DEF PagesOK
<1>5. ASSUME NEW hb \in wire, Lose(hb) PROVE PagesOK'
  <2>1. page' = page /\ now' = now
    BY <1>5 DEF Lose
  <2>2. \A p \in Pages : missed[p] = 2 => missed'[p] = 2
    BY <1>5 DEF Lose
  <2> QED
    BY <2>1, <2>2 DEF PagesOK
<1>6. CASE Restart
  BY <1>6 DEF Restart, PagesOK
<1>7. CASE Tick
  <2>1. \A p \in Pages : page[p].open => page[p].timer = now'
    BY <1>7 DEF Tick, PagesOK
  <2>2. page' = page /\ missed' = missed
    BY <1>7 DEF Tick
  <2> QED
    BY <2>1, <2>2 DEF PagesOK
<1> QED
  BY <1>1, <1>2, <1>3, <1>4, <1>5, <1>6, <1>7, PageSteps DEF TelemetryNext

LEMMA WireKept == TelemetryInv /\ TelemetryNext => WireOK'
<1> SUFFICES ASSUME TelemetryInv, TelemetryNext PROVE WireOK'
  OBVIOUS
<1> USE DEF TelemetryInv, TelemetryTypes, SentWhileOpen
<1>0. \A hb \in wire : hb.page \in Pages /\ hb.sent \in Nat
  BY DEF HeartbeatType
<1>1. ASSUME NEW p \in Pages, Open(p) PROVE WireOK'
  <2> DEFINE shown == [Blank EXCEPT !.open = TRUE, !.timer = now + 1]
             hb == Heartbeat(p, shown)
  <2>1. shown.open
    BY DEF Blank
  <2>2. hb.page = p /\ hb.session = SessionOf[p] /\ hb.sent = now
    BY DEF Heartbeat
  <2> HIDE DEF shown, hb
  <2>3. page' = [page EXCEPT ![p] = shown] /\ wire' = wire \cup {hb} /\ now' = now /\ closedAt' = closedAt
    BY <1>1 DEF Open, shown, hb
  <2>4. \A q \in Pages : page[q].open => page'[q].open
    BY <2>1, <2>3
  <2>5. page'[p].open
    BY <2>1, <2>3
  <2> QED
    BY <1>0, <2>2, <2>3, <2>4, <2>5 DEF WireOK
<1>2. ASSUME NEW p \in Pages, Close(p) PROVE WireOK'
  <2>1. closedAt'[p] = now /\ now' = now /\ wire' = wire
    BY <1>2 DEF Close
  <2>2. \A q \in Pages : q # p => page'[q] = page[q] /\ closedAt'[q] = closedAt[q]
    BY <1>2 DEF Close
  <2> QED
    BY <1>0, <2>1, <2>2 DEF WireOK
<1>3. ASSUME NEW p \in Pages, PageStep(p), UNCHANGED PageStepVars PROVE WireOK'
  <2>1. PICK r \in PageType :
          /\ page' = [page EXCEPT ![p] = r] /\ r.open
          /\ \/ wire' = wire
             \/ \E hb \in HeartbeatType :
                  /\ hb.page = p /\ hb.session = SessionOf[p] /\ hb.sent = now
                  /\ wire' = wire \cup {hb}
    BY <1>3 DEF PageStep
  <2>2. now' = now /\ closedAt' = closedAt
    BY <1>3 DEF PageStepVars
  <2>3. \A q \in Pages : page[q].open => page'[q].open
    BY <2>1
  <2>4. page'[p].open
    BY <2>1
  <2>5. CASE wire' = wire
    BY <1>0, <2>2, <2>3, <2>5 DEF WireOK
  <2>6. ASSUME NEW hb, hb.page = p /\ hb.session = SessionOf[p] /\ hb.sent = now, wire' = wire \cup {hb}
        PROVE WireOK'
    BY <1>0, <2>2, <2>3, <2>4, <2>6 DEF WireOK
  <2> QED
    BY <2>1, <2>5, <2>6
<1>4. CASE wire' \subseteq wire /\ UNCHANGED <<now, page, closedAt>>
  BY <1>0, <1>4 DEF WireOK
<1>5. CASE Tick
  BY <1>0, <1>5 DEF Tick, WireOK
<1> QED
  BY <1>1, <1>2, <1>3, <1>4, <1>5, PageSteps DEF TelemetryNext, Receive, Lose, Restart

LEMMA SessionsKept == TelemetryInv /\ TelemetryNext => SessionsOK'
<1> SUFFICES ASSUME TelemetryInv, TelemetryNext PROVE SessionsOK'
  OBVIOUS
<1> USE DEF TelemetryInv, TelemetryTypes, SentWhileOpen
<1>1. ASSUME NEW p \in Pages, Open(p) PROVE SessionsOK'
  <2> DEFINE shown == [Blank EXCEPT !.open = TRUE, !.timer = now + 1]
  <2>1. shown.open
    BY DEF Blank
  <2> HIDE DEF shown
  <2>2. page' = [page EXCEPT ![p] = shown] /\ sessions' = sessions /\ closedAt' = closedAt
    BY <1>1 DEF Open, shown, store
  <2>3. \A q \in Pages : page[q].open => page'[q].open
    BY <2>1, <2>2
  <2> QED
    BY <2>2, <2>3 DEF SessionsOK
<1>2. ASSUME NEW p \in Pages, Close(p) PROVE SessionsOK'
  <2>1. closedAt'[p] = now /\ sessions' = sessions
    BY <1>2 DEF Close, store
  <2>2. \A q \in Pages : q # p => page'[q] = page[q] /\ closedAt'[q] = closedAt[q]
    BY <1>2 DEF Close
  <2>3. \A s \in DOMAIN sessions : sessions[s] \in 0 .. now
    OBVIOUS
  <2> QED
    BY <2>1, <2>2, <2>3 DEF SessionsOK
<1>3. ASSUME NEW p \in Pages, PageStep(p), UNCHANGED PageStepVars PROVE SessionsOK'
  <2>1. \A q \in Pages : page[q].open => page'[q].open
    BY <1>3 DEF PageStep
  <2> QED
    BY <1>3, <2>1 DEF SessionsOK, PageStepVars
<1>4. ASSUME NEW hb \in wire, Receive(hb) PROVE SessionsOK'
  <2>1. /\ hb.page \in Pages /\ hb.sent \in Nat /\ hb.session = SessionOf[hb.page]
        /\ now <= hb.sent + 1 /\ (page[hb.page].open \/ hb.sent <= closedAt[hb.page])
    BY DEF HeartbeatType, WireOK
  <2>2. page' = page /\ closedAt' = closedAt
    BY <1>4 DEF Receive
  <2>3. SentWhileOpen(hb.page, now - 1)
    BY <2>1
  <2>4. /\ DOMAIN sessions' = DOMAIN sessions \cup {hb.session}
        /\ \A s \in DOMAIN sessions' : sessions'[s] = IF s = hb.session THEN now ELSE sessions[s]
    BY <1>4 DEF Receive, upsertSession
  <2> QED
    BY <2>1, <2>2, <2>3, <2>4 DEF SessionsOK
<1>5. CASE UNCHANGED <<page, sessions, closedAt>>
  BY <1>5 DEF SessionsOK
<1>6. CASE Restart
  <2>1. DOMAIN sessions' = {}
    BY <1>6 DEF Restart
  <2> QED
    BY <2>1 DEF SessionsOK
<1> QED
  BY <1>1, <1>2, <1>3, <1>4, <1>5, <1>6, PageSteps DEF TelemetryNext, Lose, Tick, store

LEMMA LinksKept == TelemetryInv /\ TelemetryNext => LinksOK'
<1> SUFFICES ASSUME TelemetryInv, TelemetryNext PROVE LinksOK'
  OBVIOUS
<1> USE DEF TelemetryInv
<1>1. ASSUME NEW hb \in wire, Receive(hb) PROVE LinksOK'
  <2>1. upsertSession(hb)
    BY <1>1 DEF Receive
  <2>2. /\ DOMAIN senders' = DOMAIN senders \cup ({hb.sender} \ {NoOne})
        /\ \A s \in DOMAIN senders' : senders'[s] = IF s = hb.sender THEN OwnerOf(hb) ELSE senders[s]
    BY <2>1 DEF upsertSession
  <2>3. owners' = owners \cup ({hb.owner} \ {NoOne}) /\ links' = Linked(hb)
    BY <2>1 DEF upsertSession
  <2>4. /\ links \subseteq links'
        /\ hb.owner # NoOne /\ hb.sender # NoOne => <<hb.owner, hb.sender>> \in links'
    BY <2>3 DEF Linked
  <2>5. \A link \in links' : link \in links \/ (hb.owner # NoOne /\ hb.sender # NoOne /\ link = <<hb.owner, hb.sender>>)
    BY <2>3 DEF Linked
  <2>6. ASSUME NEW s \in DOMAIN senders', senders'[s] # NoOne PROVE <<senders'[s], s>> \in links'
    <3>1. s # NoOne
      BY <2>2 DEF LinksOK
    <3>2. CASE s # hb.sender
      BY <2>2, <2>4, <2>6, <3>2 DEF LinksOK
    <3>3. CASE s = hb.sender /\ hb.owner # NoOne
      <4>1. senders'[s] = hb.owner
        BY <2>2, <3>3 DEF OwnerOf
      <4> QED
        BY <2>4, <3>1, <3>3, <4>1
    <3>4. CASE s = hb.sender /\ hb.owner = NoOne
      <4>1. s \in DOMAIN senders /\ senders'[s] = senders[s]
        BY <2>2, <2>6, <3>4 DEF OwnerOf
      <4> QED
        BY <2>4, <2>6, <4>1 DEF LinksOK
    <3> QED
      BY <3>2, <3>3, <3>4
  <2>8. NoOne \notin DOMAIN senders'
    BY <2>2 DEF LinksOK
  <2>7. \A link \in links' : link \in owners' \X DOMAIN senders'
    <3>1. owners \subseteq owners' /\ DOMAIN senders \subseteq DOMAIN senders'
      BY <2>2, <2>3
    <3>2. hb.owner # NoOne => hb.owner \in owners'
      BY <2>3
    <3>3. hb.sender # NoOne => hb.sender \in DOMAIN senders'
      BY <2>2
    <3> QED
      BY <2>5, <3>1, <3>2, <3>3 DEF LinksOK
  <2>9. IsFiniteSet(DOMAIN senders')
    <3>1. IsFiniteSet({hb.sender} \ {NoOne})
      <4>1. {hb.sender} \ {NoOne} \subseteq {hb.sender}
        OBVIOUS
      <4> QED
        BY <4>1, FS_Singleton, FS_Subset
    <3>2. IsFiniteSet(DOMAIN senders)
      BY DEF LinksOK
    <3>3. IsFiniteSet(DOMAIN senders \cup ({hb.sender} \ {NoOne}))
      BY <3>1, <3>2, FS_Union
    <3> QED
      BY <2>2, <3>3, Zenon
  <2> QED
    BY <2>6, <2>7, <2>8, <2>9, Zenon DEF LinksOK
<1>2. CASE Restart
  <2>1. DOMAIN senders' = {} /\ links' = {}
    BY <1>2 DEF Restart
  <2>2. IsFiniteSet(DOMAIN senders')
    BY <2>1, FS_EmptySet, Zenon
  <2> QED
    BY <2>1, <2>2 DEF LinksOK
<1>3. CASE UNCHANGED <<owners, senders, links>>
  BY <1>3 DEF LinksOK
<1>4. \A p \in Pages : PageStep(p) /\ UNCHANGED PageStepVars => UNCHANGED <<owners, senders, links>>
  BY DEF PageStepVars
<1> QED
  BY <1>1, <1>2, <1>3, <1>4, PageSteps DEF TelemetryNext, Open, Close, Lose, Tick, store
(* What was received stays so while no heartbeat of the page is taken.     *)
LEMMA StillReceived ==
  ASSUME TelemetryTypes, NEW p \in Pages, NEW t \in Nat, ReceivedAt(p, t),
         DOMAIN sessions \subseteq DOMAIN sessions',
         \A s \in DOMAIN sessions : sessions'[s] \in Nat /\ sessions[s] <= sessions'[s],
         closedAt'[p] = closedAt[p], missed'[p] = missed[p],
         \A u \in t + 1 .. page'[p].timer - 1 :
           OnWire(p, u)' \/ (u <= page[p].timer - 1 /\ (OnWire(p, u) => OnWire(p, u)')),
         page'[p].timer \in Nat
  PROVE ReceivedAt(p, t)'
<1> USE DEF TelemetryTypes
<1>1. /\ SessionOf[p] \in DOMAIN sessions' /\ t <= sessions'[SessionOf[p]]
      /\ closedAt'[p] <= t
  BY DEF ReceivedAt
<1>2. PICK x \in Nat : \A u \in t + 1 .. page[p].timer - 1 : OnWire(p, u) \/ (missed[p] = 1 /\ u = x)
  BY DEF ReceivedAt
<1>3. page[p].timer \in Nat
  BY DEF PageType
<1>4. ASSUME NEW u \in t + 1 .. page'[p].timer - 1
      PROVE OnWire(p, u)' \/ (missed'[p] = 1 /\ u = x)
  <2>1. CASE OnWire(p, u)'
    BY <2>1
  <2>2. CASE u <= page[p].timer - 1 /\ (OnWire(p, u) => OnWire(p, u)')
    <3>1. u \in t + 1 .. page[p].timer - 1
      BY <1>3, <2>2
    <3> QED
      BY <1>2, <2>2, <3>1
  <2> QED
    BY <2>1, <2>2
<1>5. \A u \in t + 1 .. page'[p].timer - 1 : OnWire(p, u)' \/ (missed'[p] = 1 /\ u = x)
  BY <1>4
<1> QED
  BY <1>1, <1>5 DEF ReceivedAt, OnWire

LEMMA ReceivedKept == TelemetryInv /\ TelemetryNext => Received'
<1> SUFFICES ASSUME TelemetryInv, TelemetryNext, NEW p \in Pages, page'[p].open, missed'[p] < 2
             PROVE \E t \in 0 .. now' : ReceivedAt(p, t)'
  BY DEF Received, ReceivedAt, OnWire
<1> USE DEF TelemetryInv, TelemetryTypes
<1>1. \A q \in Pages : page[q].timer \in Nat /\ missed[q] \in 0 .. 2
  BY DEF PageType
<1>2. \A hb \in wire : hb.page \in Pages /\ hb.sent \in Nat /\ hb.session \in Sessions
  BY DEF HeartbeatType
<1>3. \A s \in DOMAIN sessions : sessions[s] \in 0 .. now
  OBVIOUS
<1>4. ASSUME page[p].open, missed[p] < 2 PROVE \E t \in 0 .. now : ReceivedAt(p, t)
  BY <1>4 DEF Received
<1>5. ASSUME UNCHANGED <<sessions, closedAt>>, now' \in Nat, now <= now', missed'[p] = missed[p],
             page[p].open, page'[p].timer \in Nat,
             \/ page'[p].timer = page[p].timer
             \/ page'[p].timer = now + 1 /\ now' = now /\ OnWire(p, now)',
             wire \subseteq wire'
      PROVE \E t \in 0 .. now' : ReceivedAt(p, t)'
  <2>1. PICK t \in 0 .. now : ReceivedAt(p, t)
    BY <1>4, <1>5
  <2>2. \A u : OnWire(p, u) => OnWire(p, u)'
    BY <1>5 DEF OnWire
  <2>3. page[p].timer \in {now, now + 1}
    BY <1>5 DEF PagesOK
  <2>4. ASSUME NEW u \in t + 1 .. page'[p].timer - 1
        PROVE OnWire(p, u)' \/ (u <= page[p].timer - 1 /\ (OnWire(p, u) => OnWire(p, u)'))
    <3>1. u <= page[p].timer - 1 \/ (u = now /\ now' = now /\ OnWire(p, now)')
      BY <1>1, <1>5, <2>3
    <3> QED
      BY <2>2, <3>1 DEF OnWire
  <2>5. ReceivedAt(p, t)'
    BY <1>3, <1>5, <2>1, <2>4, StillReceived
  <2> QED
    BY <1>5, <2>1, <2>5
<1>6. ASSUME NEW q \in Pages, Open(q) PROVE \E t \in 0 .. now' : ReceivedAt(p, t)'
  <2> DEFINE shown == [Blank EXCEPT !.open = TRUE, !.timer = now + 1]
  <2>1. page' = [page EXCEPT ![q] = shown] /\ wire' = wire \cup {Heartbeat(q, shown)} /\ ~page[q].open
    BY <1>6 DEF Open
  <2> HIDE DEF shown
  <2>2. UNCHANGED <<now, sessions, closedAt, missed>>
    BY <1>6 DEF Open, store
  <2>3. p # q
    BY <2>1, <2>2 DEF PagesOK
  <2> QED
    BY <1>1, <1>5, <2>1, <2>2, <2>3
<1>7. ASSUME NEW q \in Pages, Close(q) PROVE \E t \in 0 .. now' : ReceivedAt(p, t)'
  <2>1. p # q
    BY <1>7 DEF Close
  <2>2. page'[p] = page[p] /\ missed'[p] = missed[p] /\ closedAt'[p] = closedAt[p]
    BY <1>7, <2>1 DEF Close
  <2>3. now' = now /\ sessions' = sessions /\ wire' = wire
    BY <1>7 DEF Close, store
  <2>4. PICK t \in 0 .. now : ReceivedAt(p, t)
    BY <1>4, <2>2
  <2>5. ReceivedAt(p, t)'
    BY <1>1, <1>3, <2>2, <2>3, <2>4, StillReceived DEF OnWire
  <2> QED
    BY <2>3, <2>5
<1>8. ASSUME NEW q \in Pages, PageStep(q), UNCHANGED PageStepVars
      PROVE \E t \in 0 .. now' : ReceivedAt(p, t)'
  <2>1. PICK r \in PageType :
          /\ page' = [page EXCEPT ![q] = r] /\ page[q].open
          /\ \/ r.timer = page[q].timer /\ wire' = wire
             \/ /\ r.timer = now + 1
                /\ \E hb \in HeartbeatType :
                     /\ hb.page = q /\ hb.session = SessionOf[q] /\ hb.sent = now
                     /\ wire' = wire \cup {hb}
    BY <1>8 DEF PageStep
  <2>2. UNCHANGED <<now, sessions, closedAt, missed>>
    BY <1>8 DEF PageStepVars
  <2>3. wire \subseteq wire' /\ page[p].open /\ page'[p].timer \in Nat
    BY <1>1, <2>1 DEF PageType
  <2>4. page'[p].timer = page[p].timer \/ (page'[p].timer = now + 1 /\ OnWire(p, now)')
    <3>1. CASE p # q
      BY <2>1, <3>1
    <3>2. ASSUME p = q, r.timer = now + 1,
                 NEW hb, hb.page = q, hb.sent = now, wire' = wire \cup {hb}
          PROVE page'[p].timer = now + 1 /\ OnWire(p, now)'
      <4>1. hb \in wire' /\ hb.page = p /\ hb.sent = now'
        BY <2>2, <3>2
      <4> QED
        BY <2>1, <3>2, <4>1 DEF OnWire
    <3>3. CASE p = q /\ r.timer = page[q].timer
      BY <2>1, <3>3
    <3> QED
      BY <2>1, <3>1, <3>2, <3>3
  <2> QED
    BY <1>5, <2>2, <2>3, <2>4
<1>9. ASSUME NEW hb \in wire, Receive(hb) PROVE \E t \in 0 .. now' : ReceivedAt(p, t)'
  <2>1. UNCHANGED <<now, page, closedAt>> /\ wire' = wire \ {hb} /\ hb.page \in Pages
    BY <1>2, <1>9 DEF Receive
  <2>2. /\ DOMAIN sessions' = DOMAIN sessions \cup {hb.session}
        /\ \A s \in DOMAIN sessions' : sessions'[s] = IF s = hb.session THEN now ELSE sessions[s]
    BY <1>9 DEF Receive, upsertSession
  <2>3. CASE p = hb.page /\ hb.sent >= closedAt[p]
    <3>1. SessionOf[p] = hb.session
      BY <2>3 DEF WireOK
    <3>2. sessions'[SessionOf[p]] = now /\ SessionOf[p] \in DOMAIN sessions'
      BY <2>2, <3>1
    <3>3. page'[p].timer \in {now, now + 1} /\ closedAt'[p] <= now
      BY <2>1 DEF PagesOK
    <3>4. now + 1 .. page'[p].timer - 1 = {}
      BY <3>3
    <3> DEFINE t == now
    <3>5. 0 \in Nat /\ t \in 0 .. now'
      BY <2>1
    <3>6. \A u \in now + 1 .. page'[p].timer - 1 : OnWire(p, u)' \/ (missed'[p] = 1 /\ u = 0)
      BY <3>4
    <3>7. ASSUME NEW c \in 0 .. now', c = now PROVE ReceivedAt(p, c)'
      BY <3>2, <3>3, <3>5, <3>6, <3>7 DEF ReceivedAt, OnWire
    <3> QED
      BY <3>5, <3>7
  <2>4. CASE p # hb.page \/ hb.sent < closedAt[p]
    <3>1. missed'[p] = missed[p]
      BY <1>2, <1>9, <2>4 DEF Receive
    <3>2. PICK t \in 0 .. now : ReceivedAt(p, t)
      BY <1>4, <2>1, <3>1
    <3>3. closedAt[p] <= t /\ closedAt[p] \in Nat /\ t \in Nat
      BY <3>2 DEF ReceivedAt
    <3>4. ASSUME NEW u \in t + 1 .. page'[p].timer - 1, OnWire(p, u) PROVE OnWire(p, u)'
      <4>1. PICK h \in wire : h.page = p /\ h.sent = u
        BY <3>4 DEF OnWire
      <4>2. h # hb
        BY <1>2, <2>4, <3>3, <4>1
      <4> QED
        BY <2>1, <4>1, <4>2 DEF OnWire
    <3>5. \A s \in DOMAIN sessions : sessions'[s] \in Nat /\ sessions[s] <= sessions'[s]
      BY <1>3, <2>2
    <3>6. /\ DOMAIN sessions \subseteq DOMAIN sessions' /\ closedAt'[p] = closedAt[p]
          /\ page'[p].timer \in Nat
          /\ \A u \in t + 1 .. page'[p].timer - 1 : u <= page[p].timer - 1
      BY <1>1, <2>1, <2>2, <3>3
    <3>7. ReceivedAt(p, t)'
      BY <3>1, <3>2, <3>3, <3>4, <3>5, <3>6, StillReceived
    <3> QED
      BY <2>1, <3>2, <3>7
  <2> QED
    BY <1>2, <2>3, <2>4
<1>10. ASSUME NEW hb \in wire, Lose(hb) PROVE \E t \in 0 .. now' : ReceivedAt(p, t)'
  <2>1. UNCHANGED <<now, page, closedAt, sessions>> /\ wire' = wire \ {hb} /\ hb.page \in Pages
    BY <1>2, <1>10 DEF Lose, store
  <2>2. \A u : OnWire(p, u) => OnWire(p, u)' \/ (p = hb.page /\ u = hb.sent)
    BY <2>1 DEF OnWire
  <2>3. CASE p # hb.page
    <3>1. missed'[p] = missed[p]
      BY <1>10, <2>3 DEF Lose
    <3>2. PICK t \in 0 .. now : ReceivedAt(p, t)
      BY <1>4, <2>1, <3>1
    <3>3. \A u : OnWire(p, u) => OnWire(p, u)'
      BY <2>2, <2>3
    <3>4. \A u \in t + 1 .. page'[p].timer - 1 : u <= page[p].timer - 1
      BY <1>1, <2>1
    <3>5. ReceivedAt(p, t)'
      BY <1>1, <1>3, <2>1, <3>1, <3>2, <3>3, <3>4, StillReceived
    <3> QED
      BY <2>1, <3>2, <3>5
  <2>4. CASE p = hb.page
    <3>1. missed[p] = 0 /\ missed'[p] = 1
      BY <1>1, <1>10, <2>4 DEF Lose
    <3>2. PICK t \in 0 .. now : ReceivedAt(p, t)
      BY <1>4, <2>1, <3>1
    <3>3. \A u \in t + 1 .. page'[p].timer - 1 : OnWire(p, u)
      BY <2>1, <3>1, <3>2 DEF ReceivedAt
    <3>4. \A u \in t + 1 .. page'[p].timer - 1 : OnWire(p, u)' \/ (missed'[p] = 1 /\ u = hb.sent)
      BY <2>2, <3>1, <3>3
    <3>5. hb.sent \in Nat
      BY <1>2
    <3>6. ASSUME NEW x \in Nat, x = hb.sent PROVE ReceivedAt(p, t)'
      <4>1. /\ SessionOf[p] \in DOMAIN sessions' /\ t <= sessions'[SessionOf[p]]
            /\ closedAt'[p] <= t
        BY <2>1, <3>2 DEF ReceivedAt
      <4>2. \A u \in t + 1 .. page'[p].timer - 1 : OnWire(p, u)' \/ (missed'[p] = 1 /\ u = x)
        BY <3>4, <3>6
      <4> QED
        BY <4>1, <4>2 DEF ReceivedAt, OnWire
    <3> QED
      BY <2>1, <3>2, <3>5, <3>6
  <2> QED
    BY <2>3, <2>4
<1>11. CASE Restart
  BY <1>11 DEF Restart
<1>12. CASE Tick
  BY <1>1, <1>5, <1>12 DEF Tick, store
<1> QED
  BY <1>6, <1>7, <1>8, <1>9, <1>10, <1>11, <1>12, PageSteps DEF TelemetryNext
(* TelemetryInv is inductive.                                              *)
THEOREM TelemetryInvariant == TelemetrySpec => []TelemetryInv
<1>1. TelemetryInit => TelemetryInv
  <2> SUFFICES ASSUME TelemetryInit PROVE TelemetryInv
    OBVIOUS
  <2> USE DEF TelemetryInit
  <2>1. \A p \in Pages : page[p] = Blank /\ missed[p] = 2
    OBVIOUS
  <2>2. DOMAIN sessions = {} /\ DOMAIN senders = {} /\ 2 \in 0 .. 2 /\ 0 \in 0 .. now
    OBVIOUS
  <2>3. TelemetryTypes
    BY <2>2, BlankType DEF TelemetryTypes
  <2>4. IsFiniteSet(DOMAIN senders)
    BY <2>2, FS_EmptySet, Zenon
  <2> QED
    BY <2>1, <2>2, <2>3, <2>4, BlankType
       DEF TelemetryInv, PagesOK, WireOK, SessionsOK, Received, LinksOK
<1>2. TelemetryInv /\ UNCHANGED telemetryVars => TelemetryInv'
  <2> SUFFICES ASSUME TelemetryInv, UNCHANGED telemetryVars PROVE TelemetryInv'
    OBVIOUS
  <2> USE DEF TelemetryInv, telemetryVars, store
  <2>1. TelemetryTypes' /\ PagesOK'
    BY DEF TelemetryTypes, PagesOK
  <2>2. WireOK' /\ SessionsOK' /\ LinksOK'
    BY DEF WireOK, SessionsOK, LinksOK, SentWhileOpen
  <2>3. Received'
    BY DEF Received, ReceivedAt, OnWire
  <2> QED
    BY <2>1, <2>2, <2>3
<1>3. TelemetryInv /\ [TelemetryNext]_telemetryVars => TelemetryInv'
  BY <1>2, TelemetryTypesKept, PagesKept, WireKept, SessionsKept, ReceivedKept, LinksKept
     DEF TelemetryInv
<1> QED
  BY <1>1, <1>3, PTL DEF TelemetrySpec

(* For any pages, browsers and wallets, and a session that counts for at   *)
(* least three heartbeats (30 s, one every 10 s): an open page of which no *)
(* two heartbeats in a row were lost is counted at every moment, and what  *)
(* is counted was open not long ago.                                       *)
THEOREM SessionsArePages == ASSUME Window >= 3 PROVE TelemetrySpec => []CountsArePages
<1>1. TelemetryInv => CountsArePages
  <2> SUFFICES ASSUME TelemetryInv PROVE CountsArePages
    OBVIOUS
  <2> USE DEF TelemetryInv, TelemetryTypes
  <2>1. ASSUME NEW p \in Pages, page[p].open, missed[p] < 2 PROVE Counted(SessionOf[p])
    <3>1. PICK t \in 0 .. now : ReceivedAt(p, t)
      BY <2>1 DEF Received
    <3>2. PICK x \in Nat : \A u \in t + 1 .. page[p].timer - 1 : OnWire(p, u) \/ (missed[p] = 1 /\ u = x)
      BY <3>1 DEF ReceivedAt
    <3>3. page[p].timer \in {now, now + 1}
      BY <2>1 DEF PagesOK
    <3>4. ASSUME NEW u \in Int, OnWire(p, u) PROVE u >= now - 1
      <4>1. PICK hb \in wire : hb.sent = u
        BY <3>4 DEF OnWire
      <4> QED
        BY <4>1 DEF WireOK
    <3>5. t >= now - 3
      <4> SUFFICES ASSUME t < now - 3 PROVE FALSE
        OBVIOUS
      <4>1. now - 3 \in t + 1 .. page[p].timer - 1 /\ now - 2 \in t + 1 .. page[p].timer - 1
        BY <3>3
      <4>2. ~OnWire(p, now - 3) /\ ~OnWire(p, now - 2)
        BY <3>4
      <4>3. now - 3 = x /\ now - 2 = x
        BY <3>2, <4>1, <4>2
      <4> QED
        BY <4>3
    <3>6. /\ SessionOf[p] \in DOMAIN sessions /\ t <= sessions[SessionOf[p]]
          /\ sessions[SessionOf[p]] \in Nat
      BY <3>1 DEF ReceivedAt
    <3> QED
      BY <3>5, <3>6 DEF Counted
  <2>2. ASSUME NEW s \in DOMAIN sessions, Counted(s)
        PROVE \E p \in Pages : SessionOf[p] = s /\ (page[p].open \/ now - closedAt[p] <= Window + 1)
    <3>1. PICK p \in Pages : SessionOf[p] = s /\ SentWhileOpen(p, sessions[s] - 1)
      BY DEF SessionsOK
    <3>2. sessions[s] \in 0 .. now /\ sessions[s] >= now - Window /\ closedAt[p] \in 0 .. now
      BY <2>2 DEF Counted
    <3> QED
      BY <3>1, <3>2 DEF SentWhileOpen
  <2> QED
    BY <2>1, <2>2 DEF CountsArePages
<1> QED
  BY <1>1, TelemetryInvariant, PTL

LEMMA LinksJoin == LinksOK => UsersJoined
<1> SUFFICES ASSUME LinksOK PROVE UsersJoined
  OBVIOUS
<1>1. ASSUME NEW s \in SenderRows, RowOwner(s) # NoOne
      PROVE RowOwner(s) \in owners /\ s \in SendersOf(RowOwner(s))
  <2>1. s \in DOMAIN senders /\ RowOwner(s) = senders[s]
    BY <1>1 DEF RowOwner
  <2>2. <<senders[s], s>> \in links
    BY <1>1, <2>1 DEF LinksOK
  <2> QED
    BY <2>1, <2>2 DEF LinksOK, SendersOf
<1>2. ASSUME NEW o \in owners PROVE SendersOf(o) \subseteq SenderRows
  BY DEF LinksOK, SendersOf, SenderRows
<1> QED
  BY <1>1, <1>2 DEF UsersJoined

(* What a sum holds, and what it does not miss.                            *)
LEMMA TotalHolds ==
  ASSUME NEW S, IsFiniteSet(S), NEW R \in SUBSET S
  PROVE  /\ TotalIn(S) \in Nat /\ TotalIn(R) \in Nat /\ TotalIn(R) <= TotalIn(S)
         /\ (\A s \in S \ R : TotalOf(s) = 0) => TotalIn(S) = TotalIn(R)
<1> DEFINE f == [s \in S |-> TotalOf(s)]
           g == [s \in R |-> TotalOf(s)]
<1>1. TotalIn(S) = SumFunctionOnSet(f, S) /\ TotalIn(R) = SumFunctionOnSet(g, R)
  <2>1. DOMAIN f = S /\ DOMAIN g = R
    OBVIOUS
  <2> HIDE DEF f, g
  <2>2. TotalIn(S) = SumFunction(f) /\ TotalIn(R) = SumFunction(g)
    BY Zenon DEF TotalIn, f, g
  <2> QED
    BY <2>1, <2>2, Zenon DEF SumFunction
<1>2. Naturals(f, S) /\ \A s \in R : g[s] = f[s]
  BY TelemetryAssumption DEF Naturals, TotalOf
<1>3. \A s \in S \ R : f[s] = TotalOf(s)
  OBVIOUS
<1> HIDE DEF f, g
<1>4. IsFiniteSet(R) /\ IsFiniteSet(S \ R) /\ Naturals(f, R) /\ Naturals(f, S \ R)
  BY <1>2, FS_Subset DEF Naturals
<1>5. SumFunctionOnSet(f, R) = SumFunctionOnSet(g, R)
  BY <1>2, <1>4, SumsEqual
<1>6. SumFunctionOnSet(f, S) = SumFunctionOnSet(f, R) + SumFunctionOnSet(f, S \ R)
  BY <1>2, SumOfParts
<1>7. /\ SumFunctionOnSet(f, S) \in Nat /\ SumFunctionOnSet(f, R) \in Nat
      /\ SumFunctionOnSet(f, S \ R) \in Nat
  BY <1>2, <1>4, SumType
<1>8. (\A s \in S \ R : TotalOf(s) = 0) => SumFunctionOnSet(f, S \ R) = 0
  BY <1>3, <1>4, SumOfZeros
<1> QED
  BY <1>1, <1>5, <1>6, <1>7, <1>8

(* The join of owners and senders is complete both ways, in whatever order *)
(* heartbeats arrive, the totals of owners hold those of their senders,    *)
(* and the rows hold all operations (server.ts 332-396).                   *)
THEOREM UsersAlwaysAgree == TelemetrySpec => []UsersAgree
<1>1. TelemetryInv => UsersAgree
  <2> SUFFICES ASSUME LinksOK PROVE UsersAgree
    BY DEF TelemetryInv
  <2>1. UsersJoined
    BY LinksJoin
  <2>2. IsFiniteSet(DOMAIN senders) /\ IsFiniteSet(SenderRows)
    <3>1. IsFiniteSet(DOMAIN senders) /\ IsFiniteSet(DOMAIN Executed)
      BY TelemetryAssumption DEF LinksOK
    <3> QED
      BY <3>1, FS_Union DEF SenderRows
  <2>3. ASSUME NEW s \in SenderRows, RowOwner(s) # NoOne
        PROVE OwnerTotal(RowOwner(s)) >= TotalOf(s)
    <3> DEFINE S == SendersOf(RowOwner(s))
               f == [r \in S |-> TotalOf(r)]
    <3>1. s \in S
      BY <2>1, <2>3 DEF UsersJoined
    <3>2. S \subseteq DOMAIN senders
      BY DEF LinksOK, SendersOf
    <3>3. OwnerTotal(RowOwner(s)) = SumFunctionOnSet(f, S)
      <4>1. DOMAIN f = S
        OBVIOUS
      <4>2. OwnerTotal(RowOwner(s)) = SumFunction(f)
        BY Zenon DEF OwnerTotal, TotalIn
      <4> HIDE DEF f, S
      <4> QED
        BY <4>1, <4>2, Zenon DEF SumFunction
    <3>4. f[s] = TotalOf(s)
      BY <3>1
    <3>5. Naturals(f, S)
      BY TelemetryAssumption DEF Naturals, TotalOf
    <3> HIDE DEF f, S
    <3>6. IsFiniteSet(S) /\ IsFiniteSet(S \ {s}) /\ Naturals(f, S \ {s})
      BY <2>2, <3>2, <3>5, FS_Subset DEF Naturals
    <3>7. SumFunctionOnSet(f, S) = f[s] + SumFunctionOnSet(f, S \ {s})
      BY <3>1, <3>5, <3>6, SumWithout
    <3>8. SumFunctionOnSet(f, S \ {s}) \in Nat /\ f[s] \in Nat
      BY <3>1, <3>5, <3>6, SumType DEF Naturals
    <3> QED
      BY <3>3, <3>4, <3>7, <3>8
  <2>4. TotalIn(SenderRows) = TotalIn(DOMAIN Executed)
    <3>1. DOMAIN Executed \in SUBSET SenderRows
      BY DEF SenderRows
    <3>2. \A s \in SenderRows \ DOMAIN Executed : TotalOf(s) = 0
      BY DEF TotalOf
    <3> QED
      BY <2>2, <3>1, <3>2, TotalHolds
  <2> QED
    BY <2>1, <2>3, <2>4 DEF UsersAgree
<1> QED
  BY <1>1, TelemetryInvariant, PTL

----------------------------------------------------------------------------
(* The paymaster's status.                                                 *)

Deposit == "entryPointDeposit"
Counts == {"ethBalance", "tokenOutBalance", "tokenInBalance", "gasBufferBps", "minDelayBetweenOpsSec",
           "sponsoredOps", "sponsoredOpsSucceeded", "sponsoredOpsReverted",
           "totalActualGasCostWei", "totalFeeAmount"}

(* What the contracts hold at one moment adds up.                          *)
AddsUp(held) ==
  /\ held["sponsoredOps"] = held["sponsoredOpsSucceeded"] + held["sponsoredOpsReverted"]
  /\ held["totalActualGasCostWei"] = held["sponsoredOps"]
  /\ held[Deposit] + held["sponsoredOps"] = MaxSponsored
  /\ held["totalFeeAmount"] = held["sponsoredOpsSucceeded"] * FeeUnits

(* Everything but the deposit grows.                                       *)
Grown(f, earlier, later) == IF f = Deposit THEN later <= earlier ELSE earlier <= later

(* What is read was held while the query ran; groups are read in order.    *)
StatusInv ==
  /\ fields \in [Fields -> Nat] /\ asked \in [Fields -> Nat]
  /\ AddsUp(fields) /\ AddsUp(asked)
  /\ \A f \in Fields : Grown(f, asked[f], fields[f])
  /\ query.at \in {"reading", "answered"} =>
       \A f \in DOMAIN query.read :
         /\ f \in Fields /\ query.read[f] \in Nat
         /\ Grown(f, asked[f], query.read[f]) /\ Grown(f, query.read[f], fields[f])
  /\ query.at = "reading" =>
       /\ query.group \in 1 .. 4
       /\ \A i \in 1 .. query.group - 1 : Groups[i] \subseteq DOMAIN query.read
  /\ query.at = "answered" => Fields \subseteq DOMAIN query.read
  /\ DOMAIN query = {"at", "group", "read"}

USE StatusAssumption

LEMMA FieldsAre ==
  /\ Fields = {Deposit} \cup Counts
  /\ Len(Groups) = 4 /\ DOMAIN Groups = 1 .. 4
  /\ Fields = Groups[1] \cup Groups[2] \cup Groups[3] \cup Groups[4]
  /\ Deposit \notin Counts
<1>1. DOMAIN Groups = 1 .. 4 /\ Len(Groups) = 4
  BY DEF Groups
<1>2. Fields = Groups[1] \cup Groups[2] \cup Groups[3] \cup Groups[4]
  BY <1>1 DEF Fields
<1> QED
  BY <1>1, <1>2 DEF Groups, Deposit, Counts

LEMMA TimesMonotone ==
  ASSUME NEW m \in Nat, NEW n \in Nat, NEW k \in Nat, m <= n
  PROVE m * k \in Nat /\ m * k <= n * k /\ (m + 1) * k = m * k + k /\ (m + n) * k = m * k + n * k
  OBVIOUS

LEMMA FieldsGrow == StatusInv /\ (OpSponsored \/ PolicySet) =>
                    /\ fields' \in [Fields -> Nat] /\ AddsUp(fields')
                    /\ \A f \in Fields : Grown(f, fields[f], fields'[f])
<1> SUFFICES ASSUME StatusInv, OpSponsored \/ PolicySet
             PROVE /\ fields' \in [Fields -> Nat] /\ AddsUp(fields')
                   /\ \A f \in Fields : Grown(f, fields[f], fields'[f])
  OBVIOUS
<1> USE DEF StatusInv
<1>0. Fields = {Deposit} \cup Counts
  BY FieldsAre
<1>1. ASSUME NEW succeeds \in BOOLEAN, fields["sponsoredOps"] < MaxSponsored,
             fields' = [fields EXCEPT
               !["sponsoredOps"] = @ + 1,
               !["sponsoredOpsSucceeded"] = IF succeeds THEN @ + 1 ELSE @,
               !["sponsoredOpsReverted"] = IF succeeds THEN @ ELSE @ + 1,
               !["totalActualGasCostWei"] = @ + 1, !["entryPointDeposit"] = @ - 1,
               !["totalFeeAmount"] = IF succeeds THEN @ + FeeUnits ELSE @,
               !["tokenOutBalance"] = IF succeeds THEN @ + FeeUnits ELSE @]
      PROVE /\ fields' \in [Fields -> Nat] /\ AddsUp(fields')
            /\ \A f \in Fields : Grown(f, fields[f], fields'[f])
  <2>1. /\ DOMAIN fields' = Fields
        /\ fields'["sponsoredOps"] = fields["sponsoredOps"] + 1
        /\ fields'["sponsoredOpsSucceeded"] =
             IF succeeds THEN fields["sponsoredOpsSucceeded"] + 1 ELSE fields["sponsoredOpsSucceeded"]
        /\ fields'["sponsoredOpsReverted"] =
             IF succeeds THEN fields["sponsoredOpsReverted"] ELSE fields["sponsoredOpsReverted"] + 1
        /\ fields'["totalActualGasCostWei"] = fields["totalActualGasCostWei"] + 1
        /\ fields'[Deposit] = fields[Deposit] - 1
        /\ fields'["totalFeeAmount"] =
             IF succeeds THEN fields["totalFeeAmount"] + FeeUnits ELSE fields["totalFeeAmount"]
        /\ fields'["tokenOutBalance"] =
             IF succeeds THEN fields["tokenOutBalance"] + FeeUnits ELSE fields["tokenOutBalance"]
        /\ \A f \in {"ethBalance", "tokenInBalance", "gasBufferBps", "minDelayBetweenOpsSec"} :
             fields'[f] = fields[f]
    BY <1>0, <1>1 DEF Deposit, Counts
  <2>2. \A f \in Fields : fields[f] \in Nat
    OBVIOUS
  <2>3. fields[Deposit] >= 1
    BY <1>0, <1>1, <2>2 DEF AddsUp, Counts
  <2>4. \A f \in Fields : fields'[f] \in Nat /\ Grown(f, fields[f], fields'[f])
    BY <1>0, <2>1, <2>2, <2>3 DEF Counts, Grown, Deposit
  <2>5. fields' \in [Fields -> Nat]
    <3>1. fields' = [f \in Fields |-> fields'[f]]
      BY <1>1
    <3> QED
      BY <2>4, <3>1
  <2>6. fields'["totalFeeAmount"] = fields'["sponsoredOpsSucceeded"] * FeeUnits
    <3>1. fields["sponsoredOpsSucceeded"] \in Nat
      BY <1>0, <2>2 DEF Counts
    <3>2. (fields["sponsoredOpsSucceeded"] + 1) * FeeUnits
            = fields["sponsoredOpsSucceeded"] * FeeUnits + FeeUnits
      BY <3>1, TimesMonotone
    <3> QED
      BY <2>1, <3>2 DEF AddsUp
  <2>7. AddsUp(fields')
    <3>1. /\ fields["sponsoredOps"] \in Nat /\ fields["sponsoredOpsSucceeded"] \in Nat
          /\ fields["sponsoredOpsReverted"] \in Nat /\ fields["totalActualGasCostWei"] \in Nat
          /\ fields[Deposit] \in Nat
      BY <1>0, <2>2 DEF Counts
    <3>2. /\ fields["sponsoredOps"] = fields["sponsoredOpsSucceeded"] + fields["sponsoredOpsReverted"]
          /\ fields["totalActualGasCostWei"] = fields["sponsoredOps"]
          /\ fields[Deposit] + fields["sponsoredOps"] = MaxSponsored
      BY DEF AddsUp
    <3>3. /\ fields'["sponsoredOps"] = fields'["sponsoredOpsSucceeded"] + fields'["sponsoredOpsReverted"]
          /\ fields'["totalActualGasCostWei"] = fields'["sponsoredOps"]
      BY <2>1, <3>1, <3>2
    <3>4. fields'[Deposit] + fields'["sponsoredOps"] = MaxSponsored
      BY <2>1, <3>1, <3>2
    <3> QED
      BY <2>6, <3>3, <3>4 DEF AddsUp
  <2> QED
    BY <2>4, <2>5, <2>7
<1>2. CASE PolicySet
  <2>1. /\ DOMAIN fields' = Fields
        /\ fields'["gasBufferBps"] = fields["gasBufferBps"] + 1
        /\ fields'["minDelayBetweenOpsSec"] = fields["minDelayBetweenOpsSec"] + 1
        /\ \A f \in Fields \ {"gasBufferBps", "minDelayBetweenOpsSec"} : fields'[f] = fields[f]
    BY <1>0, <1>2 DEF PolicySet, Counts
  <2>2. \A f \in Fields : fields[f] \in Nat
    OBVIOUS
  <2>3. \A f \in Fields : fields'[f] \in Nat /\ Grown(f, fields[f], fields'[f])
    BY <2>1, <2>2 DEF Grown, Deposit
  <2>4. fields' \in [Fields -> Nat]
    <3>1. fields' = [f \in Fields |-> fields'[f]]
      BY <1>2 DEF PolicySet
    <3> QED
      BY <2>3, <3>1
  <2>5. AddsUp(fields')
    BY <1>0, <2>1 DEF AddsUp, Counts, Deposit
  <2> QED
    BY <2>3, <2>4, <2>5
<1> QED
  BY <1>1, <1>2 DEF OpSponsored

(* StatusInv is inductive.                                                 *)
THEOREM StatusInvariant == StatusSpec => []StatusInv
<1>1. StatusInit => StatusInv
  <2> SUFFICES ASSUME StatusInit PROVE StatusInv
    OBVIOUS
  <2>1. fields = [f \in Fields |-> IF f = Deposit THEN MaxSponsored ELSE 0] /\ asked = fields
    BY DEF StatusInit, Deposit
  <2>2. query.at = "none" /\ DOMAIN query = {"at", "group", "read"}
    BY DEF StatusInit, NotAsked
  <2>3. 0 * FeeUnits = 0 /\ "sponsoredOps" # Deposit /\ "sponsoredOpsSucceeded" # Deposit
        /\ "sponsoredOpsReverted" # Deposit /\ "totalActualGasCostWei" # Deposit
        /\ "totalFeeAmount" # Deposit
    BY DEF Deposit
  <2>4. AddsUp(fields)
    BY <2>1, <2>3, FieldsAre DEF AddsUp, Counts
  <2>5. \A f \in Fields : Grown(f, asked[f], fields[f])
    BY <2>1 DEF Grown
  <2>6. fields \in [Fields -> Nat]
    BY <2>1
  <2> QED
    BY <2>1, <2>2, <2>4, <2>5, <2>6 DEF StatusInv
<1>2. StatusInv /\ [StatusNext]_statusVars => StatusInv'
  <2> SUFFICES ASSUME StatusInv, [StatusNext]_statusVars PROVE StatusInv'
    OBVIOUS
  <2>1. CASE OpSponsored \/ PolicySet
    <3>1. /\ fields' \in [Fields -> Nat] /\ AddsUp(fields')
          /\ \A f \in Fields : Grown(f, fields[f], fields'[f])
      BY <2>1, FieldsGrow
    <3>2. UNCHANGED <<query, asked>>
      BY <2>1 DEF OpSponsored, PolicySet
    <3>3. ASSUME NEW f \in Fields, NEW n \in Nat, Grown(f, n, fields[f]) PROVE Grown(f, n, fields'[f])
      <4>1. fields[f] \in Nat /\ fields'[f] \in Nat /\ Grown(f, fields[f], fields'[f])
        BY <3>1 DEF StatusInv
      <4> QED
        BY <3>3, <4>1 DEF Grown
    <3>4. AddsUp(asked')
      BY <3>2 DEF StatusInv, AddsUp
    <3> QED
      BY <3>1, <3>2, <3>3, <3>4 DEF StatusInv
  <2>2. CASE StatusAsked
    <3>1. asked' = fields /\ fields' = fields
      BY <2>2 DEF StatusAsked
    <3>2. \A f \in Fields : Grown(f, asked'[f], fields'[f])
      BY <3>1 DEF Grown, StatusInv
    <3>3. CASE query' = [at |-> "reading", group |-> 1, read |-> <<>>]
      <4>1. /\ query'.at = "reading" /\ query'.group = 1 /\ DOMAIN query'.read = {}
            /\ DOMAIN query' = {"at", "group", "read"}
        BY <3>3
      <4> QED
        BY <3>1, <3>2, <4>1 DEF StatusInv
    <3>4. CASE query'.at = "failed" /\ DOMAIN query' = {"at", "group", "read"}
      BY <3>1, <3>2, <3>4 DEF StatusInv
    <3> QED
      BY <2>2, <3>3, <3>4 DEF StatusAsked, NotAsked
  <2>3. CASE FieldRead
    <3>1. PICK f \in Groups[query.group] :
             query' = [query EXCEPT !.read = [g \in DOMAIN query.read \cup {f} |->
                                              IF g = f THEN fields[f] ELSE query.read[g]]]
      BY <2>3 DEF FieldRead, Named
    <3>2. UNCHANGED <<fields, asked>> /\ query.at = "reading"
      BY <2>3 DEF FieldRead
    <3>3. f \in Fields
      BY <3>2, FieldsAre DEF StatusInv
    <3>4. /\ query'.at = query.at /\ query'.group = query.group /\ DOMAIN query' = DOMAIN query
          /\ DOMAIN query'.read = DOMAIN query.read \cup {f}
          /\ \A g \in DOMAIN query'.read : query'.read[g] = IF g = f THEN fields[f] ELSE query.read[g]
      BY <3>1 DEF StatusInv
    <3>5. /\ fields[f] \in Nat /\ Grown(f, asked[f], fields[f]) /\ Grown(f, fields[f], fields[f])
      BY <3>3 DEF StatusInv, Grown
    <3> QED
      BY <3>2, <3>3, <3>4, <3>5 DEF StatusInv, Grown, AddsUp
  <2>4. CASE GroupRead
    <3>1. /\ query.at = "reading" /\ UNCHANGED <<fields, asked>> /\ query.group \in 1 .. 4
          /\ Groups[query.group] \subseteq DOMAIN query.read
          /\ \A i \in 1 .. query.group - 1 : Groups[i] \subseteq DOMAIN query.read
      BY <2>4 DEF GroupRead, StatusInv
    <3>2. CASE query.group < 4 /\ query' = [query EXCEPT !.group = @ + 1]
      <4>1. /\ query'.at = "reading" /\ query'.group = query.group + 1 /\ query'.read = query.read
            /\ DOMAIN query' = DOMAIN query
        BY <3>1, <3>2 DEF StatusInv
      <4>2. \A i \in 1 .. query'.group - 1 : Groups[i] \subseteq DOMAIN query'.read
        BY <3>1, <4>1
      <4> QED
        BY <3>1, <3>2, <4>1, <4>2 DEF StatusInv, Grown, AddsUp
    <3>3. CASE query.group = 4 /\ query' = [query EXCEPT !.at = "answered"]
      <4>1. query'.at = "answered" /\ query'.read = query.read /\ DOMAIN query' = DOMAIN query
        BY <3>3 DEF StatusInv
      <4>2. Fields \subseteq DOMAIN query'.read
        BY <3>1, <3>3, <4>1, FieldsAre
      <4> QED
        BY <3>1, <4>1, <4>2 DEF StatusInv, Grown, AddsUp
    <3>4. CASE query' = [NotAsked EXCEPT !.at = "failed"]
      <4>1. query'.at = "failed" /\ DOMAIN query' = {"at", "group", "read"}
        BY <3>4 DEF NotAsked
      <4> QED
        BY <3>1, <4>1 DEF StatusInv, Grown, AddsUp
    <3> QED
      BY <2>4, <3>1, <3>2, <3>3, <3>4, FieldsAre DEF GroupRead
  <2>5. CASE StatusFails \/ StatusTaken
    <3>1. query'.at \in {"failed", "none"} /\ DOMAIN query' = {"at", "group", "read"}
      BY <2>5 DEF StatusFails, StatusTaken, NotAsked
    <3> QED
      BY <2>5, <3>1 DEF StatusFails, StatusTaken, StatusInv, Grown, AddsUp
  <2>6. CASE UNCHANGED statusVars
    BY <2>6 DEF statusVars, StatusInv
  <2> QED
    BY <2>1, <2>2, <2>3, <2>4, <2>5, <2>6 DEF StatusNext
<1> QED
  BY <1>1, <1>2, PTL DEF StatusSpec

(* However many operations are sponsored while a query runs, and in        *)
(* whatever order the answers of a group come: every number answered was   *)
(* held meanwhile, and the sums miss by no more than the operations since. *)
THEOREM StatusIsRecent == StatusSpec => []StatusAddsUp
<1>1. StatusInv => StatusAddsUp
  <2> SUFFICES ASSUME StatusInv, query.at = "answered" PROVE StatusAddsUp
    BY DEF StatusAddsUp
  <2> DEFINE read == query.read
             meanwhile == fields["sponsoredOps"] - asked["sponsoredOps"]
  <2>1. \A f \in Fields :
          /\ read[f] \in Nat /\ fields[f] \in Nat /\ asked[f] \in Nat
          /\ Grown(f, asked[f], read[f]) /\ Grown(f, read[f], fields[f])
          /\ Grown(f, asked[f], fields[f])
    BY DEF StatusInv
  <2>2. Counts \subseteq Fields /\ Deposit \in Fields /\ Deposit \notin Counts
    BY FieldsAre
  <2>3. \A f \in Counts :
          /\ read[f] \in Nat /\ fields[f] \in Nat /\ asked[f] \in Nat
          /\ asked[f] <= read[f] /\ read[f] <= fields[f] /\ asked[f] <= fields[f]
    BY <2>1, <2>2 DEF Grown
  <2>4. /\ read[Deposit] \in Nat /\ fields[Deposit] \in Nat /\ asked[Deposit] \in Nat
        /\ fields[Deposit] <= read[Deposit] /\ read[Deposit] <= asked[Deposit]
    BY <2>1, <2>2 DEF Grown
  <2>5. AddsUp(fields) /\ AddsUp(asked)
    BY DEF StatusInv
  <2>6. \A f \in Fields :
            \/ asked[f] <= read[f] /\ read[f] <= fields[f]
            \/ f = "entryPointDeposit" /\ fields[f] <= read[f] /\ read[f] <= asked[f]
    BY <2>1 DEF Grown, Deposit
  <2> HIDE DEF read
  <2>7. /\ "sponsoredOps" \in Counts /\ "sponsoredOpsSucceeded" \in Counts
        /\ "sponsoredOpsReverted" \in Counts /\ "totalActualGasCostWei" \in Counts
        /\ "totalFeeAmount" \in Counts
    BY DEF Counts
  <2>8. Difference(read["sponsoredOpsSucceeded"] + read["sponsoredOpsReverted"],
                   read["sponsoredOps"]) <= meanwhile
    BY <2>3, <2>5, <2>7 DEF AddsUp, Difference
  <2>9. Difference(read["entryPointDeposit"] + read["totalActualGasCostWei"], MaxSponsored) <= meanwhile
    BY <2>3, <2>4, <2>5, <2>7 DEF AddsUp, Difference, Deposit
  <2>10. read["totalFeeAmount"] <= read["sponsoredOpsSucceeded"] * FeeUnits + meanwhile * FeeUnits
    <3> DEFINE s == read["sponsoredOpsSucceeded"]
               n == fields["sponsoredOpsSucceeded"]
    <3>1. s \in Nat /\ n \in Nat /\ meanwhile \in Nat /\ n <= s + meanwhile /\ FeeUnits \in Nat
      BY <2>3, <2>5, <2>7 DEF AddsUp
    <3>2. read["totalFeeAmount"] <= n * FeeUnits
      BY <2>3, <2>5, <2>7 DEF AddsUp
    <3> HIDE DEF s, n, meanwhile
    <3>3. s + meanwhile \in Nat
      BY <3>1
    <3>4. n * FeeUnits <= (s + meanwhile) * FeeUnits
      BY <3>1, <3>3, TimesMonotone
    <3>5. (s + meanwhile) * FeeUnits = s * FeeUnits + meanwhile * FeeUnits
      BY <3>1
    <3>6. n * FeeUnits \in Nat /\ s * FeeUnits \in Nat /\ meanwhile * FeeUnits \in Nat
      BY <3>1
    <3>7. read["totalFeeAmount"] \in Nat
      BY <2>3, <2>7
    <3>8. read["totalFeeAmount"] <= s * FeeUnits + meanwhile * FeeUnits
      BY <3>2, <3>4, <3>5, <3>6, <3>7
    <3> QED
      BY <3>8 DEF s
  <2> QED
    BY <2>6, <2>8, <2>9, <2>10 DEF StatusAddsUp, read
<1> QED
  BY <1>1, StatusInvariant, PTL
=============================================================================
