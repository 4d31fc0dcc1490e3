---------------------------- MODULE QuoteService ----------------------------
(* The quote service and the oracle service around one price feed.  The    *)
(* oracle service publishes its prices token by token, in loops that the   *)
(* timer and POST /update start beside each other and that share one       *)
(* signer; the same key is used by hand.  The quote service reads the feed *)
(* between two awaits and answers with a quote that the paymaster compares *)
(* with the price of a later moment.                                       *)
EXTENDS Integers, Sequences, FiniteSets

CONSTANTS
  Loops,         \* running instances of runLoop
  Timer,         \* the one that the timer starts, a loop being shorter than its
                 \* interval
  Symbols,       \* the tokens in the order of the loop
  FetchedPrice,  \* PriceFetcher: the price of each token, in the feed's unit
  OtherPrices,   \* prices that the owner sets by hand
  OracleUnit,    \* 10 ** decimals
  Requests,      \* requests for a quote
  AmountsIn, Slippages,
  quoteTtlSec,
  MaxLogs,       \* 100 in the code
  MaxClock,      \* bounds: the clock,
  MaxByHand,     \* prices set and updates asked for by hand,
  MaxFaults      \* failing requests

Tokens == {Symbols[i] : i \in DOMAIN Symbols}

ASSUME QuoteAssumption ==
  /\ Timer \in Loops /\ Symbols \in Seq(Tokens) /\ Symbols # <<>>
  /\ FetchedPrice \in [Tokens -> Nat] /\ OtherPrices \subseteq Nat /\ OracleUnit \in Nat \ {0}
  /\ AmountsIn \subseteq Nat /\ Slippages \subseteq Nat /\ quoteTtlSec \in Nat
  /\ MaxLogs \in Nat /\ MaxClock \in Nat /\ MaxByHand \in Nat /\ MaxFaults \in Nat

Bps == 10000
Idle == [at |-> "idle", i |-> 0, nonce |-> 0]

VARIABLES
  clock,
  price,     \* MockPriceOracle.price
  pool,      \* transactions that are not mined; nonces count from the next
             \* one the chain takes
  ready,     \* OracleService.status.ready
  loop,      \* where each runLoop awaits
  logs,      \* OracleService.logs, newest first
  request,   \* where each POST /quote awaits, and what it has read
  quotes,    \* QuoteServiceServer.quotes
  byHand, faults

chainVars == <<price, pool>>
oracleVars == <<ready, loop, logs>>
quoteVars == <<request, quotes>>
allQuoteVars == <<clock, price, pool, ready, loop, logs, request, quotes, byHand, faults>>

Tx == [token : Tokens, price : {FetchedPrice[t] : t \in Tokens} \cup OtherPrices, by : Loops \cup {0}]

----------------------------------------------------------------------------
(* The signer's account on the chain. *)

(* getTransactionCount("pending"): the first nonce nobody uses.            *)
PendingNonce ==
  CHOOSE n \in 0 .. Cardinality(DOMAIN pool) :
    n \notin DOMAIN pool /\ \A m \in 0 .. n - 1 : m \in DOMAIN pool

(* A nonce that is mined, or wanted by a transaction of the pool.          *)
Taken(n) == n < 0 \/ n \in DOMAIN pool

Add(n, tx) == pool' = [m \in DOMAIN pool \cup {n} |-> IF m = n THEN tx ELSE pool[m]]

(* The next transaction is mined: the nonces move, and who waits for this  *)
(* one learns whether it is his.                                           *)
Mine ==
  /\ 0 \in DOMAIN pool
  /\ price' = [price EXCEPT ![pool[0].token] = pool[0].price]
  /\ pool' = [n \in {m - 1 : m \in DOMAIN pool \ {0}} |-> pool[n + 1]]
  /\ loop' = [l \in Loops |->
       IF loop[l].at = "wait" /\ loop[l].nonce = 0
       THEN [loop[l] EXCEPT !.at = IF pool[0].by = l THEN "mined" ELSE "replaced"]
       ELSE IF loop[l].at \in {"send", "wait"} /\ loop[l].nonce >= 0
       THEN [loop[l] EXCEPT !.nonce = @ - 1] ELSE loop[l]]
  /\ UNCHANGED <<clock, ready, logs, quoteVars, byHand, faults>>

(* The owner sets a price with the same key.                               *)
SetByHand ==
  /\ byHand < MaxByHand /\ byHand' = byHand + 1
  /\ \E t \in Tokens, p \in OtherPrices :
       Add(PendingNonce, [token |-> t, price |-> p, by |-> 0])
  /\ UNCHANGED <<clock, price, oracleVars, quoteVars, faults>>

----------------------------------------------------------------------------
(* The oracle service. *)

(* cli.ts starts the service, and it the first loop, the timer, and what   *)
(* answers POST /update.  Nothing stops it.                                *)
Start ==
  /\ ~ready /\ ready' = TRUE
  /\ loop' = [loop EXCEPT ![Timer] = [at |-> "decimals", i |-> 1, nonce |-> 0]]
  /\ UNCHANGED <<clock, chainVars, logs, quoteVars, byHand, faults>>

(* Variant: nothing is published again once it is logged as updated.       *)
RunLoopOnce(l) ==
  /\ ready /\ loop[l].at = "idle"
  /\ \E t \in Tokens : \A i \in DOMAIN logs : logs[i] # [symbol |-> t, updated |-> TRUE]
  /\ IF l = Timer THEN UNCHANGED byHand ELSE byHand < MaxByHand /\ byHand' = byHand + 1
  /\ loop' = [loop EXCEPT ![l] = [at |-> "decimals", i |-> 1, nonce |-> 0]]
  /\ UNCHANGED <<clock, chainVars, ready, logs, quoteVars, faults>>

(* runLoop, by the timer or by POST /update, whatever else is running.     *)
RunLoop(l) ==
  /\ ready /\ loop[l].at = "idle"
  /\ IF l = Timer THEN UNCHANGED byHand ELSE byHand < MaxByHand /\ byHand' = byHand + 1
  /\ loop' = [loop EXCEPT ![l] = [at |-> "decimals", i |-> 1, nonce |-> 0]]
  /\ UNCHANGED <<clock, chainVars, ready, logs, quoteVars, faults>>

Log(entry) == logs' = SubSeq(<<entry>> \o logs, 1, IF Len(logs) < MaxLogs THEN Len(logs) + 1 ELSE MaxLogs)

(* updateToken is over, with or without an error: the next token.          *)
NextToken(l) ==
  loop' = [loop EXCEPT ![l] = IF @.i = Len(Symbols) THEN Idle
                              ELSE [at |-> "decimals", i |-> @.i + 1, nonce |-> 0]]

TokenFails(l) ==
  /\ NextToken(l)
  /\ Log([symbol |-> Symbols[loop[l].i], updated |-> FALSE])

TokenUpdated(l) ==
  /\ NextToken(l)
  /\ Log([symbol |-> Symbols[loop[l].i], updated |-> TRUE])

(* Publisher.setPrice: the token's decimals, then the signer's next nonce. *)
NonceRead(l) ==
  /\ loop[l].at = "decimals"
  /\ loop' = [loop EXCEPT ![l] = [@ EXCEPT !.at = "send", !.nonce = PendingNonce]]
  /\ UNCHANGED <<clock, chainVars, ready, logs, quoteVars, byHand, faults>>

(* The transaction is sent.  The node refuses a nonce that is taken, or,   *)
(* if the transaction that has it is not mined and pays enough less, lets  *)
(* it be replaced.                                                         *)
Send(l) ==
  /\ loop[l].at = "send"
  /\ LET n == loop[l].nonce  t == Symbols[loop[l].i] IN
     \/ Taken(n) /\ TokenFails(l) /\ UNCHANGED pool
     \/ /\ n >= 0
        /\ Add(n, [token |-> t, price |-> FetchedPrice[t], by |-> l])
        /\ loop' = [loop EXCEPT ![l].at = "wait"]
        /\ UNCHANGED logs
  /\ UNCHANGED <<clock, price, ready, quoteVars, byHand, faults>>

(* tx.wait(): until its transaction, or another with its nonce, is mined.  *)
Wait(l) ==
  /\ loop[l].at \in {"mined", "replaced"}
  /\ IF loop[l].at = "mined" THEN TokenUpdated(l) ELSE TokenFails(l)
  /\ UNCHANGED <<clock, chainVars, ready, quoteVars, byHand, faults>>

(* A request to the node fails.                                            *)
LoopRequestFails(l) ==
  /\ faults < MaxFaults /\ faults' = faults + 1
  /\ loop[l].at # "idle" /\ TokenFails(l)
  /\ UNCHANGED <<clock, chainVars, ready, quoteVars, byHand>>

----------------------------------------------------------------------------
(* The quote service. *)

(* POST /quote: the body is checked, the chain's id is read, and the times *)
(* of the quote are taken, before the price is read.                       *)
Quote(r) ==
  /\ request[r].at = "idle"
  /\ \E t \in Tokens, a \in AmountsIn, s \in Slippages :
       /\ s <= Bps
       /\ request' = [request EXCEPT ![r] =
            [at |-> "price", token |-> t, amountIn |-> a, slippageBps |-> s,
             createdAt |-> clock, deadline |-> clock + quoteTtlSec, price |-> 0]]
  /\ UNCHANGED <<clock, chainVars, oracleVars, quotes, byHand, faults>>

(* getPrice, which reverts while no price is set: the answer is a 500.     *)
PriceRead(r) ==
  /\ request[r].at = "price"
  /\ request' = [request EXCEPT ![r] =
       IF price[request[r].token] = 0 THEN [at |-> "failed"]
       ELSE [@ EXCEPT !.at = "decimals", !.price = price[request[r].token]]]
  /\ UNCHANGED <<clock, chainVars, oracleVars, quotes, byHand, faults>>

ExpectedOut(q) == (q.amountIn * q.price) \div OracleUnit

(* The slippage and a spread of 0.3%; division of big numbers truncates.   *)
MinOut(q) ==
  LET scaled == ExpectedOut(q) * (Bps - (q.slippageBps + 30))
  IN IF scaled < 0 THEN -((-scaled) \div Bps) ELSE scaled \div Bps

(* decimals: the quote is made, stored, logged and answered.               *)
Quoted(r) ==
  /\ request[r].at = "decimals"
  /\ request' = [request EXCEPT ![r] = [at |-> "answered"]]
  /\ quotes' = [q \in DOMAIN quotes \cup {r} |->
       IF q = r THEN [token |-> request[r].token, amountIn |-> request[r].amountIn,
                      slippageBps |-> request[r].slippageBps, price |-> request[r].price,
                      minOut |-> MinOut(request[r]), expiresAt |-> request[r].deadline,
                      deadline |-> request[r].deadline]
       ELSE quotes[q]]
  /\ UNCHANGED <<clock, chainVars, oracleVars, byHand, faults>>

QuoteRequestFails(r) ==
  /\ faults < MaxFaults /\ faults' = faults + 1
  /\ request[r].at \in {"price", "decimals"}
  /\ request' = [request EXCEPT ![r] = [at |-> "failed"]]
  /\ UNCHANGED <<clock, chainVars, oracleVars, quotes, byHand>>

(* Variant: a quote is served for a second more.                           *)
ServesLate(r) == r \in DOMAIN quotes /\ ~(quotes[r].expiresAt + 1 < clock)

(* GET /quote/:quoteId answers with the quote, not with 404 or 410.        *)
Serves(r) == r \in DOMAIN quotes /\ ~(quotes[r].expiresAt < clock)

ClockTicks ==
  /\ clock < MaxClock /\ clock' = clock + 1
  /\ UNCHANGED <<chainVars, oracleVars, quoteVars, byHand, faults>>

----------------------------------------------------------------------------
(* What the quote is for: the router's deadline, and the paymaster's       *)
(* comparison with 95% of the feed's price at that moment.                 *)
RouterAccepts(q) == clock <= q.deadline
FairOut(q) == (q.amountIn * price[q.token]) \div OracleUnit
PaymasterAccepts(q) == q.minOut >= (FairOut(q) * 95) \div 100

QuoteInit ==
  /\ clock = 1
  /\ price = [t \in Tokens |-> 0]
  /\ pool = [n \in {} |-> 0]
  /\ ready = FALSE /\ loop = [l \in Loops |-> Idle] /\ logs = <<>>
  /\ request = [r \in Requests |-> [at |-> "idle"]]
  /\ quotes = [r \in {} |-> 0]
  /\ byHand = 0 /\ faults = 0

QuoteNext ==
  \/ Mine \/ SetByHand \/ ClockTicks \/ Start
  \/ \E l \in Loops : RunLoop(l) \/ NonceRead(l) \/ Send(l) \/ Wait(l) \/ LoopRequestFails(l)
  \/ \E r \in Requests : Quote(r) \/ PriceRead(r) \/ Quoted(r) \/ QuoteRequestFails(r)

QuoteSpec == QuoteInit /\ [][QuoteNext]_allQuoteVars

(* The timer fires, the node answers and mines.                            *)
QuoteFairness ==
  /\ WF_allQuoteVars(Mine) /\ WF_allQuoteVars(RunLoop(Timer))
  /\ \A l \in Loops : WF_allQuoteVars(NonceRead(l) \/ Send(l) \/ Wait(l))

FairQuoteSpec == QuoteSpec /\ QuoteFairness

----------------------------------------------------------------------------
(* A quote that is still served, of a slippage up to 4.7%, is one that the *)
(* router and the paymaster take, as long as the price is the one that was *)
(* read for it: the two services round and expire alike.                   *)
ServedIsSponsored ==
  \A r \in Requests :
    Serves(r) /\ quotes[r].slippageBps <= 470 /\ quotes[r].price = price[quotes[r].token] =>
      RouterAccepts(quotes[r]) /\ PaymasterAccepts(quotes[r])

(* A price that the feed has not got yet, or that was set by hand, becomes *)
(* the service's again: an error with one token leaves the others to their *)
(* turn, and no loop waits for another.                                    *)
PricesComeBack == <>ready => <>[](\A t \in Tokens : price[t] = FetchedPrice[t])
=============================================================================
