--------------------------- MODULE WalletTraffic ---------------------------
(***************************************************************************)
(* The wallets that the monitor lists: _syncGlobalTraffic looks up every   *)
(* wallet of every block that a sync covers, one after the other, and      *)
(* WalletAnalyticsStore keeps the newest.  Syncs overlap, as in Indexer.   *)
(* A balance is the block that changed it last, a block its timestamp.     *)
(***************************************************************************)
EXTENDS Integers, FiniteSets

CONSTANTS
  Wallets,
  Workers,       \* syncs that may run at a time (bounds the model)
  WalletsMax,    \* wallets kept at most
  EvictBatch,    \* wallets evicted at a time (100)
  MaxBlock,      \* last block (bounds the model)
  MaxLookupsLost \* failing requests (bounds the model)

ASSUME WalletAssumption ==
  /\ IsFiniteSet(Wallets) /\ WalletsMax \in Nat \ {0} /\ EvictBatch \in Nat \ {0}
  /\ MaxBlock \in Nat /\ MaxLookupsLost \in Nat

VARIABLES
  touched,    \* the wallets of each block
  reached,    \* lastProcessedBlock
  worker,     \* the syncs: the block at hand, the wallets of it not yet looked up
  wallets,    \* WalletAnalyticsStore: balance and lastSeen of each wallet
  reported,   \* the last block for which a wallet was reported
  evicted,    \* wallets that were evicted at some time
  lookupsLost

walletVars == <<touched, reached, worker, wallets, reported, evicted, lookupsLost>>

Tip == Cardinality(DOMAIN touched)
Latest(S) == IF S = {} THEN 0 ELSE CHOOSE b \in S : \A c \in S : c <= b
Balance(w) == Latest({b \in DOMAIN touched : w \in touched[b]})
Resting == [at |-> "idle", block |-> 0, to |-> 0, left |-> {}, wallet |-> {}, balance |-> 0]

(* A block of a transaction: its sender and its receiver, if any.          *)
BlockMined ==
  /\ Tip < MaxBlock
  /\ \E W \in SUBSET Wallets :
       /\ Cardinality(W) \in 1 .. 2
       /\ touched' = [b \in 1 .. Tip + 1 |-> IF b <= Tip THEN touched[b] ELSE W]
  /\ UNCHANGED <<reached, worker, wallets, reported, evicted, lookupsLost>>

(* What precedes it of a sync is in Indexer.                               *)
TrafficStarts(s) ==
  /\ worker[s].at = "idle" /\ reached < Tip
  /\ worker' = [worker EXCEPT ![s] = [Resting EXCEPT !.at = "block", !.block = reached + 1, !.to = Tip]]
  /\ UNCHANGED <<touched, reached, wallets, reported, evicted, lookupsLost>>

(* On to the next block; at the end the sync moves its position.           *)
BlockDone(s) ==
  IF worker[s].block < worker[s].to
    THEN /\ worker' = [worker EXCEPT ![s] = [Resting EXCEPT
                         !.at = "block", !.block = worker[s].block + 1, !.to = worker[s].to]]
         /\ UNCHANGED reached
    ELSE worker' = [worker EXCEPT ![s] = Resting] /\ reached' = worker[s].to

BlockRead(s) ==
  /\ worker[s].at = "block"
  /\ worker' = [worker EXCEPT ![s] = [worker[s] EXCEPT !.at = "wallets", !.left = touched[worker[s].block]]]
  /\ UNCHANGED <<touched, reached, wallets, reported, evicted, lookupsLost>>

(* The node reads the balance; the answer is on its way.                   *)
Reading(s, w) ==
  [worker[s] EXCEPT !.at = "wallet", !.left = worker[s].left \ {w}, !.wallet = {w},
                    !.balance = Balance(w)]
WalletRead(s) ==
  /\ worker[s].at = "wallets"
  /\ \E w \in worker[s].left :
       worker' = [worker EXCEPT ![s] = Reading(s, w)]
  /\ UNCHANGED <<touched, reached, wallets, reported, evicted, lookupsLost>>

(* Variant: the report that comes last counts.                             *)
UpdatedAlways(w, stats) == [v \in DOMAIN wallets \cup {w} |-> IF v = w THEN stats ELSE wallets[v]]
Updated(w, stats) ==
  [v \in DOMAIN wallets \cup {w} |->
    IF v = w /\ (v \notin DOMAIN wallets \/ stats.lastSeen >= wallets[v].lastSeen)
      THEN stats ELSE wallets[v]]

(* A whole batch of the oldest goes when there is one too many; which of   *)
(* equals is left open.                                                    *)
Remaining(m) ==
  IF Cardinality(DOMAIN m) <= WalletsMax THEN {DOMAIN m}
  ELSE {S \in SUBSET DOMAIN m :
          /\ Cardinality(DOMAIN m \ S) =
               (IF EvictBatch < Cardinality(DOMAIN m) THEN EvictBatch ELSE Cardinality(DOMAIN m))
          /\ \A v \in S, w \in DOMAIN m \ S : m[w].lastSeen <= m[v].lastSeen}

updateWallet(w, stats) ==
  LET updated == Updated(w, stats)
  IN \E S \in Remaining(updated) :
       /\ wallets' = [v \in S |-> updated[v]]
       /\ evicted' = evicted \cup (DOMAIN updated \ S)

(* On to the next wallet.                                                  *)
Looking(s) == [worker[s] EXCEPT !.at = "wallets", !.wallet = {}, !.balance = 0]

WalletAnswered(s) ==
  /\ worker[s].at = "wallet"
  /\ \A w \in worker[s].wallet :
       /\ updateWallet(w, [balance |-> worker[s].balance, lastSeen |-> worker[s].block])
       /\ reported' = [reported EXCEPT ![w] = IF @ < worker[s].block THEN worker[s].block ELSE @]
  /\ worker' = [worker EXCEPT ![s] = Looking(s)]
  /\ UNCHANGED <<touched, reached, lookupsLost>>

WalletsDone(s) ==
  /\ worker[s].at = "wallets" /\ worker[s].left = {}
  /\ BlockDone(s)
  /\ UNCHANGED <<touched, wallets, reported, evicted, lookupsLost>>

(* A wallet whose lookup fails is left out, and so is a whole block.       *)
LookupFails(s) ==
  /\ lookupsLost < MaxLookupsLost /\ lookupsLost' = lookupsLost + 1
  /\ \/ /\ worker[s].at = "block" /\ BlockDone(s)
     \/ /\ worker[s].at = "wallet"
        /\ worker' = [worker EXCEPT ![s] = Looking(s)]
        /\ UNCHANGED reached
  /\ UNCHANGED <<touched, wallets, reported, evicted>>

WalletInit ==
  /\ touched = <<>> /\ reached = 0
  /\ worker = [s \in Workers |-> Resting]
  /\ wallets = <<>> /\ reported = [w \in Wallets |-> 0]
  /\ evicted = {} /\ lookupsLost = 0

WalletNext ==
  \/ BlockMined
  \/ \E s \in Workers :
       TrafficStarts(s) \/ BlockRead(s) \/ WalletRead(s) \/ WalletAnswered(s)
         \/ WalletsDone(s) \/ LookupFails(s)

WalletSpec == WalletInit /\ [][WalletNext]_walletVars

----------------------------------------------------------------------------
(* What is listed is current: once all syncs have caught up with the chain,*)
(* however they overlapped, a wallet shows the balance that it has, unless *)
(* a lookup failed or it had been evicted; and a wallet that was reported  *)
(* is only missing if all places that eviction leaves are taken by wallets *)
(* seen no earlier.                                                        *)
CaughtUp == reached = Tip /\ \A s \in Workers : worker[s].at = "idle"
WalletsAreCurrent ==
  /\ CaughtUp /\ lookupsLost = 0 =>
       \A w \in DOMAIN wallets \ evicted : wallets[w].balance = Balance(w)
  /\ \A w \in Wallets : reported[w] # 0 /\ w \notin DOMAIN wallets =>
       Cardinality({v \in DOMAIN wallets : wallets[v].lastSeen >= reported[w]})
         >= WalletsMax + 1 - EvictBatch
=============================================================================
