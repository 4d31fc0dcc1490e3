---------------------------- MODULE MCServices ----------------------------
(* Parts that share no state: a behaviour moves one of them, chosen at its *)
(* beginning, and the others rest.                                         *)
EXTENDS Telemetry, WalletTraffic, PaymasterStatus, FrontEnds, QuoteService,
  BundleSubmission

CONSTANTS p1, p2, o1, o2, w1, w2, w3, s1, s2

VARIABLE part

TwoPages == {p1, p2}
OneBrowser == [q \in TwoPages |-> 1]
TwoOwners == {o1, o2}
Accounts == [o \in TwoOwners |-> IF o = o1 THEN "a1" ELSE "a2"]
Ops == [s \in {"a1", o2} |-> IF s = "a1" THEN 2 ELSE 1]
ThreeWallets == {w1, w2, w3}

(* One of the views that do the same.                                      *)
Kinds == {"overview", "latestBlocks", "address", "oracle", "paymaster", "logs", "users"}

(* Numbers that make every division leave a remainder.                     *)
TwoSymbols == <<"usdc", "bnb">>
TwoPrices == [t \in {"usdc", "bnb"} |-> IF t = "usdc" THEN 33 ELSE 7]

(* Two operations of one sender, or of two, with a deadline or without,    *)
(* one of them perhaps with a nonce that is too high; without EIP-7702,     *)
(* with the page's authorization, and with the one of a library that       *)
(* writes zero as "0x0".                                                   *)
TwoSenders == {s1, s2}
Operation(s, n, deadline, auth) == [sender |-> s, nonce |-> n, deadline |-> deadline, auth |-> auth]
InTurn == <<Operation(s1, 0, 0, NoAuth), Operation(s1, 1, 3, NoAuth)>>
TwoOps == {InTurn,
           <<Operation(s2, 1, 0, NoAuth), Operation(s1, 0, 2, NoAuth)>>,
           <<Operation(s1, 0, 0, NoAuth), Operation(s2, 1, 0, signEIP7702Authorization(0))>>,
           <<Operation(s1, 0, 0, "0x0"), Operation(s2, 1, 0, NoAuth)>>}

(* The second sender's account is behind, or not, and has swapped just     *)
(* now, or never.                                                          *)
TwoAccounts(n, t, d) ==
  [nonce |-> [s \in TwoSenders |-> IF s = s1 THEN 0 ELSE n],
   last |-> [s \in TwoSenders |-> IF s = s1 THEN 0 ELSE t],
   now |-> 2, delay |-> d, paymaster |-> "pays"]
Selectable == {TwoAccounts(0, 0, 0), TwoAccounts(1, 2, 1), TwoAccounts(0, 2, 0)}

MCInit ==
  /\ part \in {"counts", "users", "wallets", "status", "views", "quotes", "bundle"}
  /\ TelemetryInit /\ WalletInit /\ StatusInit
  /\ ViewInit /\ view \in Kinds /\ key = 1 /\ (part # "views" => view = "users")
  /\ QuoteInit
  /\ SubmissionInit /\ (part # "bundle" => bundle = InTurn /\ chain = TwoAccounts(0, 0, 0))

(* Sessions are counted without wallets while the monitor is restarted at  *)
(* most once, users listed within one instant and two changes;             *)
(* in the blocks, wallets are as good as each other, and a request fails   *)
(* while there are two.  A view that has failed is not both opened again   *)
(* and given another key; no quote has been asked for while the second     *)
(* loop of the prices runs.                                                *)
Counts ==
  /\ part = "counts" /\ TelemetryNext /\ changes' <= 1
  /\ \A q \in Pages : page'[q].owner = NoOne /\ ~page'[q].use7702
Users ==
  /\ part = "users" /\ TelemetryNext /\ changes' <= 2
  /\ now' = 0 /\ ~page'[p2].open /\ (page[p1].open => page'[p1].open)
Traffic ==
  /\ part = "wallets" /\ WalletNext
  /\ (Tip = 0 => touched'[1] \in {{w1}, {w1, w2}})
  /\ \A b \in DOMAIN touched' : b > 1 => Cardinality(touched'[b]) = 1
  /\ (lookupsLost' # 0 => Cardinality(DOMAIN touched') < MaxBlock)
Status == part = "status" /\ StatusNext
ShownViews == part = "views" /\ ViewNext /\ (errors' # 0 => visit'[1] <= 1 \/ visit'[2] = 0)
Quotes ==
  part = "quotes" /\ QuoteNext /\ (loop'[2].at # "idle" => request'["q1"].at = "idle")
Submission == part = "bundle" /\ SubmissionNext

MCNext ==
  /\ UNCHANGED part
  /\ \/ (Counts \/ Users) /\ UNCHANGED <<walletVars, statusVars, viewVars, allQuoteVars, submissionVars>>
     \/ Traffic /\ UNCHANGED <<telemetryVars, statusVars, viewVars, allQuoteVars, submissionVars>>
     \/ Status /\ UNCHANGED <<telemetryVars, walletVars, viewVars, allQuoteVars, submissionVars>>
     \/ ShownViews /\ UNCHANGED <<telemetryVars, walletVars, statusVars, allQuoteVars, submissionVars>>
     \/ Quotes /\ UNCHANGED <<telemetryVars, walletVars, statusVars, viewVars, submissionVars>>
     \/ Submission /\ UNCHANGED <<telemetryVars, walletVars, statusVars, viewVars, allQuoteVars>>

MCSpec ==
  /\ MCInit
  /\ [][MCNext]_<<part, telemetryVars, walletVars, statusVars, viewVars, allQuoteVars, submissionVars>>
  /\ ViewFairness /\ QuoteFairness
=============================================================================
