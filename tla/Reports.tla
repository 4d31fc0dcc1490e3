------------------------------ MODULE Reports ------------------------------
(***************************************************************************)
(* What the monitor reports of the operations it has indexed: the summary, *)
(* the numbers per sender, the reasons of failures, the series over time   *)
(* and the list of operations; and the soak test, which collects two of    *)
(* these one after the other and judges a run by them.  All of it is read  *)
(* from the store that the indexer fills, evicts from, loses and reloads.  *)
(* A block is its timestamp.                                               *)
(***************************************************************************)
EXTENDS Indexer, FiniteSetsExt, Functions

CONSTANTS
  Op,          \* of an operation: sender, success, reason, entryGas, postGas, fee
  MaxListed,   \* operations in a list at most (2000)
  MinWindow, MaxWindow,  \* of a series: a minute, 30 days
  Attempts     \* swaps of the soak test

ASSUME ReportsAssumption ==
  /\ MaxListed \in 1 .. 10000 /\ MinWindow \in Nat \ {0} /\ MaxWindow \in Nat
  /\ Attempts \in Nat
  /\ \A h \in Ops : /\ Op[h].success \in BOOLEAN /\ Op[h].fee \in Nat
                     /\ Op[h].entryGas \in Nat /\ Op[h].postGas \in 0 .. Op[h].entryGas

VARIABLE soak  \* the soak test: what it has collected, its verdict

Unknown == "Unknown / Reverted"

(* A record without its EntryPoint event has the gas that the paymaster    *)
(* was told of, and no reason.                                             *)
UserOpSummary(h) ==
  [sender |-> Op[h].sender, ts |-> blockOf[h], success |-> Op[h].success,
   reason |-> IF store[h].entry THEN Op[h].reason ELSE Unknown,
   gas |-> IF store[h].entry THEN Op[h].entryGas ELSE Op[h].postGas,
   fee |-> IF store[h].fee THEN Op[h].fee ELSE 0]

(* A record with one more field.                                           *)
With(r, field, value) ==
  [f \in DOMAIN r \cup {field} |-> IF f = field THEN value ELSE r[f]]

Totals(S) ==
  [total |-> Cardinality(S),
   succeeded |-> Cardinality({h \in S : UserOpSummary(h).success}),
   failed |-> Cardinality({h \in S : ~UserOpSummary(h).success}),
   gas |-> SumFunction([h \in S |-> UserOpSummary(h).gas]),
   fee |-> SumFunction([h \in S |-> UserOpSummary(h).fee])]

Senders == {UserOpSummary(h).sender : h \in DOMAIN store}

metricsSummary == With(Totals(DOMAIN store), "uniqueSenders", Cardinality(Senders))

perSenderMetrics ==
  [s \in Senders |->
    LET own == {h \in DOMAIN store : UserOpSummary(h).sender = s}
    IN With(Totals(own), "lastOpTs", Max({UserOpSummary(h).ts : h \in own}))]

getFailureMetrics ==
  LET failed == {h \in DOMAIN store : ~UserOpSummary(h).success}
  IN [r \in {UserOpSummary(h).reason : h \in failed} |->
       Cardinality({h \in failed : UserOpSummary(h).reason = r})]

(* Variant: one less than there is room for.                               *)
listUserOpsShort(limit, matches) ==
  LET matching == {h \in DOMAIN store : UserOpSummary(h) \in matches}
      size == Lesser(Cardinality(matching), Greater(1, Lesser(limit, MaxListed)) - 1)
  IN {S \in SUBSET matching :
        /\ Cardinality(S) = size
        /\ \A g \in S, h \in matching \ S : blockOf[h] <= blockOf[g]}

(* The newest of those among matches; any order of those of one block.     *)
listUserOps(limit, matches) ==
  LET matching == {h \in DOMAIN store : UserOpSummary(h) \in matches}
      size == Lesser(Cardinality(matching), Greater(1, Lesser(limit, MaxListed)))
  IN {S \in SUBSET matching :
        /\ Cardinality(S) = size
        /\ \A g \in S, h \in matching \ S : blockOf[h] <= blockOf[g]}

(* Variant: the bucket that begins right now is left out.                  *)
BucketsBefore(start, now, bucket) ==
  {t \in start .. now - 1 : \E i \in 0 .. now - start : t = start + i * bucket}
Buckets(start, now, bucket) ==
  {t \in start .. now : \E i \in 0 .. now - start : t = start + i * bucket}

(* A bucket for every start of one, up to the one that now is in.  The     *)
(* clock of the chain may be ahead of now.                                 *)
timeseries(now, windowSec, bucketSec) ==
  LET window == Greater(MinWindow, Lesser(windowSec, MaxWindow))
      bucket == Greater(MinWindow, Lesser(bucketSec, window))
      start == now - window
      BucketStart(ts) == start + ((ts - start) \div bucket) * bucket
  IN [t \in Buckets(start, now, bucket) |->
       Totals({h \in DOMAIN store :
                 UserOpSummary(h).ts >= start /\ BucketStart(UserOpSummary(h).ts) = t})]

----------------------------------------------------------------------------
(* The soak test: soak-gasless.sh and analyzeSoakRun.                      *)

(* Division of BigInts rounds towards zero.  Of the four checks, passed    *)
(* has the one that counts operations which failed on chain.               *)
Quotient(m, n) == IF m >= 0 THEN m \div n ELSE -((-m) \div n)
PerAttempt(m) == IF Attempts > 0 THEN Quotient(m, Attempts) ELSE 0

analyzeSoakRun(summary, userops, maxUserOpFailures) ==
  LET failures == Cardinality({h \in userops : ~Op[h].success})
      net == summary.fee - summary.gas
  IN [passed |-> failures <= maxUserOpFailures, userOpFailures |-> failures,
      marginBps |-> IF summary.fee > 0 THEN Quotient(net * 10000, summary.fee) ELSE 0,
      revenue |-> PerAttempt(summary.fee), expense |-> PerAttempt(summary.gas),
      net |-> PerAttempt(summary.fee) - PerAttempt(summary.gas)]

(* All swaps are over: no block follows.                                   *)
CollectSummary ==
  /\ soak.at = "running" /\ head = MaxHead /\ process # "down"
  /\ soak' = [at |-> "summary", summary |-> metricsSummary]

(* limit=10000, without a filter; the run is judged at once.               *)
Unfiltered == {UserOpSummary(h) : h \in DOMAIN store}
CollectUserOps ==
  /\ soak.at = "summary" /\ process # "down"
  /\ \E listed \in listUserOps(10000, Unfiltered) :
       soak' = [at |-> "judged", summary |-> soak.summary,
                report |-> analyzeSoakRun(soak.summary, listed, 0)]

(* curl -f fails, and with it the script.                                  *)
SoakAborts ==
  /\ soak.at \in {"running", "summary"} /\ head = MaxHead /\ process = "down"
  /\ soak' = [at |-> "aborted"]

SoakStep == (CollectSummary \/ CollectUserOps \/ SoakAborts) /\ UNCHANGED vars
IndexerStep == Next /\ UNCHANGED soak
ReportsInit == Init /\ soak = [at |-> "running"]
ReportsNext == IndexerStep \/ SoakStep
ReportsSpec == ReportsInit /\ [][ReportsNext]_<<vars, soak>> /\ Fairness

----------------------------------------------------------------------------
(* The reports agree with each other and with the chain, whatever has been *)
(* lost, evicted, torn or reloaded: senders, failure reasons and the       *)
(* buckets of a series that reaches back far enough add up to the summary; *)
(* the fees are never more than what was earned, the gas never more than   *)
(* what was paid.                                                          *)
Fields == {"total", "gas", "fee"}
AddsUp(parts, whole) ==
  \A f \in Fields : whole[f] = SumFunction([p \in DOMAIN parts |-> parts[p][f]])
ReportsAgree ==
  LET whole == metricsSummary
      failures == getFailureMetrics
      executed == {h \in Ops : blockOf[h] # 0}
  IN /\ AddsUp(perSenderMetrics, whole)
     /\ head <= MaxWindow =>
          \A bucket \in 1 .. 2 : AddsUp(timeseries(head, head, bucket), whole)
     /\ whole.failed = SumFunction(failures)
     /\ whole.fee <= SumFunction([h \in executed |-> Op[h].fee])
     /\ whole.gas <= SumFunction([h \in executed |-> Op[h].entryGas])

(* A soak run is failed for what failed on chain only, and for no less     *)
(* than the summary it collected first knows of, if all operations fit in  *)
(* the list and in memory, and the monitor has not been started again.     *)
SoakIsJust ==
  soak.at = "judged" =>
    LET failures == soak.report.userOpFailures
    IN /\ failures <= Cardinality({h \in Ops : blockOf[h] # 0 /\ ~Op[h].success})
       /\ Cardinality(Ops) <= Lesser(MaxListed, retentionMax) /\ crashes = 0 =>
            failures >= soak.summary.failed
=============================================================================
