--------------------------- MODULE BundlerEngine ---------------------------
(***************************************************************************)
(* One bundler process: BundlerEngine behind its JSON-RPC server, with the *)
(* node it sends transactions to.                                          *)
(*                                                                         *)
(* The process is single threaded: between two awaits nothing else runs,   *)
(* so an action is the code from one await to the next.  An accepted call  *)
(* i of eth_sendUserOperation and the mempool entry it creates are one     *)
(* record: the mempool maps a hash to the entry object that was stored     *)
(* last (current), while a bundle in flight keeps the objects it selected. *)
(* A call that is refused, by an injected failure, a fee floor, the        *)
(* simulation or a failing request to the node, changes nothing.           *)
(***************************************************************************)
EXTENDS Integers, Sequences, FiniteSets, Functions

CONSTANTS
  Ops,                     \* the operation of every hash: [sender, nonce, feeOk]
  autoBundleMempoolSize,   \* configured batch size
  HasTimer,                \* whether autoBundleInterval > 0
  Strict,                  \* whether admission simulates (policy.strict)
  MaxBundleOps,            \* operations per bundle at most (25)
  Lossy,                   \* whether the node may lose a transaction
  MaxNow,                  \* last reading of Date.now() (bounds the model)
  MaxCalls,                \* calls past the simulation (bounds the model)
  MaxRestarts              \* restarts of the process (bounds the model)

Hashes == DOMAIN Ops
Senders == {Ops[h].sender : h \in Hashes}

ASSUME BundlerAssumption ==
  /\ IsFiniteSet(Hashes)
  /\ \A h \in Hashes : Ops[h].nonce \in Nat /\ Ops[h].feeOk \in BOOLEAN
  /\ autoBundleMempoolSize \in Nat
  /\ MaxBundleOps \in Nat \ {0}
  /\ HasTimer \in BOOLEAN /\ Strict \in BOOLEAN
  /\ Lossy \in BOOLEAN
  /\ MaxNow \in Nat /\ MaxCalls \in Nat /\ MaxRestarts \in Nat

VARIABLES
  admitted,     \* calls whose simulation has passed, by hash
  call,         \* the accepted calls and their entries, in that order
  current,      \* the mempool: the call whose entry a hash maps to, or 0
  now,          \* Date.now(), which need not advance between two entries
  up,           \* FALSE after stop()
  step,         \* where _attemptBundle awaits; "idle": bundlingInFlight is off
  flight,       \* the entries of the bundle in flight
  tx,           \* its transaction, an index of txs
  startedFrom,  \* block number read by start()
  restarts,
  txs,          \* transactions the node has taken from this bundler
  nonce,        \* EntryPoint nonces of the senders
  executedAt,   \* block in which an operation was executed, or 0
  block         \* number of the last block that executed operations

engineVars == <<admitted, call, current, now, up, step, flight, tx, startedFrom, restarts>>
chainVars == <<txs, nonce, executedAt, block>>
vars == <<engineVars, chainVars>>

Stage == {"logging", "done", "lost"}
Status == {"none", "pending", "sent", "mined", "failed"}
Step == {"idle", "preparing", "sending", "submitted", "recording", "failing"}
Calls == DOMAIN call

Call == [hash : Hashes, stage : Stage, status : Status, receivedAtMs : Nat, slot : Nat]
Tx == [ops : SUBSET (1 .. MaxCalls), status : {"pending", "mined", "reverted", "dropped"}]

TypeOK ==
  /\ admitted \in [Hashes -> Nat]
  /\ call \in Seq(Call) /\ Len(call) <= MaxCalls
  /\ current \in [Hashes -> 0 .. Len(call)]
  /\ now \in 0 .. MaxNow
  /\ up \in BOOLEAN
  /\ step \in Step
  /\ flight \in SUBSET Calls
  /\ tx \in 0 .. Len(txs)
  /\ startedFrom \in Nat /\ restarts \in Nat /\ block \in Nat
  /\ txs \in Seq(Tx)
  /\ nonce \in [Senders -> Nat]
  /\ executedAt \in [Hashes -> Nat]

----------------------------------------------------------------------------
(* The mempool: a Map, which keeps a key where it was first inserted and   *)
(* from which nothing is ever deleted.                                     *)

Known == {h \in Hashes : current[h] # 0}
Slot(h) == IF current[h] # 0 THEN call[current[h]].slot ELSE Cardinality(Known) + 1

PendingIds == {i \in Calls : call[i].status = "pending" /\ current[call[i].hash] = i}

(* Sorting by time is stable, so equal times keep the order of the map.    *)
Before(i, j) ==
  \/ call[i].receivedAtMs < call[j].receivedAtMs
  \/ call[i].receivedAtMs = call[j].receivedAtMs /\ call[i].slot < call[j].slot

Lesser(m, n) == IF m <= n THEN m ELSE n

SelectionSize ==
  Lesser(Cardinality(PendingIds),
         IF autoBundleMempoolSize > 0 THEN Lesser(autoBundleMempoolSize, MaxBundleOps) ELSE 1)

Selected(S) ==
  /\ Cardinality(S) = SelectionSize
  /\ \A i \in S, j \in PendingIds \ S : Before(i, j)

WithStatus(S, status) ==
  [i \in Calls |-> IF i \in S THEN [call[i] EXCEPT !.status = status] ELSE call[i]]

----------------------------------------------------------------------------
(* eth_sendUserOperation.                                                  *)

(* A strict bundler first asks the node to simulate; the node does so on   *)
(* the chain of that moment, and its answer comes later.                   *)
SimulationPasses(h) ==
  /\ Strict /\ up
  /\ Ops[h].feeOk
  /\ nonce[Ops[h].sender] = Ops[h].nonce
  /\ Len(call) + SumFunction(admitted) < MaxCalls
  /\ admitted' = [admitted EXCEPT ![h] = @ + 1]
  /\ UNCHANGED <<call, current, now, up, step, flight, tx, startedFrom, restarts, chainVars>>

(* The entry is stored, over an older one of the same hash if there is     *)
(* one; Date.now() may have advanced.                                      *)
Accept(h) ==
  /\ IF Strict
     THEN /\ admitted[h] > 0
          /\ admitted' = [admitted EXCEPT ![h] = @ - 1]
     ELSE /\ up
          /\ Ops[h].feeOk
          /\ UNCHANGED admitted
  /\ Len(call) < MaxCalls
  /\ now' \in {now, now + 1} \cap 0 .. MaxNow
  /\ call' = Append(call, [hash |-> h, stage |-> "logging", status |-> "pending",
                           receivedAtMs |-> now', slot |-> Slot(h)])
  /\ current' = [current EXCEPT ![h] = Len(call) + 1]
  /\ UNCHANGED <<up, step, flight, tx, startedFrom, restarts, chainVars>>

(* Variant: a bundle is begun although one is in flight.                   *)
MayAttemptInFlight(force) ==
  /\ PendingIds # {}
  /\ force \/ SelectionSize >= autoBundleMempoolSize

(* The early returns of _attemptBundle.                                    *)
MayAttempt(force) ==
  /\ step = "idle"
  /\ PendingIds # {}
  /\ force \/ SelectionSize >= autoBundleMempoolSize

BeginAttempt ==
  /\ flight' \in {S \in SUBSET PendingIds : Selected(S)}
  /\ step' = "preparing"
  /\ tx' = 0

(* The log, and the artificial delay, are over: attempt a bundle if the    *)
(* mempool, with all it ever held, has the configured size.                *)
Trigger == autoBundleMempoolSize <= 1 \/ Cardinality(Known) >= autoBundleMempoolSize

Return(i) ==
  /\ call[i].stage = "logging"
  /\ call' = [call EXCEPT ![i].stage = "done"]
  /\ IF Trigger /\ MayAttempt(TRUE) THEN BeginAttempt ELSE UNCHANGED <<flight, step, tx>>
  /\ UNCHANGED <<admitted, current, now, up, startedFrom, restarts, chainVars>>

----------------------------------------------------------------------------
(* _attemptBundle.                                                         *)

TimerFires ==
  /\ HasTimer /\ up
  /\ MayAttempt(FALSE)
  /\ BeginAttempt
  /\ UNCHANGED <<admitted, call, current, now, up, startedFrom, restarts, chainVars>>

(* The beneficiary is known, the attempt is logged, the transaction is     *)
(* signed; the node takes it.                                              *)
Broadcast ==
  /\ step = "preparing"
  /\ step' = "sending"
  /\ txs' = Append(txs, [ops |-> flight, status |-> "pending"])
  /\ tx' = Len(txs) + 1
  /\ UNCHANGED <<admitted, call, current, now, up, flight, startedFrom, restarts, nonce, executedAt, block>>

SendReturns ==
  /\ step = "sending"
  /\ step' = "submitted"
  /\ call' = WithStatus(flight, "sent")
  /\ UNCHANGED <<admitted, current, now, up, flight, tx, startedFrom, restarts, chainVars>>

(* tx.wait() resolves, and rejects if the transaction has reverted.        *)
WaitOver == txs[tx].status = "mined"

(* The entries are set to "mined" one by one, with a log in between.       *)
Unrecorded == {i \in flight : call[i].status # "mined"}
Record ==
  \E i \in Unrecorded :
    /\ \A j \in Unrecorded \ {i} : Before(i, j)
    /\ call' = WithStatus({i}, "mined")

WaitReturns ==
  /\ step = "submitted"
  /\ WaitOver
  /\ Record
  /\ step' = "recording"
  /\ UNCHANGED <<admitted, current, now, up, flight, tx, startedFrom, restarts, chainVars>>

RecordNext ==
  /\ step = "recording"
  /\ Record
  /\ UNCHANGED <<admitted, current, now, up, step, flight, tx, startedFrom, restarts, chainVars>>

(* Variant: the entries stay "pending".                                    *)
FlightFailsToBeRetried ==
  /\ step \in {"preparing", "sending", "submitted"}
  /\ step' = "failing"
  /\ UNCHANGED <<admitted, call, current, now, up, flight, tx, startedFrom, restarts, chainVars>>

(* Any of its calls rejects: the node refuses the transaction, or its      *)
(* answer is lost, or the transaction has reverted.                        *)
FlightFails ==
  /\ step \in {"preparing", "sending", "submitted"}
  /\ step' = "failing"
  /\ call' = WithStatus(flight, "failed")
  /\ UNCHANGED <<admitted, current, now, up, flight, tx, startedFrom, restarts, chainVars>>

(* The last log is over; finally resets the flag.                          *)
Release ==
  /\ step = "failing" \/ (step = "recording" /\ Unrecorded = {})
  /\ step' = "idle"
  /\ flight' = {}
  /\ tx' = 0
  /\ UNCHANGED <<admitted, call, current, now, up, startedFrom, restarts, chainVars>>

----------------------------------------------------------------------------
(* The process and the chain.                                              *)

Stop ==
  /\ up
  /\ up' = FALSE
  /\ UNCHANGED <<admitted, call, current, now, step, flight, tx, startedFrom, restarts, chainVars>>

(* A crash, or the end of the process, and start(): the mempool, the calls *)
(* and the bundle in flight are gone, transactions at the node are not.    *)
(* Empty blocks may have followed the last one with operations.            *)
Restart ==
  /\ restarts < MaxRestarts
  /\ restarts' = restarts + 1
  /\ admitted' = [h \in Hashes |-> 0]
  /\ call' = [i \in Calls |-> [call[i] EXCEPT !.stage = "lost", !.status = "none"]]
  /\ current' = [h \in Hashes |-> 0]
  /\ up' = TRUE
  /\ step' = "idle"
  /\ flight' = {}
  /\ tx' = 0
  /\ block' \in {block, block + 1}
  /\ startedFrom' = block'
  /\ UNCHANGED <<now, txs, nonce, executedAt>>

(* handleOps goes through only if every operation of the bundle, in its    *)
(* order, has its sender's next nonce.                                     *)
EarlierOf(S, i) ==
  {j \in S : Before(j, i) /\ Ops[call[j].hash].sender = Ops[call[i].hash].sender}
InNonceOrder(S) ==
  \A i \in S : Ops[call[i].hash].nonce
                 = nonce[Ops[call[i].hash].sender] + Cardinality(EarlierOf(S, i))

OpsOf(S, s) == {i \in S : Ops[call[i].hash].sender = s}

Mine(t) ==
  /\ txs[t].status = "pending"
  /\ InNonceOrder(txs[t].ops)
  /\ block' = block + 1
  /\ txs' = [txs EXCEPT ![t].status = "mined"]
  /\ nonce' = [s \in Senders |-> nonce[s] + Cardinality(OpsOf(txs[t].ops, s))]
  /\ executedAt' = [h \in Hashes |->
                      IF \E i \in txs[t].ops : call[i].hash = h THEN block' ELSE executedAt[h]]
  /\ UNCHANGED engineVars

(* For one operation that does not validate, all of them revert.           *)
Revert(t) ==
  /\ txs[t].status = "pending"
  /\ txs' = [txs EXCEPT ![t].status = "reverted"]
  /\ UNCHANGED <<engineVars, nonce, executedAt, block>>

Drop(t) ==
  /\ Lossy
  /\ txs[t].status = "pending"
  /\ txs' = [txs EXCEPT ![t].status = "dropped"]
  /\ UNCHANGED <<engineVars, nonce, executedAt, block>>

(* Another bundler executes an operation.                                  *)
OtherExecutes(h) ==
  /\ nonce[Ops[h].sender] = Ops[h].nonce
  /\ nonce' = [nonce EXCEPT ![Ops[h].sender] = @ + 1]
  /\ block' = block + 1
  /\ executedAt' = [executedAt EXCEPT ![h] = block']
  /\ UNCHANGED <<engineVars, txs>>

----------------------------------------------------------------------------
Init ==
  /\ admitted = [h \in Hashes |-> 0]
  /\ call = <<>>
  /\ current = [h \in Hashes |-> 0]
  /\ now = 0
  /\ up = TRUE
  /\ step = "idle"
  /\ flight = {}
  /\ tx = 0
  /\ startedFrom = 1
  /\ restarts = 0
  /\ txs = <<>>
  /\ nonce = [s \in Senders |-> 0]
  /\ executedAt = [h \in Hashes |-> 0]
  /\ block = 1

FlightStep ==
  Broadcast \/ SendReturns \/ WaitReturns \/ RecordNext \/ FlightFails \/ Release

(* What settles by itself: all of it, except a failure that need not come.  *)
FlightSettles ==
  \/ Broadcast \/ SendReturns \/ WaitReturns \/ RecordNext \/ Release
  \/ step = "submitted" /\ txs[tx].status = "reverted" /\ FlightFails

ChainStep == \E t \in DOMAIN txs : Mine(t) \/ Revert(t)

Next ==
  \/ \E h \in Hashes : SimulationPasses(h) \/ Accept(h)
  \/ \E i \in Calls : Return(i)
  \/ TimerFires
  \/ FlightStep
  \/ Stop
  \/ Restart
  \/ ChainStep
  \/ \E t \in DOMAIN txs : Drop(t)
  \/ \E h \in Hashes : OtherExecutes(h)

Spec == Init /\ [][Next]_vars

(* Every awaited call settles (the node client and fetch have timeouts),   *)
(* the interval timer keeps firing, and the chain includes what it has     *)
(* been sent unless it is Lossy.                                           *)
Fairness ==
  /\ \A i \in 1 .. MaxCalls : WF_vars(i \in Calls /\ Return(i))
  /\ WF_vars(FlightSettles)
  /\ WF_vars(TimerFires)
  /\ WF_vars(ChainStep)

FairSpec == Spec /\ Fairness

----------------------------------------------------------------------------
(* Properties.                                                             *)

(* What a search of the chain from the block of the start on can find.     *)
ExecutedSinceStart(h) == executedAt[h] # 0 /\ executedAt[h] >= startedFrom

(* An entry object goes into at most one transaction, although it stays    *)
(* "pending" while _attemptBundle awaits the beneficiary, the log and the  *)
(* node: bundlingInFlight keeps the timer and other calls from taking it   *)
(* again, and a failed entry is not retried.                               *)
OneTxPerEntry ==
  \A t1, t2 \in DOMAIN txs : t1 # t2 => txs[t1].ops \cap txs[t2].ops = {}

(* An entry reported "mined" is executed on chain, in a block since the    *)
(* start, even if other bundlers race for the operation, its transaction   *)
(* was preceded by failed ones, or the entry has been replaced in the map. *)
MinedIsExecuted ==
  \A i \in Calls : call[i].status = "mined" =>
    ExecutedSinceStart(call[i].hash)

(* No entry is left "sent" by a bundle that is over: whatever way the      *)
(* attempt ended, its entries are "mined" or "failed", also those that the *)
(* mempool does not hold any more.                                         *)
SentIsInFlight ==
  \A i \in Calls : call[i].status = "sent" =>
    i \in flight /\ step \in {"submitted", "recording"}

(* A decided entry stays decided until the process ends: a late answer, a  *)
(* resubmission or a second bundle never reopens it.                       *)
Decided == [][\A i \in Calls :
                call[i].status \in {"mined", "failed"} /\ restarts' = restarts
                  => call'[i].status = call[i].status]_vars

(* With a timer, an operation is taken out of the pool (bundled, or        *)
(* replaced by a resubmission of itself) whenever a whole batch waits,     *)
(* however many triggers came while a bundle was in flight: what can keep  *)
(* it there for ever is a transaction that the node has lost, for which    *)
(* tx.wait() waits without end, and nothing else.                          *)
AwaitsLost == step = "submitted" /\ txs[tx].status = "dropped"
EveryOpLeavesPool ==
  \A i \in 1 .. MaxCalls :
    (i \in Calls /\ i \in PendingIds /\ up) ~>
      \/ i \notin PendingIds \/ ~up
      \/ Cardinality(PendingIds) < autoBundleMempoolSize
      \/ AwaitsLost

(* eth_getUserOperationReceipt: from the entry if it has a receipt, else   *)
(* by a search of the chain.                                               *)
InMemory(h) == current[h] # 0 /\ call[current[h]].status = "mined"
(* Variant: no search of the chain for what this process did not record.   *)
AnswersFromMemory(h) == InMemory(h)
Answers(h) == InMemory(h) \/ ExecutedSinceStart(h)

Service == INSTANCE UserOpService WITH
  accepted <- Known,
  executed <- {h \in Hashes : executedAt[h] # 0},
  answered <- {h \in Hashes : Answers(h)}

(* The inductive invariant behind the safety properties and the            *)
(* refinement: what each await leaves true of the entries in flight and of *)
(* their transaction, that no other entry waiting for a bundle is in a     *)
(* transaction already, and that nonces are beyond all that was executed.  *)
FlightOK ==
  /\ step = "idle" <=> flight = {}
  /\ step \in {"preparing", "sending"} => \A i \in flight : call[i].status = "pending"
  /\ step = "submitted" => \A i \in flight : call[i].status = "sent"
  /\ step = "recording" =>
       txs[tx].status = "mined" /\ \A i \in flight : call[i].status \in {"sent", "mined"}
  /\ step = "failing" => \A i \in flight : call[i].status = "failed"
  /\ step \in {"sending", "submitted", "recording"} => tx # 0 /\ txs[tx].ops = flight

(* An entry that waits for a bundle, or whose bundle the node does not     *)
(* have yet, is in no transaction.                                         *)
WaitingIsFresh ==
  \A i \in Calls : call[i].status = "pending" /\ (i \in flight => step = "preparing")
    => \A t \in DOMAIN txs : i \notin txs[t].ops

MinedFlightExecuted ==
  step \in {"sending", "submitted", "recording"} /\ txs[tx].status = "mined"
    => \A i \in flight : ExecutedSinceStart(call[i].hash)

ChainOK ==
  /\ \A t \in DOMAIN txs : txs[t].ops # {} /\ txs[t].ops \subseteq Calls
  /\ \A h \in Hashes : executedAt[h] # 0 => Ops[h].nonce < nonce[Ops[h].sender]
  /\ startedFrom <= block /\ startedFrom > 0

MapOK == \A h \in Known : call[current[h]].hash = h

IInv ==
  /\ TypeOK
  /\ FlightOK
  /\ SentIsInFlight
  /\ MinedIsExecuted
  /\ OneTxPerEntry
  /\ WaitingIsFresh
  /\ MinedFlightExecuted
  /\ ChainOK
  /\ MapOK

(* Whatever awaits interleave, operations are resubmitted, or bundles      *)
(* fail, the bundler gives the guarantees of UserOpService.                *)
ImplementsService == Service!Spec
============================================================================
