----------------------------- MODULE BundlerRpc -----------------------------
(***************************************************************************)
(* The questions a client asks over a bundler's JSON-RPC server while the  *)
(* engine works: eth_estimateUserOperationGas, eth_getUserOperationReceipt *)
(* and eth_getUserOperationByHash, each over several awaits.  An operation *)
(* is packed to be sent and unpacked from the chain, its logs are cut out  *)
(* of those of its bundle, and its validity times out of two words.        *)
(***************************************************************************)
EXTENDS BundlerEngine, SequencesExt

CONSTANTS
  UserOp,                    \* the JSON-RPC form of the operation of every hash
  Emits,                     \* how many logs its execution emits
  AccountData, PaymasterData,\* its validation data, as the simulation returns it
  Bytes,                     \* the zero and the other bytes of its encoding
  Pad,                       \* 2 ** 128, what one half of a packed word holds
  AggregatorMod, TimeMod     \* 2 ** 160 and 2 ** 48

Undefined == <<>>       \* a field is <<value>> or Undefined
IsField(f, S) == f \in Seq(S) /\ Len(f) <= 1
AddressZero == 0

(* Words are numbers.  The operations are those that packUserOpV07 takes,  *)
(* with numbers that fit their halves and a factory that comes with its    *)
(* data; validation data are words of 256 bits.                            *)
PackableOp(o) ==
  /\ o.verificationGasLimit \in Nat /\ o.callGasLimit \in 0 .. Pad - 1
  /\ o.maxPriorityFeePerGas \in Nat /\ o.maxFeePerGas \in 0 .. Pad - 1
  /\ o.preVerificationGas \in Nat
  /\ \A f \in {o.factory, o.paymaster, o.paymasterVerificationGasLimit, o.paymasterPostOpGasLimit} :
       IsField(f, Nat)
  /\ IsField(o.factoryData, Seq(Nat)) /\ IsField(o.paymasterData, Seq(Nat))
  /\ o.factory = Undefined <=> o.factoryData = Undefined

ASSUME RpcAssumption ==
  /\ Pad \in Nat \ {0} /\ AggregatorMod \in Nat \ {0} /\ TimeMod \in Nat \ {0}
  /\ \A h \in Hashes :
       /\ UserOp[h].sender = Ops[h].sender /\ UserOp[h].nonce = Ops[h].nonce
       /\ PackableOp(UserOp[h])
       /\ {AccountData[h], PaymasterData[h]} \subseteq 0 .. AggregatorMod * TimeMod * TimeMod - 1
       /\ Bytes[h].zero \in Nat /\ Bytes[h].other \in Nat /\ Emits[h] \in Nat

VARIABLES
  query,   \* where the method awaits, and what it has read
  answer   \* its answer, until the next question

rpcVars == <<query, answer>>
NoQuery == [at |-> "idle"]
NoAnswer == [outcome |-> "none"]

----------------------------------------------------------------------------
(* packing.ts.  The data of a factory and of a paymaster are sequences of  *)
(* words, which may be empty ("0x").                                       *)

Pair(high, low) == high * Pad + low

Given(field, otherwise) == IF field = Undefined THEN otherwise ELSE field[1]

packUserOpV07(o) ==
  [sender |-> o.sender, nonce |-> o.nonce,
   initCode |-> IF o.factory = Undefined THEN <<>> ELSE o.factory \o Given(o.factoryData, <<>>),
   accountGasLimits |-> Pair(o.verificationGasLimit, o.callGasLimit),
   preVerificationGas |-> o.preVerificationGas,
   gasFees |-> Pair(o.maxPriorityFeePerGas, o.maxFeePerGas),
   paymasterAndData |->
     IF o.paymaster \in {Undefined, <<AddressZero>>} THEN <<>>
     ELSE o.paymaster \o <<Given(o.paymasterVerificationGasLimit, 0)>>
            \o <<Given(o.paymasterPostOpGasLimit, 0)>> \o Given(o.paymasterData, <<>>)]

(* The page's own packing, of which the user signs the hash.               *)
buildPackedUserOpV07(o) ==
  LET initCode == IF o.factory = Undefined THEN <<>> ELSE o.factory \o Given(o.factoryData, <<>>)
      limits == <<Given(o.paymasterVerificationGasLimit, 0), Given(o.paymasterPostOpGasLimit, 0)>>
      sponsored == o.paymaster # Undefined /\ o.paymaster # <<AddressZero>>
  IN [sender |-> o.sender, nonce |-> o.nonce, initCode |-> initCode,
      accountGasLimits |-> Pair(o.verificationGasLimit, o.callGasLimit),
      preVerificationGas |-> o.preVerificationGas,
      gasFees |-> Pair(o.maxPriorityFeePerGas, o.maxFeePerGas),
      paymasterAndData |->
        IF sponsored THEN o.paymaster \o limits \o Given(o.paymasterData, <<>>) ELSE <<>>]

Unpacked(p, factory, paymaster) ==
  LET pm == p.paymasterAndData IN
     [sender |-> p.sender, nonce |-> p.nonce,
      factory |-> IF factory THEN <<p.initCode[1]>> ELSE Undefined,
      factoryData |-> IF factory THEN <<Tail(p.initCode)>> ELSE Undefined,
      verificationGasLimit |-> p.accountGasLimits \div Pad,
      callGasLimit |-> p.accountGasLimits % Pad,
      preVerificationGas |-> p.preVerificationGas,
      maxPriorityFeePerGas |-> p.gasFees \div Pad,
      maxFeePerGas |-> p.gasFees % Pad,
      paymaster |-> IF paymaster THEN <<pm[1]>> ELSE Undefined,
      paymasterVerificationGasLimit |-> IF paymaster THEN <<pm[2]>> ELSE Undefined,
      paymasterPostOpGasLimit |-> IF paymaster THEN <<pm[3]>> ELSE Undefined,
      paymasterData |-> IF paymaster THEN <<SubSeq(pm, 4, Len(pm))>> ELSE Undefined]

(* Variant: the data of a paymaster must not be empty.                     *)
unpackUserOpV07WithData(p) == Unpacked(p, Len(p.initCode) >= 1, Len(p.paymasterAndData) > 3)

(* The address of a factory, and address and limits of a paymaster, must   *)
(* be there; the data may be empty.                                        *)
unpackUserOpV07(p) == Unpacked(p, Len(p.initCode) >= 1, Len(p.paymasterAndData) >= 3)

(* Variant: no end of the validity stays zero.                             *)
parseValidationDataRaw(word) ==
  [validUntil |-> (word \div AggregatorMod) % TimeMod,
   validAfter |-> (word \div (AggregatorMod * TimeMod)) % TimeMod]

(* Zero stands for no end of the validity: MAX_SAFE_INTEGER, here a time   *)
(* beyond all of them.                                                     *)
parseValidationData(word) ==
  LET until == (word \div AggregatorMod) % TimeMod
  IN [validUntil |-> IF until = 0 THEN TimeMod ELSE until,
      validAfter |-> (word \div (AggregatorMod * TimeMod)) % TimeMod]

----------------------------------------------------------------------------
(* What the node returns: the transaction that executed an operation, its  *)
(* logs, and the operations in it.                                         *)

(* The bundler's own transaction, or 0 for one of another bundler.         *)
TxOf(h) ==
  LET own == {t \in DOMAIN txs : txs[t].status = "mined" /\ \E i \in txs[t].ops : call[i].hash = h}
  IN IF own = {} THEN 0 ELSE CHOOSE t \in own : TRUE

Place(S, i) == Cardinality({j \in S : Before(j, i)}) + 1
InOrder(S) ==
  LET place == [i \in S |-> Place(S, i)]
  IN [k \in 1 .. Cardinality(S) |-> CHOOSE i \in S : place[i] = k]
OpsIn(t, h) ==
  IF t = 0 THEN <<h>>
  ELSE [k \in 1 .. Cardinality(txs[t].ops) |-> call[InOrder(txs[t].ops)[k]].hash]

(* Accounts are deployed before BeforeExecution; then every operation      *)
(* emits its own logs and its UserOperationEvent.                          *)
LogsIn(t, h) ==
  LET ops == OpsIn(t, h)
      Deployed(g) == IF UserOp[g].factory = Undefined THEN <<>> ELSE <<<<"deployed", g>>>>
      Executed(g) == [k \in 1 .. Emits[g] |-> <<"own", g, k>>] \o <<<<"event", g>>>>
  IN FlattenSeq([k \in DOMAIN ops |-> Deployed(ops[k])]) \o <<<<"before">>>>
       \o FlattenSeq([k \in DOMAIN ops |-> Executed(ops[k])])

----------------------------------------------------------------------------
(* Receipts.                                                               *)

(* Variant: the start moves behind the events of other operations, too.    *)
LookFromStart(h, logs, seen, k) ==
  CASE logs[k][1] = "before" -> [start |-> k, end |-> 0]
    [] logs[k][1] = "event" ->
         IF logs[k][2] = h THEN [start |-> seen.start, end |-> k]
         ELSE [start |-> k, end |-> seen.end]
    [] OTHER -> seen

(* One log after the other.  BeforeExecution sets start and end, so that   *)
(* the events of other operations do not move the start any more.          *)
Look(h, logs, seen, k) ==
  CASE logs[k][1] = "before" -> [start |-> k, end |-> k]
    [] logs[k][1] = "event" ->
         IF logs[k][2] = h THEN [start |-> seen.start, end |-> k]
         ELSE IF seen.end = 0 THEN [start |-> k, end |-> 0] ELSE seen
    [] OTHER -> seen

(* _filterLogsForUserOp.                                                   *)
Filter(h, logs) ==
  LET found[k \in 0 .. Len(logs)] ==
        IF k = 0 THEN [start |-> 0, end |-> 0] ELSE Look(h, logs, found[k - 1], k)
      last == found[Len(logs)]
  IN IF last.end = 0 THEN logs ELSE SubSeq(logs, last.start + 1, last.end - 1)

Receipt(h, t) == [tx |-> t, logs |-> Filter(h, LogsIn(t, h))]

(* The end of a method.                                                    *)
Ended(q, outcome) ==
  [method |-> q.method, hash |-> q.hash, executed |-> q.executed, outcome |-> outcome]
Answered(q, result) ==
  [method |-> q.method, hash |-> q.hash, executed |-> q.executed, outcome |-> "found",
   result |-> result]

(* What a method works on: executed is the block that had executed the     *)
(* operation when the question came, or 0.                                 *)
Asked(method, h, at) ==
  [method |-> method, hash |-> h, executed |-> executedAt[h], at |-> at, tx |-> 0]

(* An entry with a receipt answers at once; else the logs of the event are *)
(* asked for.                                                              *)
AskReceipt(h) ==
  /\ query = NoQuery
  /\ LET q == Asked("receipt", h, "logs")
     IN IF InMemory(h) THEN answer' = Answered(q, Receipt(h, TxOf(h))) /\ UNCHANGED query
        ELSE query' = q /\ answer' = NoAnswer

(* An entry answers with the operation as it was received.                 *)
AskByHash(h) ==
  /\ query = NoQuery
  /\ LET q == Asked("byHash", h, "logs")
     IN IF InMemory(h) THEN answer' = Answered(q, UserOp[h]) /\ UNCHANGED query
        ELSE query' = q /\ answer' = NoAnswer

(* Variant: the block of the start is not searched.                        *)
FindsAfterStart(h) == executedAt[h] # 0 /\ executedAt[h] > startedFrom

(* getLogs from the block of the start on.                                 *)
Finds(h) == ExecutedSinceStart(h)

LogsRead ==
  /\ query.at = "logs"
  /\ IF Finds(query.hash)
     THEN query' = [query EXCEPT !.at = "transaction", !.tx = TxOf(query.hash)] /\ UNCHANGED answer
     ELSE query' = NoQuery /\ answer' = Ended(query, "null")

(* The operation of the transaction with the event's sender and nonce; a   *)
(* transaction of another bundler may have reached the EntryPoint through  *)
(* a contract of its own, and then is not looked into.                     *)
OpInTx ==
  LET ops == OpsIn(query.tx, query.hash)
      k == CHOOSE k \in DOMAIN ops : /\ UserOp[ops[k]].sender = UserOp[query.hash].sender
                                     /\ UserOp[ops[k]].nonce = UserOp[query.hash].nonce
  IN unpackUserOpV07(packUserOpV07(UserOp[ops[k]]))

TransactionRead ==
  /\ query.at = "transaction"
  /\ query' = NoQuery
  /\ IF query.method = "receipt"
     THEN answer' = Answered(query, Receipt(query.hash, query.tx))
     ELSE \/ answer' = Answered(query, OpInTx)
          \/ query.tx = 0 /\ answer' = Ended(query, "null")

----------------------------------------------------------------------------
(* Estimates.                                                              *)

(* EntryPointSimulations on the chain of that moment: it reverts for a     *)
(* wrong nonce, or if the paymaster refuses.                               *)
AskEstimate(h) ==
  /\ query = NoQuery
  /\ query' = Asked("estimate", h, "simulation")
  /\ answer' = NoAnswer

Simulated ==
  /\ query.at = "simulation"
  /\ IF nonce[Ops[query.hash].sender] = Ops[query.hash].nonce
     THEN query' = [query EXCEPT !.at = "code"] /\ UNCHANGED answer
     ELSE query' = NoQuery /\ answer' = Ended(query, "error")

calcPreVerificationGasV07(b) ==
  4 * b.zero + 16 * b.other + 21000 + 18300 + 4 * ((b.zero + b.other + 31) \div 32)

(* The node's estimate if there is code (1 here), else the operation's own *)
(* limit or the default; the default too if a request fails.               *)
CallGasLimits(h) ==
  {1500000} \cup (IF nonce[Ops[h].sender] # 0 THEN {1}
                 ELSE IF UserOp[h].callGasLimit # 0 THEN {UserOp[h].callGasLimit} ELSE {})

Greater(m, n) == IF m >= n THEN m ELSE n

Estimated ==
  /\ query.at = "code"
  /\ query' = NoQuery
  /\ LET h == query.hash
         account == parseValidationData(AccountData[h])
         paymaster == parseValidationData(PaymasterData[h])
     IN \E limit \in CallGasLimits(h) :
          answer' = Answered(query,
            [preVerificationGas |-> IF UserOp[h].preVerificationGas > 0 THEN UserOp[h].preVerificationGas
                                    ELSE calcPreVerificationGasV07(Bytes[h]),
             callGasLimit |-> limit,
             validAfter |-> Greater(account.validAfter, paymaster.validAfter),
             validUntil |-> Lesser(account.validUntil, paymaster.validUntil)])

(* A request to the node fails: an RpcError, with status 200.              *)
QueryFails ==
  /\ query # NoQuery
  /\ query' = NoQuery
  /\ answer' = Ended(query, "error")

----------------------------------------------------------------------------
RpcInit == Init /\ query = NoQuery /\ answer = NoAnswer

(* The engine goes on; a restart ends the question.                        *)
EngineStep ==
  /\ Next
  /\ query' = IF restarts' = restarts THEN query ELSE NoQuery
  /\ answer' = NoAnswer

RpcStep ==
  /\ \/ \E h \in Hashes : AskReceipt(h) \/ AskByHash(h) \/ AskEstimate(h)
     \/ LogsRead
     \/ TransactionRead
     \/ Simulated
     \/ Estimated
     \/ QueryFails
  /\ UNCHANGED vars

RpcNext == EngineStep \/ RpcStep

RpcSpec == RpcInit /\ [][RpcNext]_<<vars, rpcVars>>

----------------------------------------------------------------------------
Got(method) == answer.outcome = "found" /\ answer.method = method

(* A receipt tells what the operation did: its logs end with all of the    *)
(* operation's own, in order, hold none of before the execution, and, of   *)
(* the bundle's first operation, are these only; whether it comes from the *)
(* entry or from the chain, of whichever bundler's transaction.            *)
ReceiptHasItsLogs ==
  Got("receipt") =>
    LET h == answer.hash
        own == [k \in 1 .. Emits[h] |-> <<"own", h, k>>]
        logs == answer.result.logs
    IN /\ executedAt[h] # 0
       /\ IsSuffix(own, logs)
       /\ \A k \in DOMAIN logs : logs[k][1] \in {"own", "event"}
       /\ OpsIn(answer.result.tx, h)[1] = h => logs = own

(* The operation that a hash is answered with is the one that was signed:  *)
(* packed again by the bundler it gives the words whose hash the page had  *)
(* signed, also when it has gone through the packed form on the chain,     *)
(* with fields left out or empty.                                          *)
ByHashIsTheOp ==
  Got("byHash") => packUserOpV07(answer.result) = buildPackedUserOpV07(UserOp[answer.hash])

(* No receipt is denied to a client who asks after the execution, since    *)
(* the bundler started: while the entry has none yet, after it has been    *)
(* replaced, after a restart in the same block, the chain is searched.     *)
ExecutedIsFound ==
  answer.outcome = "null" /\ answer.method = "receipt" =>
    answer.executed = 0 \/ answer.executed < startedFrom

(* The times of an estimate are those at which the EntryPoint takes the    *)
(* operation, which compares each word by itself; and every limit of it is *)
(* one that the operation can be sent with.                                *)
InRange(word, t) ==
  LET until == (word \div AggregatorMod) % TimeMod
  IN /\ until = 0 \/ t <= until
     /\ t >= word \div (AggregatorMod * TimeMod)
EstimateIsUsable ==
  Got("estimate") =>
    LET h == answer.hash  e == answer.result
    IN /\ \A t \in 0 .. TimeMod - 1 :
            InRange(AccountData[h], t) /\ InRange(PaymasterData[h], t)
              <=> e.validAfter <= t /\ t <= e.validUntil
       /\ e.preVerificationGas > 0 /\ e.callGasLimit > 0
=============================================================================
