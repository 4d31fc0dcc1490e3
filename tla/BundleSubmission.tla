-------------------------- MODULE BundleSubmission --------------------------
(* One bundle after it has been selected: whom it pays, as which kind of   *)
(* transaction it goes to the node, and the reason that is told when it    *)
(* fails.  The bundler asks for that reason by replaying the transaction   *)
(* on the chain of a later moment; a page that asks for an estimate reads  *)
(* the reason for a refusal out of an error that has come through node,    *)
(* provider and JSON.                                                      *)
EXTENDS Integers, Sequences, FiniteSetsExt

CONSTANTS
  OpSenders,
  Bundles,    \* what a bundle may be
  Delays,     \* what the paymaster's policy may ask between two operations
              \* of one sender
  Selections, \* the chains that a bundle may be selected on
  Configured, \* whether the config names a beneficiary
  MaxMoves    \* bound: changes of the chain by others

(* Of an operation: the deadline of its swap, 0 for none, and the nonce of *)
(* its EIP-7702 authorization, or NoAuth.                                  *)
BundledOps ==
  [sender : OpSenders, nonce : Nat, deadline : Nat, auth : {"none", "0x", "0x0", "0x1"}]

(* What validation reads: the next nonce of each account, when it has      *)
(* swapped last (0 if never), the time of the block, the policy, and what  *)
(* the paymaster says.                                                     *)
Paymasters == {"pays", "SlippageRisk", "Error"}
Chains ==
  [nonce : [OpSenders -> Nat], last : [OpSenders -> Nat], now : Nat, delay : Delays,
   paymaster : Paymasters]
LastPassed(c) == \A s \in OpSenders : c.last[s] <= c.now

ASSUME SubmissionAssumption ==
  /\ \A b \in Bundles : b \in Seq(BundledOps)
  /\ Delays \subseteq Nat
  /\ Selections \subseteq Chains /\ \A c \in Selections : LastPassed(c)
  /\ Configured \in BOOLEAN /\ MaxMoves \in Nat

VARIABLES
  bundle,
  chain,      \* what the EntryPoint finds when it validates the operations
  attempt,    \* _attemptBundle: where it awaits, and what it knows
  selected,   \* history: the chain when the bundle was selected
  cause,      \* history: the error the bundle has reverted with, and on
              \* which chain
  refusal,    \* history: the error of the last simulation for a page
  displayed,      \* what the page shows of it
  moves

submissionVars == <<bundle, chain, attempt, selected, cause, refusal, displayed, moves>>

Positions == DOMAIN bundle
NoError == [error |-> "none"]

----------------------------------------------------------------------------
(* The EntryPoint validates one operation after the other.                 *)

(* The nonce it wants of the k-th: the operations of the same sender       *)
(* before it in the bundle have taken theirs.                              *)
NonceDue(c, ops, k) ==
  c.nonce[bundle[k].sender] + Cardinality({j \in ops : j < k /\ bundle[j].sender = bundle[k].sender})
NonceUsed(c, k) == bundle[k].nonce < NonceDue(c, Positions, k)
NonceTooHigh(c, k) == bundle[k].nonce > NonceDue(c, Positions, k)

(* The two ends of the time in which the paymaster lets it run: the swap's *)
(* deadline, and the delay after the sender's last operation.              *)
OutOfTime(c, k) == bundle[k].deadline # 0 /\ c.now > bundle[k].deadline
WithinDelay(c, k, delay) ==
  LET last == c.last[bundle[k].sender] IN last # 0 /\ c.now < last + delay

(* The paymaster may revert with an error of its own or with a string of   *)
(* the oracle's.  A simulation stops before it looks at the time.          *)
FailedOp(k, reason) == [error |-> "FailedOp", opIndex |-> k - 1, reason |-> reason]
validatePrepayment(c, ops, k) ==
  IF bundle[k].nonce # NonceDue(c, ops, k) THEN FailedOp(k, "AA25")
  ELSE IF c.paymaster # "pays"
  THEN [error |-> "FailedOpWithRevert", opIndex |-> k - 1, reason |-> "AA33", inner |-> c.paymaster]
  ELSE NoError
Invalid(c, k) ==
  IF validatePrepayment(c, Positions, k) # NoError THEN validatePrepayment(c, Positions, k)
  ELSE IF OutOfTime(c, k) \/ WithinDelay(c, k, c.delay) THEN FailedOp(k, "AA32")
  ELSE NoError

handleOps(c) ==
  LET bad == {k \in Positions : Invalid(c, k) # NoError}
  IN IF bad = {} THEN NoError ELSE Invalid(c, Min(bad))

(* Others' transactions: an operation of one of the accounts, with this    *)
(* paymaster or another, a price that changes the paymaster's mind, its    *)
(* owner's policy; and a block's time.  A nonce that is too high may so    *)
(* become right, and a delay end.                                          *)
ChainMoves ==
  /\ moves < MaxMoves /\ moves' = moves + 1
  /\ \/ \E s \in OpSenders, paid \in BOOLEAN :
          chain' = [chain EXCEPT !.nonce[s] = @ + 1, !.last[s] = IF paid THEN chain.now ELSE @]
     \/ attempt.at # "reverted" /\ chain' = [chain EXCEPT !.now = @ + 1]
     \/ \E p \in Paymasters \ {chain.paymaster} :
          chain' = [chain EXCEPT !.paymaster = p]
     \/ \E d \in Delays \ {chain.delay} : chain' = [chain EXCEPT !.delay = d]
  /\ UNCHANGED <<bundle, attempt, selected, cause, refusal, displayed>>

----------------------------------------------------------------------------
(* Errors: a value of JavaScript is revert data or an object with fields.  *)

Absent == [absent |-> TRUE]
Hex(data) == [hex |-> data]
Object(fields) == [fields |-> fields]

ValueAt(v, f) ==
  IF "fields" \in DOMAIN v /\ f \in DOMAIN v.fields THEN v.fields[f] ELSE Absent
FirstHex(candidates) ==
  LET found == {i \in DOMAIN candidates : "hex" \in DOMAIN candidates[i]}
  IN IF found = {} THEN NoError ELSE candidates[Min(found)].hex

(* Where the bundler looks for the data of an error.                       *)
ErrorData(err) ==
  LET given == ValueAt(ValueAt(err, "error"), "data")
  IN FirstHex(<<ValueAt(err, "data"), given, ValueAt(given, "data")>>)

decodeRevertData(data) == IF data \in {"Error", "Panic"} THEN data ELSE "hex"

(* Variant: the operations are counted from one.                           *)
CountedFromOne(data) ==
  [(IF data.error = "FailedOpWithRevert" THEN [data EXCEPT !.inner = decodeRevertData(@)] ELSE data)
     EXCEPT !.opIndex = @ + 1]

(* What is said of the two errors of the EntryPoint.                       *)
formatEntryPointError(data) ==
  IF data.error = "FailedOpWithRevert" THEN [data EXCEPT !.inner = decodeRevertData(@)] ELSE data

(* The page knows the paymaster's errors by name.                          *)
format4337ErrorData(data) ==
  IF data.error = "FailedOpWithRevert" /\ data.inner # "SlippageRisk"
  THEN [data EXCEPT !.inner = decodeRevertData(@)] ELSE data

----------------------------------------------------------------------------
(* EIP-7702.  A number, 0 or one that is not, and its texts.               *)

NoAuth == "none"
hexValue(n) == IF n = 0 THEN "0x0" ELSE "0x1"
toHexString(n) == IF n = 0 THEN "0x00" ELSE "0x01"

(* The nonce of the authorization that the page signs.                     *)
signEIP7702Authorization(n) == IF hexValue(n) = "0x0" THEN "0x" ELSE hexValue(n)

(* BigNumber.from refuses "0x".  The zero it gives back is never "0x0", so *)
(* that no number becomes "0x" here.                                       *)
Parses(text) == text # "0x"
Item(text) ==
  LET n == toHexString(IF text \in {"0x0", "0x00"} THEN 0 ELSE 1)
  IN IF n = "0x0" THEN "0x" ELSE n

AuthList ==
  LET given == SelectSeq(bundle, LAMBDA op : op.auth # NoAuth)
  IN [i \in DOMAIN given |-> given[i].auth]

signEIP7702Transaction(auths) ==
  IF \E k \in DOMAIN auths : ~Parses(auths[k]) THEN Absent
  ELSE [type |-> 4, value |-> Item("0x0"), authorizationList |-> [k \in DOMAIN auths |-> Item(auths[k])]]

(* provider.sendTransaction of ethers 5 parses what it sends.              *)
Sendable(tx) == tx.type \in 0 .. 2

----------------------------------------------------------------------------
(* _attemptBundle.                                                         *)

NewAttempt == [at |-> "selected", beneficiary |-> "none", type |-> 0, error |-> Absent,
               state |-> NoError, report |-> NoError]

(* The configured beneficiary, if there is one and the wallet has enough   *)
(* left to go on.                                                          *)
SelectBeneficiary ==
  /\ attempt.at = "selected"
  /\ \E low \in BOOLEAN :
       attempt' = [attempt EXCEPT !.at = "building",
         !.beneficiary = IF Configured /\ ~low THEN "configured" ELSE "wallet"]
  /\ UNCHANGED <<bundle, chain, selected, cause, refusal, displayed, moves>>

(* The attempt has failed with a message alone.                            *)
FailWith(message) == [attempt EXCEPT !.at = "over", !.report = [error |-> message]]

(* Any request before the transaction is sent.                             *)
RequestFails ==
  /\ attempt.at \in {"selected", "building"}
  /\ attempt' = FailWith("request")
  /\ UNCHANGED <<bundle, chain, selected, cause, refusal, displayed, moves>>

(* With an authorization the transaction is built and signed by hand.      *)
SubmitType4 ==
  /\ attempt.at = "building" /\ AuthList # <<>>
  /\ LET raw == signEIP7702Transaction(AuthList)
     IN attempt' = IF raw # Absent /\ Sendable(raw)
                   THEN [attempt EXCEPT !.at = "waiting", !.type = 4] ELSE FailWith("message")
  /\ UNCHANGED <<bundle, chain, selected, cause, refusal, displayed, moves>>

(* Without one it is handleOps with a gas limit, so that nothing is        *)
(* estimated.                                                              *)
SubmitHandleOps ==
  /\ attempt.at = "building" /\ AuthList = <<>>
  /\ attempt' = [attempt EXCEPT !.at = "waiting", !.type = 2]
  /\ UNCHANGED <<bundle, chain, selected, cause, refusal, displayed, moves>>

CauseNow ==
  IF handleOps(chain) = NoError THEN NoError ELSE [revert |-> handleOps(chain), chain |-> chain]

(* The node refuses it: without data, or, if it executes what it is sent,  *)
(* with the data of the revert, at one depth or another.  The error names  *)
(* the transaction.                                                        *)
Carried(data) ==
  {Object([data |-> Hex(data)]), Object([error |-> Object([data |-> Hex(data)])]),
   Object([error |-> Object([data |-> Object([data |-> Hex(data)])])])}
SubmitRefused ==
  /\ attempt.at = "building" /\ AuthList = <<>>
  /\ cause' = CauseNow
  /\ \E err \in {Absent} \cup (IF CauseNow = NoError THEN {} ELSE Carried(CauseNow.revert)) :
       attempt' = [attempt EXCEPT !.at = "failing", !.error = err]
  /\ UNCHANGED <<bundle, chain, selected, refusal, displayed, moves>>

(* A block executes it, or its revert.                                     *)
Execute ==
  /\ attempt.at = "waiting"
  /\ cause' = CauseNow
  /\ IF CauseNow = NoError
     THEN /\ attempt' = [attempt EXCEPT !.at = "over", !.report = [error |-> "mined"]]
          /\ chain' = [chain EXCEPT
               !.nonce = [s \in OpSenders |-> @[s] + Cardinality({k \in Positions : bundle[k].sender = s})],
               !.last = [s \in OpSenders |->
                 IF \E k \in Positions : bundle[k].sender = s THEN chain.now ELSE @[s]]]
     ELSE /\ attempt' = [attempt EXCEPT !.at = "reverted"]
          /\ UNCHANGED chain
  /\ UNCHANGED <<bundle, selected, refusal, displayed, moves>>

(* Other transactions may follow in the block; then wait() rejects, with   *)
(* transaction and receipt, and without data.                              *)
BlockEnds ==
  /\ attempt.at = "reverted"
  /\ attempt' = [attempt EXCEPT !.at = "failing", !.state = chain]
  /\ UNCHANGED <<bundle, chain, selected, cause, refusal, displayed, moves>>

(* _formatEntryPointError: the data the error brings.                      *)
Reported(data) == [attempt EXCEPT !.at = "over", !.report = formatEntryPointError(data)]
FormatGiven ==
  /\ attempt.at = "failing" /\ ErrorData(attempt.error) # NoError
  /\ attempt' = Reported(ErrorData(attempt.error))
  /\ UNCHANGED <<bundle, chain, selected, cause, refusal, displayed, moves>>

(* _tryRecoverRevertDataViaCall: else the transaction is called again, on  *)
(* the end of its block or the chain of now.  A provider throws the data   *)
(* of a revert, or returns it, and then the bundler does not look at it;   *)
(* a call that succeeds, fails or takes 3 seconds brings none either, or   *)
(* "0x".                                                                   *)
Replayed == handleOps(IF attempt.state = NoError THEN chain ELSE attempt.state)
FormatRecovered ==
  /\ attempt.at = "failing" /\ ErrorData(attempt.error) = NoError
  /\ \/ \E err \in Carried(Replayed) :
          Replayed # NoError /\ attempt' = Reported(ErrorData(err))
     \/ attempt' = FailWith("message")
     \/ attempt' = FailWith("0x")
  /\ UNCHANGED <<bundle, chain, selected, cause, refusal, displayed, moves>>

----------------------------------------------------------------------------
(* An estimate that is refused.                                            *)

(* Variant: the error of the node is not looked into.                      *)
extractRevertDataDirect(err) == FirstHex(<<ValueAt(ValueAt(err, "data"), "data")>>)

extractRevertData(err) ==
  LET given == ValueAt(ValueAt(err, "error"), "data")
      ofRpc == ValueAt(ValueAt(err, "rpc"), "data")
  IN FirstHex(<<ValueAt(err, "data"), given, ValueAt(given, "data"),
                ValueAt(ValueAt(given, "originalError"), "data"), ofRpc, ValueAt(ofRpc, "data")>>)

(* formatBundlerRpcError: the message, or with it the error in the data.   *)
ShownFor(rpc) ==
  LET given == ValueAt(rpc, "data")
      data == extractRevertData(IF given = Absent THEN rpc ELSE given)
  IN IF data = NoError THEN [error |-> "message"] ELSE format4337ErrorData(data)

(* The simulation of an operation alone reverts; the provider's error, of  *)
(* which JSON keeps code and data, is the data of the bundler's.  A node   *)
(* may wrap the data once more.                                            *)
Refusal(given) == Object([data |-> Object([data |-> given])])
Estimate ==
  /\ \E k \in Positions, wrapped \in BOOLEAN :
       LET revert == validatePrepayment(chain, {k}, k)
           alone == [revert EXCEPT !.opIndex = 0]
           given == IF wrapped THEN Object([data |-> Hex(alone)]) ELSE Hex(alone)
       IN /\ revert # NoError /\ refusal' = alone
          /\ displayed' = [text |-> ShownFor(Refusal(given)), wrapped |-> wrapped]
  /\ UNCHANGED <<bundle, chain, attempt, selected, cause, moves>>

----------------------------------------------------------------------------
SubmissionInit ==
  /\ bundle \in Bundles
  /\ chain \in Selections /\ selected = chain
  /\ attempt = NewAttempt /\ cause = NoError
  /\ refusal = NoError /\ displayed = NoError
  /\ moves = 0

SubmissionNext ==
  \/ ChainMoves \/ SelectBeneficiary \/ RequestFails
  \/ SubmitType4 \/ SubmitHandleOps \/ SubmitRefused
  \/ Execute \/ BlockEnds \/ FormatGiven \/ FormatRecovered
  \/ Estimate

SubmissionSpec == SubmissionInit /\ [][SubmissionNext]_submissionVars

----------------------------------------------------------------------------
(* What an error says lasts, if the nonce it is about has been used or the *)
(* deadline is over; a nonce that is too high, and a delay, do not last.   *)
Lasting(c, revert) ==
  \/ revert.reason = "AA25" /\ NonceUsed(c, revert.opIndex + 1)
  \/ revert.reason = "AA32" /\ OutOfTime(c, revert.opIndex + 1)

(* The blame for a failed bundle is fair, although it is found on a later  *)
(* chain than the one it failed on.  An operation whose nonce is blamed    *)
(* cannot be executed in this bundle any more, or was selected too early;  *)
(* one whose time is blamed is past its deadline, or its sender has        *)
(* swapped so late that the policy may have asked it to wait; and none is  *)
(* blamed behind one that has made the bundle revert for good.             *)
BlameIsFair ==
  attempt.report.error \in {"FailedOp", "FailedOpWithRevert"} =>
    LET k == attempt.report.opIndex + 1
    IN /\ k \in Positions
       /\ attempt.report.reason = "AA25" => NonceUsed(chain, k) \/ NonceTooHigh(selected, k)
       /\ attempt.report.reason = "AA32" =>
            \/ OutOfTime(chain, k)
            \/ \E d \in Delays :
                 WithinDelay([selected EXCEPT !.last = chain.last], k, d)
       /\ cause # NoError /\ Lasting(cause.chain, cause.revert) => k <= cause.revert.opIndex + 1

(* The page shows the user the EntryPoint's error and reason, and the      *)
(* name of the paymaster's, as long as the node does not wrap the data     *)
(* once more than anybody looks.                                           *)
RefusalIsExplained ==
  displayed # NoError /\ ~displayed.wrapped => displayed.text = refusal

----------------------------------------------------------------------------
(* A claim of the documentation that the code does not keep (see           *)
(* README.md).                                                             *)

(* README.md:33: "Bundles with EIP-7702 authorizations are submitted as    *)
(* Type 4 transactions."  Unless a request to the node fails.              *)
AuthorizedIsType4 ==
  AuthList # <<>> /\ attempt.at = "over" /\ attempt.report.error # "request" => attempt.type = 4
=============================================================================
