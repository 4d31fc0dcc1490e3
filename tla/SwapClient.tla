----------------------------- MODULE SwapClient -----------------------------
(***************************************************************************)
(* The web application of one user, with what it talks to: the quote       *)
(* service, the wallet, the bundlers and the chain.  The bundlers, taken   *)
(* together, are a UserOpService, which is what BundlerEngine implements:  *)
(* the client sees whether one of them has taken its operation, and finds  *)
(* on chain whether it was executed.  What a bundler has taken it may      *)
(* execute, or never, also after a restart.                                *)
(*                                                                         *)
(* A handler of a button runs from one await to the next; pc says what it  *)
(* awaits, step what the page shows and which buttons it enables.          *)
(***************************************************************************)
EXTENDS Integers, Sequences, FiniteSets

CONSTANTS
  Bundlers,     \* how many bundlers the monitor lists
  Ttl,          \* validity of a quote (quoteTtlSec)
  Timeout,      \* confirmation is given up after this time (60 s)
  ResendEvery,  \* and the next bundler tried after this one (10 s)
  MaxNow,       \* last reading of the clock (bounds the model)
  MaxSwaps,     \* clicks on "Gasless Swap" or "Retry" (bounds the model)
  MaxPaid,      \* clicks on "Swap paying gas" (bounds the model)
  Patient       \* TRUE to leave out answers that are lost

ASSUME ClientAssumption ==
  /\ Bundlers \in Nat \ {0} /\ Ttl \in Nat /\ Timeout \in Nat /\ ResendEvery \in Nat
  /\ MaxNow \in Nat \ {0} /\ MaxSwaps \in Nat /\ MaxPaid \in Nat
  /\ Patient \in BOOLEAN

OpIds == 1 .. MaxSwaps

VARIABLES
  step,        \* what the page shows
  showPayGas,  \* whether it offers to pay the gas oneself
  pc,          \* what the handler that runs awaits, or "none"
  reason,      \* why the last swap has failed, or "none"
  quote,       \* deadline (and expiresAt) of the quote on the page, or 0
  local,       \* variables of the handler
  swaps,       \* how often a swap was asked for: "gasless" and "paid"
  ops,         \* the operations signed: their nonce and their deadline
  now,         \* the time, of the client and of the blocks
  accepted,    \* operations a bundler has taken
  executed,    \* operations on chain
  swapped,     \* those of them that have succeeded
  nonce,       \* EntryPoint nonce of the account
  paid,        \* the transactions of "Swap paying gas"
  lost         \* history: operations for which an answer of a bundler was lost

clientVars == <<step, showPayGas, pc, reason, quote, local, swaps>>
chainVars == <<accepted, executed, swapped, nonce, paid>>
vars == <<clientVars, ops, now, chainVars, lost>>

Service == INSTANCE UserOpService WITH Hashes <- OpIds, answered <- executed

NoLocal == [deadline |-> 0, nonce |-> 0, left |-> 0, since |-> 0, resendAt |-> 0]
Op == Len(ops)        \* the operation that was signed last

TypeOK ==
  /\ step \in {"idle", "connecting", "quoting", "building", "signing", "submitting",
               "confirming", "success", "failed"}
  /\ showPayGas \in BOOLEAN
  /\ pc \in {"none", "connect", "quote", "requote", "chain", "estimates", "signature", "submit",
             "sleep", "logs", "payRequote", "wallet", "receipt"}
  /\ reason \in {"none", "error", "small", "rejected", "expired", "timeout", "reverted"}
  /\ quote \in Nat
  /\ local \in [deadline : Nat, nonce : Nat, left : 0 .. Bundlers, since : Nat, resendAt : Nat]
  /\ swaps \in [{"gasless", "paid"} -> Nat]
  /\ ops \in Seq([nonce : Nat, deadline : Nat]) /\ Op <= MaxSwaps
  /\ now \in 0 .. MaxNow
  /\ accepted \subseteq 1 .. Op /\ swapped \subseteq executed /\ executed \subseteq 1 .. Op
  /\ nonce \in Nat
  /\ paid \in Seq([deadline : Nat, status : {"pending", "mined", "reverted"}])
  /\ lost \subseteq 1 .. Op

----------------------------------------------------------------------------
(* What a handler does between awaits.                                     *)

Await(p, s) == pc' = p /\ step' = s /\ UNCHANGED <<showPayGas, reason>>
End(s) == pc' = "none" /\ step' = s /\ UNCHANGED <<showPayGas, reason>>
Fail(r) == pc' = "none" /\ step' = "failed" /\ showPayGas' = TRUE /\ reason' = r

(* The buttons are enabled while no handler is at work.                    *)
CanAction == step \in {"idle", "success", "failed"}

Expired(deadline) == deadline <= now

----------------------------------------------------------------------------
(* connect and getQuote.                                                   *)

Connect ==
  /\ CanAction
  /\ Await("connect", "connecting")
  /\ UNCHANGED <<quote, local, swaps, ops, now, chainVars, lost>>

(* Nobody catches the error when the user declines in the wallet: the page *)
(* goes on showing "connecting".                                           *)
Connected ==
  /\ pc = "connect"
  /\ End("idle") \/ End("connecting")
  /\ UNCHANGED <<quote, local, swaps, ops, now, chainVars, lost>>

GetQuote ==
  /\ CanAction
  /\ pc' = "quote" /\ step' = "quoting" /\ showPayGas' = FALSE
  /\ UNCHANGED <<reason, quote, local, swaps, ops, now, chainVars, lost>>

(* A deadline the clock of the model gets past.                            *)
NewQuotes == {d \in {now + Ttl} : d < MaxNow}

(* With the quote and the estimates of the bundlers, or without them.      *)
Quoted ==
  /\ pc = "quote"
  /\ quote' \in {quote} \cup NewQuotes
  /\ End("idle")
  /\ UNCHANGED <<local, swaps, ops, now, chainVars, lost>>

(* The other token is chosen.                                              *)
SelectToken ==
  /\ CanAction
  /\ quote' = 0
  /\ UNCHANGED <<step, showPayGas, pc, reason, local, swaps, ops, now, chainVars, lost>>

----------------------------------------------------------------------------
(* gaslessSwap, up to the signature.                                       *)

GaslessSwap ==
  /\ CanAction /\ quote # 0
  /\ swaps["gasless"] < MaxSwaps
  /\ swaps' = [swaps EXCEPT !["gasless"] = @ + 1]
  /\ showPayGas' = FALSE /\ reason' = "none"
  /\ IF Expired(quote)
     THEN pc' = "requote" /\ step' = "quoting" /\ local' = NoLocal
     ELSE pc' = "chain" /\ step' = "building" /\ local' = [NoLocal EXCEPT !.deadline = quote]
  /\ UNCHANGED <<quote, ops, now, chainVars, lost>>

Requoted ==
  /\ pc = "requote"
  /\ \/ /\ quote' \in NewQuotes
        /\ local' = [local EXCEPT !.deadline = quote']
        /\ Await("chain", "building")
     \/ End("idle") /\ UNCHANGED <<quote, local>>
  /\ UNCHANGED <<swaps, ops, now, chainVars, lost>>

(* The paymaster's policy, the nonce and the fees are read.                *)
ChainRead ==
  /\ pc = "chain"
  /\ local' = [local EXCEPT !.nonce = nonce]
  /\ Await("estimates", "building")
  /\ UNCHANGED <<quote, swaps, ops, now, chainVars, lost>>

(* The first bundler that estimates is taken, and asked again with the fee *)
(* that follows, which it need not answer; then the wallet is asked.       *)
Estimated ==
  /\ pc = "estimates"
  /\ \/ Await("signature", "signing")
     \/ Fail("small")      \* minOut does not cover the fee
  /\ UNCHANGED <<quote, local, swaps, ops, now, chainVars, lost>>

(* Variant: a call that fails is not caught, as in connect.                *)
ThrowsUncaught ==
  /\ pc \in {"chain", "estimates", "signature"}
  /\ End(step)
  /\ UNCHANGED <<quote, local, swaps, ops, now, chainVars, lost>>

(* Any of these calls fails, no bundler estimates, the user declines.      *)
Throws ==
  /\ pc \in {"chain", "estimates", "signature"}
  /\ Fail("error")
  /\ UNCHANGED <<quote, local, swaps, ops, now, chainVars, lost>>

Signed ==
  /\ pc = "signature"
  /\ ops' = Append(ops, [nonce |-> local.nonce, deadline |-> local.deadline])
  /\ local' = [local EXCEPT !.left = Bundlers]
  /\ Await("submit", "submitting")
  /\ UNCHANGED <<quote, swaps, now, chainVars, lost>>

----------------------------------------------------------------------------
(* gaslessSwap: submission to one bundler after the other.                 *)

Offer(o) == Service!Accept(o) /\ UNCHANGED <<swapped, nonce, paid>>

(* A bundler has taken it: from now on the chain is looked at.             *)
Submitted ==
  /\ pc = "submit" /\ local.left > 0
  /\ Offer(Op)
  /\ local' = [local EXCEPT !.left = Bundlers - 1, !.since = now, !.resendAt = now + ResendEvery]
  /\ Await("sleep", "confirming")
  /\ UNCHANGED <<quote, swaps, ops, now, lost>>

(* The next one is tried, also when it is only the answer that is lost.    *)
Refused ==
  /\ pc = "submit" /\ local.left > 0
  /\ \/ UNCHANGED <<chainVars, lost>>
     \/ ~Patient /\ Offer(Op) /\ lost' = lost \cup {Op}
  /\ local' = [local EXCEPT !.left = @ - 1]
  /\ IF local.left = 1 THEN Fail("rejected") ELSE Await("submit", "submitting")
  /\ UNCHANGED <<quote, swaps, ops, now>>

(* A bundler has taken it, but the block number cannot be read.            *)
SubmittedInVain ==
  /\ pc = "submit" /\ local.left > 0 /\ ~Patient
  /\ Offer(Op)
  /\ Fail("error")
  /\ UNCHANGED <<quote, local, swaps, ops, now, lost>>

----------------------------------------------------------------------------
(* gaslessSwap: the loop that waits for the inclusion.                     *)

DeadlinePassed == now > local.deadline

Expire ==
  /\ pc = "sleep"
  /\ DeadlinePassed
  /\ Fail("expired")
  /\ UNCHANGED <<quote, local, swaps, ops, now, chainVars, lost>>

ResendDue == now > local.resendAt /\ local.left > 0

(* Variant: it is built and signed anew for the other bundler.             *)
ResendAnew ==
  /\ pc = "sleep" /\ ~DeadlinePassed
  /\ ResendDue
  /\ local' = [local EXCEPT !.left = @ - 1, !.resendAt = @ + ResendEvery]
  /\ Op < MaxSwaps
  /\ ops' = Append(ops, [nonce |-> nonce, deadline |-> local.deadline])
  /\ Offer(Op + 1)
  /\ Await("logs", "confirming")
  /\ UNCHANGED <<quote, swaps, now, lost>>

(* The same signed operation goes to the next bundler, which takes it or   *)
(* does not; its answer is not looked at.                                  *)
Resend ==
  /\ pc = "sleep" /\ ~DeadlinePassed
  /\ ResendDue
  /\ local' = [local EXCEPT !.left = @ - 1, !.resendAt = @ + ResendEvery]
  /\ Offer(Op) \/ UNCHANGED chainVars
  /\ Await("logs", "confirming")
  /\ UNCHANGED <<quote, swaps, ops, now, lost>>

Poll ==
  /\ pc = "sleep" /\ ~DeadlinePassed
  /\ ~ResendDue
  /\ Await("logs", "confirming")
  /\ UNCHANGED <<quote, local, swaps, ops, now, chainVars, lost>>

(* Variant: an event is a success, whatever it says.                       *)
FoundAnyEvent ==
  /\ pc = "logs"
  /\ Op \in executed
  /\ End("success")
  /\ UNCHANGED <<quote, local, swaps, ops, now, chainVars, lost>>

(* The event of the operation is found, and says how it went.              *)
Found ==
  /\ pc = "logs"
  /\ Op \in executed
  /\ IF Op \in swapped THEN End("success") ELSE Fail("reverted")
  /\ UNCHANGED <<quote, local, swaps, ops, now, chainVars, lost>>

(* It is not there, or the node does not answer.                           *)
NotFound ==
  /\ pc = "logs"
  /\ Patient => Op \notin executed
  /\ IF now - local.since > Timeout THEN Fail("timeout") ELSE Await("sleep", "confirming")
  /\ UNCHANGED <<quote, local, swaps, ops, now, chainVars, lost>>

----------------------------------------------------------------------------
(* paidFallbackSwap.                                                       *)

PaidSwap ==
  /\ step = "failed" /\ showPayGas /\ quote # 0
  /\ swaps["paid"] < MaxPaid
  /\ swaps' = [swaps EXCEPT !["paid"] = @ + 1]
  /\ reason' = "none" /\ UNCHANGED showPayGas
  /\ IF Expired(quote)
     THEN pc' = "payRequote" /\ step' = "quoting" /\ local' = NoLocal
     ELSE pc' = "wallet" /\ step' = "submitting" /\ local' = [NoLocal EXCEPT !.deadline = quote]
  /\ UNCHANGED <<quote, ops, now, chainVars, lost>>

PayRequoted ==
  /\ pc = "payRequote"
  /\ \/ /\ quote' \in NewQuotes
        /\ local' = [local EXCEPT !.deadline = quote']
        /\ Await("wallet", "submitting")
     \/ Fail("error") /\ UNCHANGED <<quote, local>>
  /\ UNCHANGED <<swaps, ops, now, chainVars, lost>>

(* The balance is too low, the user declines, the approval fails; or the   *)
(* transaction is sent.                                                    *)
Pay ==
  /\ pc = "wallet"
  /\ \/ Fail("error") /\ UNCHANGED paid
     \/ /\ paid' = Append(paid, [deadline |-> local.deadline, status |-> "pending"])
        /\ Await("receipt", "confirming")
  /\ UNCHANGED <<quote, local, swaps, ops, now, accepted, executed, swapped, nonce, lost>>

Paid ==
  /\ pc = "receipt"
  /\ \/ /\ paid[Len(paid)].status = "mined"
        /\ pc' = "none" /\ step' = "success" /\ showPayGas' = FALSE /\ UNCHANGED reason
     \/ paid[Len(paid)].status = "reverted" /\ Fail("error")
  /\ UNCHANGED <<quote, local, swaps, ops, now, chainVars, lost>>

----------------------------------------------------------------------------
(* The bundlers, the chain and time.                                       *)

(* An operation any bundler was offered is executed, if it is the next of  *)
(* its account and its deadline has not passed; its swap may still revert. *)
Execute(o) ==
  /\ o \in accepted
  /\ ops[o].nonce = nonce
  /\ now <= ops[o].deadline
  /\ Service!Execute({o})
  /\ swapped' \in {swapped, swapped \cup {o}}
  /\ nonce' = nonce + 1
  /\ UNCHANGED <<clientVars, ops, now, paid, lost>>

(* The router too has a deadline.                                          *)
MinePaid(t) ==
  /\ paid[t].status = "pending"
  /\ \E s \in {"mined", "reverted"} :
       /\ s = "mined" => now <= paid[t].deadline
       /\ paid' = [paid EXCEPT ![t].status = s]
  /\ UNCHANGED <<clientVars, ops, now, accepted, executed, swapped, nonce, lost>>

Tick ==
  /\ now < MaxNow
  /\ now' = now + 1
  /\ UNCHANGED <<clientVars, ops, chainVars, lost>>

----------------------------------------------------------------------------
Init ==
  /\ step = "idle" /\ showPayGas = FALSE /\ pc = "none" /\ reason = "none"
  /\ quote = 0
  /\ local = NoLocal
  /\ swaps = [s \in {"gasless", "paid"} |-> 0]
  /\ ops = <<>>
  /\ now = 1
  /\ Service!Init
  /\ swapped = {} /\ nonce = 0 /\ paid = <<>>
  /\ lost = {}

Click == Connect \/ GetQuote \/ SelectToken \/ GaslessSwap \/ PaidSwap

Prepare == Requoted \/ ChainRead \/ Estimated \/ Throws \/ Signed
Submit == Submitted \/ Refused \/ SubmittedInVain
Confirm == Expire \/ Resend \/ Poll \/ Found \/ NotFound
PayStep == PayRequoted \/ Pay \/ Paid

Handler == Connected \/ Quoted \/ Prepare \/ Submit \/ Confirm \/ PayStep

Chain == (\E o \in OpIds : Execute(o)) \/ (\E t \in DOMAIN paid : MinePaid(t))

Next == Click \/ Handler \/ Chain \/ Tick

Spec == Init /\ [][Next]_vars

(* Requests are answered or fail, the user answers the wallet, the chain   *)
(* includes a transaction the user has paid for, and time goes on.  No     *)
(* bundler need ever execute anything.                                     *)
Fairness ==
  /\ WF_vars(Handler)
  /\ WF_vars(\E t \in DOMAIN paid : MinePaid(t))
  /\ WF_vars(Tick)

FairSpec == Spec /\ Fairness

----------------------------------------------------------------------------
(* Properties.                                                             *)

(* What the page reports of a swap, when it is definite, is true and stays *)
(* true: success is one on chain, of the operation or the transaction the  *)
(* user asked for last; one that reverted has used its nonce up and does   *)
(* not happen later; one that all bundlers refused is with none of them,   *)
(* if no answer was lost on the way.                                       *)
VerdictIsTrue ==
  /\ step = "success" =>
       IF local.since > 0 THEN Op \in swapped ELSE paid[Len(paid)].status = "mined"
  /\ reason = "reverted" => Op \in executed \ swapped
  /\ reason = "rejected" /\ Op \notin lost => Op \notin accepted

(* The account swaps at most as often as the user has asked for it,        *)
(* although several bundlers hold the operation, and earlier ones, given   *)
(* up, may be executed while the user tries again.                         *)
Mined == {t \in DOMAIN paid : paid[t].status = "mined"}
OneSwapPerClick ==
  Cardinality(swapped) + Cardinality(Mined) <= swaps["gasless"] + swaps["paid"]

(* Every swap comes to an end, although no bundler may ever execute it:    *)
(* the page does not hang in a step that enables no button.                *)
Busy == step \notin {"idle", "connecting", "success", "failed"}
SwapEnds == Busy ~> CanAction

----------------------------------------------------------------------------
(* A claim of a comment that the code does not keep (see README.md).       *)

(* web/src/ui/App.tsx:999: "If quote deadline passed, the paymaster        *)
(* validation window is closed and the op cannot be included."  The op may *)
(* have been included since the last look at the chain.                    *)
ExpiredIsNotIncluded == reason = "expired" => Op \notin executed
============================================================================
