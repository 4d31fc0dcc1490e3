-------------------------- MODULE SwapClientProofs --------------------------
(***************************************************************************)
(* For any bundlers, times and numbers of swaps: what the page reports is  *)
(* true, and the account swaps no more often than it was asked to.         *)
(***************************************************************************)
EXTENDS SwapClient, FiniteSetTheorems, SequenceTheorems, TLAPS

(* The handler of the gasless swap, before and after the signature, and    *)
(* that of the paid one, before and after the transaction.                 *)
Unsigned == pc \in {"requote", "chain", "estimates", "signature"}
Confirming == pc \in {"sleep", "logs"}
Unpaid == pc \in {"payRequote", "wallet"}

(* A handler that runs has disabled the buttons, and its last verdict is   *)
(* gone; the time since which it waits tells the gasless from the paid.    *)
HandlerOK ==
  /\ pc # "none" => ~CanAction
  /\ Unsigned \/ pc = "submit" \/ Confirming => reason = "none"
  /\ pc = "submit" \/ Confirming => Op > 0
  /\ Confirming => local.since > 0
  /\ Unpaid \/ pc = "receipt" => local.since = 0 /\ reason = "none"

(* No bundler has the operation that none has answered for.                *)
OfferedOK == pc = "submit" /\ Op \notin lost => Op \notin accepted

(* A click stands for at most one operation, or one transaction.           *)
CountsOK ==
  /\ Op + (IF Unsigned THEN 1 ELSE 0) <= swaps["gasless"]
  /\ Len(paid) + (IF Unpaid THEN 1 ELSE 0) <= swaps["paid"]
  /\ swaps["gasless"] <= MaxSwaps

IInv ==
  /\ TypeOK
  /\ now > 0 /\ executed \subseteq accepted
  /\ HandlerOK /\ OfferedOK /\ CountsOK
  /\ VerdictIsTrue

(* Two parts of TypeOK.                                                    *)
Locals == [deadline : Nat, nonce : Nat, left : 0 .. Bundlers, since : Nat, resendAt : Nat]
PageTypes ==
  /\ step \in {"idle", "connecting", "quoting", "building", "signing", "submitting",
               "confirming", "success", "failed"}
  /\ showPayGas \in BOOLEAN
  /\ pc \in {"none", "connect", "quote", "requote", "chain", "estimates", "signature", "submit",
             "sleep", "logs", "payRequote", "wallet", "receipt"}
  /\ reason \in {"none", "error", "small", "rejected", "expired", "timeout", "reverted"}
  /\ quote \in Nat
  /\ local \in Locals
  /\ swaps \in [{"gasless", "paid"} -> Nat]
ChainTypes ==
  /\ ops \in Seq([nonce : Nat, deadline : Nat]) /\ Op <= MaxSwaps
  /\ now \in 0 .. MaxNow
  /\ accepted \subseteq 1 .. Op /\ swapped \subseteq executed /\ executed \subseteq 1 .. Op
  /\ nonce \in Nat
  /\ paid \in Seq([deadline : Nat, status : {"pending", "mined", "reverted"}])
  /\ lost \subseteq 1 .. Op

----------------------------------------------------------------------------
USE ClientAssumption

LEMMA TypeParts == TypeOK <=> PageTypes /\ ChainTypes
  BY DEF TypeOK, PageTypes, ChainTypes, Locals

(* A set 1 .. n has n members.                                             *)
LEMMA UpTo == \A n \in Nat : IsFiniteSet(1 .. n) /\ Cardinality(1 .. n) = n
<1> SUFFICES ASSUME NEW n \in Nat PROVE IsFiniteSet(1 .. n) /\ Cardinality(1 .. n) = n
  OBVIOUS
<1>1. 1 \in Int /\ n \in Int
  OBVIOUS
<1>2. IsFiniteSet(1 .. n) /\ Cardinality(1 .. n) = (IF 1 > n THEN 0 ELSE n - 1 + 1)
  BY ONLY <1>1, FS_Interval
<1> QED
  BY <1>2

LEMMA NoLocalType == NoLocal \in Locals
  BY DEF NoLocal, Locals

LEMMA InitOK == Init => IInv
<1> SUFFICES ASSUME Init PROVE IInv
  OBVIOUS
<1> USE DEF Init, Service!Init
<1>1. PageTypes
  BY NoLocalType DEF PageTypes
<1>2. ChainTypes
  <2>1. ops \in Seq([nonce : Nat, deadline : Nat]) /\ Op = 0
    BY EmptySeq DEF Op
  <2>2. paid \in Seq([deadline : Nat, status : {"pending", "mined", "reverted"}])
    BY EmptySeq
  <2> QED
    BY <2>1, <2>2 DEF ChainTypes
<1>3. TypeOK
  BY <1>1, <1>2, TypeParts
<1> QED
  BY <1>3 DEF IInv, NoLocal, HandlerOK, OfferedOK, CountsOK, VerdictIsTrue, Unsigned, Confirming, Unpaid, Op, CanAction

LEMMA QuoteType == ChainTypes => NewQuotes \subseteq Nat
  BY DEF ChainTypes, NewQuotes

LEMMA PageTypesKept == IInv /\ Next => PageTypes'
<1> SUFFICES ASSUME IInv, Next PROVE PageTypes'
  OBVIOUS
<1> USE DEF IInv, PageTypes
<1> PageTypes /\ ChainTypes
  BY TypeParts
<1> USE DEF Await, End, Fail, chainVars, clientVars, Offer, Service!Accept, Service!Execute
<1>1. CASE Connect
  BY <1>1 DEF Connect
<1>2. CASE Connected
  BY <1>2 DEF Connected
<1>3. CASE GetQuote
  BY <1>3 DEF GetQuote
<1>4. CASE Quoted
  BY <1>4, QuoteType DEF Quoted
<1>5. CASE SelectToken
  BY <1>5 DEF SelectToken
<1>6. CASE GaslessSwap
  <2>1. local' \in Locals
    BY <1>6, NoLocalType DEF GaslessSwap, Locals
  <2>2. swaps' \in [{"gasless", "paid"} -> Nat]
    BY <1>6 DEF GaslessSwap
  <2> QED
    BY <1>6, <2>1, <2>2 DEF GaslessSwap
<1>7. CASE Requoted
  <2>1. quote' \in Nat
    BY <1>7, QuoteType DEF Requoted
  <2>2. local' \in Locals
    BY <1>7, <2>1 DEF Requoted, Locals
  <2> QED
    BY <1>7, <2>1, <2>2 DEF Requoted
<1>8. CASE ChainRead
  <2>1. local' \in Locals
    BY <1>8 DEF ChainRead, ChainTypes, Locals
  <2> QED
    BY <1>8, <2>1 DEF ChainRead
<1>9. CASE Estimated
  BY <1>9 DEF Estimated
<1>10. CASE Throws
  BY <1>10 DEF Throws
<1>11. CASE Signed
  <2>1. Bundlers \in 0 .. Bundlers
    OBVIOUS
  <2>2. local' \in Locals
    BY <1>11, <2>1 DEF Signed, Locals
  <2> QED
    BY <1>11, <2>2 DEF Signed
<1>12. CASE Submitted
  <2>1. Bundlers - 1 \in 0 .. Bundlers /\ now \in Nat /\ now + ResendEvery \in Nat
    BY DEF ChainTypes
  <2>2. local' \in Locals
    BY <1>12, <2>1 DEF Submitted, Locals
  <2> QED
    BY <1>12, <2>2 DEF Submitted
<1>13. CASE Refused
  <2>1. local.left - 1 \in 0 .. Bundlers
    BY <1>13 DEF Refused, Locals
  <2>2. local' \in Locals
    BY <1>13, <2>1 DEF Refused, Locals
  <2> QED
    BY <1>13, <2>2 DEF Refused
<1>14. CASE SubmittedInVain
  BY <1>14 DEF SubmittedInVain
<1>15. CASE Expire
  BY <1>15 DEF Expire
<1>16. CASE Resend
  <2>1. local.left - 1 \in 0 .. Bundlers /\ local.resendAt + ResendEvery \in Nat
    BY <1>16 DEF Resend, ResendDue, Locals
  <2>2. local' \in Locals
    BY <1>16, <2>1 DEF Resend, Locals
  <2> QED
    BY <1>16, <2>2 DEF Resend
<1>17. CASE Poll
  BY <1>17 DEF Poll
<1>18. CASE Found
  BY <1>18 DEF Found
<1>19. CASE NotFound
  BY <1>19 DEF NotFound
<1>20. CASE PaidSwap
  <2>1. local' \in Locals
    BY <1>20, NoLocalType DEF PaidSwap, Locals
  <2>2. swaps' \in [{"gasless", "paid"} -> Nat]
    BY <1>20 DEF PaidSwap
  <2> QED
    BY <1>20, <2>1, <2>2 DEF PaidSwap
<1>21. CASE PayRequoted
  <2>1. quote' \in Nat
    BY <1>21, QuoteType DEF PayRequoted
  <2>2. local' \in Locals
    BY <1>21, <2>1 DEF PayRequoted, Locals
  <2> QED
    BY <1>21, <2>1, <2>2 DEF PayRequoted
<1>22. CASE Pay
  BY <1>22 DEF Pay
<1>23. CASE Paid
  BY <1>23 DEF Paid
<1>24. CASE Tick
  BY <1>24 DEF Tick
<1>25. ASSUME NEW o \in OpIds, Execute(o) PROVE PageTypes'
  BY <1>25 DEF Execute, OpIds
<1>26. ASSUME NEW t \in DOMAIN paid, MinePaid(t) PROVE PageTypes'
  BY <1>26 DEF MinePaid
<1> QED
  BY <1>1, <1>2, <1>3, <1>4, <1>5, <1>6, <1>7, <1>8, <1>9, <1>10, <1>11, <1>12, <1>13, <1>14, <1>15, <1>16, <1>17, <1>18, <1>19, <1>20, <1>21, <1>22, <1>23, <1>24, <1>25, <1>26 DEF Next, Click, Handler, Prepare, Submit, Confirm, PayStep, Chain

(* Nothing but the page's own state changes.                               *)
LEMMA ChainRests ==
  ASSUME ChainTypes, UNCHANGED <<ops, now, chainVars, lost>>
  PROVE  ChainTypes'
  BY DEF ChainTypes, chainVars, Op

(* The operation that was signed last is offered.                          *)
LEMMA OfferTypes ==
  ASSUME ChainTypes, Op > 0, Offer(Op), UNCHANGED <<ops, now>>, lost' = lost \/ lost' = lost \cup {Op}
  PROVE  ChainTypes'
<1>1. Op \in 1 .. Op
  BY DEF ChainTypes, Op
<1> QED
  BY <1>1 DEF ChainTypes, Op, Offer, Service!Accept

LEMMA ChainTypesKept == IInv /\ Next => ChainTypes'
<1> SUFFICES ASSUME IInv, Next PROVE ChainTypes'
  OBVIOUS
<1> PageTypes /\ ChainTypes
  BY TypeParts DEF IInv
<1>1. CASE Connect
  BY <1>1, ChainRests DEF Connect
<1>2. CASE Connected
  BY <1>2, ChainRests DEF Connected
<1>3. CASE GetQuote
  BY <1>3, ChainRests DEF GetQuote
<1>4. CASE Quoted
  BY <1>4, ChainRests DEF Quoted
<1>5. CASE SelectToken
  BY <1>5, ChainRests DEF SelectToken
<1>6. CASE GaslessSwap
  BY <1>6, ChainRests DEF GaslessSwap
<1>7. CASE Requoted
  BY <1>7, ChainRests DEF Requoted
<1>8. CASE ChainRead
  BY <1>8, ChainRests DEF ChainRead
<1>9. CASE Estimated
  BY <1>9, ChainRests DEF Estimated
<1>10. CASE Throws
  BY <1>10, ChainRests DEF Throws
<1>11. CASE Expire
  BY <1>11, ChainRests DEF Expire
<1>12. CASE Poll
  BY <1>12, ChainRests DEF Poll
<1>13. CASE Found
  BY <1>13, ChainRests DEF Found
<1>14. CASE NotFound
  BY <1>14, ChainRests DEF NotFound
<1>15. CASE PaidSwap
  BY <1>15, ChainRests DEF PaidSwap
<1>16. CASE PayRequoted
  BY <1>16, ChainRests DEF PayRequoted
<1>17. CASE Paid
  BY <1>17, ChainRests DEF Paid
<1>18. CASE Signed
  <2>1. local.nonce \in Nat /\ local.deadline \in Nat
    BY DEF PageTypes, Locals
  <2>2. Op < MaxSwaps
    BY <1>18 DEF IInv, CountsOK, Unsigned, Signed, ChainTypes, PageTypes, Op
  <2>3. ops' \in Seq([nonce : Nat, deadline : Nat]) /\ Op' = Op + 1
    BY <1>18, <2>1, AppendProperties DEF Signed, ChainTypes, Op
  <2>4. 1 .. Op \subseteq 1 .. Op'
    BY <2>3 DEF ChainTypes, Op
  <2>5. Op \in Nat
    BY LenProperties DEF ChainTypes, Op
  <2>6. UNCHANGED <<now, accepted, executed, swapped, nonce, paid, lost>>
    BY <1>18 DEF Signed, chainVars
  <2>7. Op' <= MaxSwaps /\ accepted' \subseteq 1 .. Op' /\ executed' \subseteq 1 .. Op' /\ lost' \subseteq 1 .. Op'
    BY <2>2, <2>3, <2>4, <2>5, <2>6 DEF ChainTypes
  <2> QED
    BY <2>3, <2>6, <2>7 DEF ChainTypes
<1>19. CASE Submitted
  BY <1>19, OfferTypes DEF Submitted, IInv, HandlerOK
<1>20. CASE Refused
  BY <1>20, OfferTypes, ChainRests DEF Refused, IInv, HandlerOK
<1>21. CASE SubmittedInVain
  BY <1>21, OfferTypes DEF SubmittedInVain, IInv, HandlerOK
<1>22. CASE Resend
  BY <1>22, OfferTypes, ChainRests DEF Resend, IInv, HandlerOK, Confirming
<1>23. CASE Pay
  <2>1. local.deadline \in Nat
    BY DEF PageTypes, Locals
  <2>2. paid' \in Seq([deadline : Nat, status : {"pending", "mined", "reverted"}])
    <3>1. [deadline |-> local.deadline, status |-> "pending"] \in
            [deadline : Nat, status : {"pending", "mined", "reverted"}]
      BY <2>1
    <3>2. CASE UNCHANGED paid
      BY <3>2 DEF ChainTypes
    <3>3. CASE paid' = Append(paid, [deadline |-> local.deadline, status |-> "pending"])
      BY <3>1, <3>3, AppendProperties DEF ChainTypes
    <3> QED
      BY <1>23, <3>2, <3>3 DEF Pay
  <2> QED
    BY <1>23, <2>2 DEF Pay, ChainTypes, Op
<1>24. CASE Tick
  BY <1>24 DEF Tick, ChainTypes, chainVars, Op
<1>25. ASSUME NEW o \in OpIds, Execute(o) PROVE ChainTypes'
  <2>1. executed' = executed \cup {o} /\ swapped' \subseteq swapped \cup {o} /\ accepted' = accepted
    BY <1>25 DEF Execute, Service!Execute
  <2>2. o \in 1 .. Op /\ UNCHANGED <<ops, now, paid, lost>> /\ nonce' = nonce + 1
    BY <1>25 DEF Execute, ChainTypes
  <2>3. swapped' \subseteq executed' /\ executed' \subseteq 1 .. Op
    BY <1>25, <2>1, <2>2 DEF ChainTypes, Execute
  <2> QED
    BY <2>1, <2>2, <2>3 DEF ChainTypes, Op
<1>26. ASSUME NEW t \in DOMAIN paid, MinePaid(t) PROVE ChainTypes'
  <2>1. PICK s \in {"mined", "reverted"} : paid' = [paid EXCEPT ![t].status = s]
    BY <1>26 DEF MinePaid
  <2> DEFINE Payments == [deadline : Nat, status : {"pending", "mined", "reverted"}]
  <2>0. paid \in Seq(Payments)
    BY DEF ChainTypes
  <2> HIDE DEF Payments
  <2>7. t \in 1 .. Len(paid)
    BY <2>0, LenProperties
  <2>8. paid[t] \in Payments
    BY <2>0, <2>7, ElementOfSeq
  <2>2. t \in 1 .. Len(paid) /\ paid[t] \in [deadline : Nat, status : {"pending", "mined", "reverted"}]
    BY <2>7, <2>8 DEF Payments
  <2>3. paid' = [paid EXCEPT ![t] = [paid[t] EXCEPT !.status = s]]
    BY <2>1
  <2>4. [paid[t] EXCEPT !.status = s] \in [deadline : Nat, status : {"pending", "mined", "reverted"}]
    BY <2>2
  <2>5. paid' \in Seq([deadline : Nat, status : {"pending", "mined", "reverted"}])
    BY <2>2, <2>3, <2>4, ExceptSeq DEF ChainTypes
  <2> QED
    BY <1>26, <2>5 DEF MinePaid, ChainTypes, Op
<1> QED
  BY <1>1, <1>2, <1>3, <1>4, <1>5, <1>6, <1>7, <1>8, <1>9, <1>10, <1>11, <1>12, <1>13, <1>14, <1>15, <1>16, <1>17, <1>18, <1>19, <1>20, <1>21, <1>22, <1>23, <1>24, <1>25, <1>26 DEF Next, Click, Handler, Prepare, Submit, Confirm, PayStep, Chain

(* The clock runs on, and only what a bundler has taken is executed.       *)
LEMMA ServiceKept == IInv /\ Next => now' > 0 /\ executed' \subseteq accepted'
<1> SUFFICES ASSUME IInv, Next PROVE now' > 0 /\ executed' \subseteq accepted'
  OBVIOUS
<1> USE DEF IInv, TypeOK, chainVars, clientVars, Offer, Service!Accept, Service!Execute
<1>1. ASSUME NEW o \in OpIds, Execute(o) PROVE now' > 0 /\ executed' \subseteq accepted'
  BY <1>1 DEF Execute
<1>2. ASSUME NEW t \in DOMAIN paid, MinePaid(t) PROVE now' > 0 /\ executed' \subseteq accepted'
  BY <1>2 DEF MinePaid
<1>3. CASE Tick
  BY <1>3 DEF Tick
<1>4. CASE Click
  BY <1>4 DEF Click, Connect, GetQuote, SelectToken, GaslessSwap, PaidSwap
<1>5. CASE Handler
  <2>1. UNCHANGED <<now, executed>> /\ accepted \subseteq accepted'
    BY <1>5 DEF Handler, Connected, Quoted, Prepare, Requoted, ChainRead, Estimated, Throws, Signed,
      Submit, Submitted, Refused, SubmittedInVain, Confirm, Expire, Resend, Poll, Found, NotFound,
      PayStep, PayRequoted, Pay, Paid
  <2> QED
    BY <2>1
<1> QED
  BY <1>1, <1>2, <1>3, <1>4, <1>5 DEF Next, Chain

LEMMA HandlerKept == IInv /\ Next => HandlerOK'
<1> SUFFICES ASSUME IInv, Next PROVE HandlerOK'
  OBVIOUS
<1> USE DEF IInv, TypeOK, NoLocal, HandlerOK, CanAction, Unsigned, Confirming, Unpaid, Op, Await, End, Fail, chainVars, clientVars, Offer, Service!Accept, Service!Execute
<1>1. CASE Connect
  BY <1>1 DEF Connect
<1>2. CASE Connected
  BY <1>2 DEF Connected
<1>3. CASE GetQuote
  BY <1>3 DEF GetQuote
<1>4. CASE Quoted
  BY <1>4 DEF Quoted
<1>5. CASE SelectToken
  BY <1>5 DEF SelectToken
<1>6. CASE GaslessSwap
  BY <1>6 DEF GaslessSwap
<1>7. CASE Requoted
  BY <1>7 DEF Requoted
<1>8. CASE ChainRead
  BY <1>8 DEF ChainRead
<1>9. CASE Estimated
  BY <1>9 DEF Estimated
<1>10. CASE Throws
  BY <1>10 DEF Throws
<1>11. CASE Signed
  BY <1>11 DEF Signed
<1>12. CASE Submitted
  BY <1>12 DEF Submitted
<1>13. CASE Refused
  BY <1>13 DEF Refused
<1>14. CASE SubmittedInVain
  BY <1>14 DEF SubmittedInVain
<1>15. CASE Expire
  BY <1>15 DEF Expire
<1>16. CASE Resend
  BY <1>16 DEF Resend
<1>17. CASE Poll
  BY <1>17 DEF Poll
<1>18. CASE Found
  BY <1>18 DEF Found
<1>19. CASE NotFound
  BY <1>19 DEF NotFound
<1>20. CASE PaidSwap
  <2>1. CASE Expired(quote)
    BY <1>20, <2>1 DEF PaidSwap
  <2>2. CASE ~Expired(quote)
    <3>1. local'.since = 0
      BY <1>20, <2>2 DEF PaidSwap
    <3> QED
      BY <1>20, <2>2, <3>1 DEF PaidSwap
  <2> QED
    BY <2>1, <2>2
<1>21. CASE PayRequoted
  BY <1>21 DEF PayRequoted
<1>22. CASE Pay
  BY <1>22 DEF Pay
<1>23. CASE Paid
  BY <1>23 DEF Paid
<1>24. CASE Tick
  BY <1>24 DEF Tick
<1>25. ASSUME NEW o \in OpIds, Execute(o) PROVE HandlerOK'
  BY <1>25 DEF Execute, OpIds
<1>26. ASSUME NEW t \in DOMAIN paid, MinePaid(t) PROVE HandlerOK'
  BY <1>26 DEF MinePaid
<1> QED
  BY <1>1, <1>2, <1>3, <1>4, <1>5, <1>6, <1>7, <1>8, <1>9, <1>10, <1>11, <1>12, <1>13, <1>14, <1>15, <1>16, <1>17, <1>18, <1>19, <1>20, <1>21, <1>22, <1>23, <1>24, <1>25, <1>26 DEF Next, Click, Handler, Prepare, Submit, Confirm, PayStep, Chain

LEMMA OfferedKept == IInv /\ Next => OfferedOK'
<1> SUFFICES ASSUME IInv, Next PROVE OfferedOK'
  OBVIOUS
<1> USE DEF IInv, TypeOK, NoLocal, OfferedOK, Op, Await, End, Fail, chainVars, clientVars, Offer, Service!Accept, Service!Execute
<1>1. CASE Connect
  BY <1>1 DEF Connect
<1>2. CASE Connected
  BY <1>2 DEF Connected
<1>3. CASE GetQuote
  BY <1>3 DEF GetQuote
<1>4. CASE Quoted
  BY <1>4 DEF Quoted
<1>5. CASE SelectToken
  BY <1>5 DEF SelectToken
<1>6. CASE GaslessSwap
  BY <1>6 DEF GaslessSwap
<1>7. CASE Requoted
  BY <1>7 DEF Requoted
<1>8. CASE ChainRead
  BY <1>8 DEF ChainRead
<1>9. CASE Estimated
  BY <1>9 DEF Estimated
<1>10. CASE Throws
  BY <1>10 DEF Throws
<1>11. CASE Signed
  BY <1>11 DEF Signed
<1>12. CASE Submitted
  BY <1>12 DEF Submitted
<1>13. CASE Refused
  BY <1>13 DEF Refused
<1>14. CASE SubmittedInVain
  BY <1>14 DEF SubmittedInVain
<1>15. CASE Expire
  BY <1>15 DEF Expire
<1>16. CASE Resend
  BY <1>16 DEF Resend
<1>17. CASE Poll
  BY <1>17 DEF Poll
<1>18. CASE Found
  BY <1>18 DEF Found
<1>19. CASE NotFound
  BY <1>19 DEF NotFound
<1>20. CASE PaidSwap
  BY <1>20 DEF PaidSwap
<1>21. CASE PayRequoted
  BY <1>21 DEF PayRequoted
<1>22. CASE Pay
  BY <1>22 DEF Pay
<1>23. CASE Paid
  BY <1>23 DEF Paid
<1>24. CASE Tick
  BY <1>24 DEF Tick
<1>25. ASSUME NEW o \in OpIds, Execute(o) PROVE OfferedOK'
  BY <1>25 DEF Execute, OpIds
<1>26. ASSUME NEW t \in DOMAIN paid, MinePaid(t) PROVE OfferedOK'
  BY <1>26 DEF MinePaid
<1> QED
  BY <1>1, <1>2, <1>3, <1>4, <1>5, <1>6, <1>7, <1>8, <1>9, <1>10, <1>11, <1>12, <1>13, <1>14, <1>15, <1>16, <1>17, <1>18, <1>19, <1>20, <1>21, <1>22, <1>23, <1>24, <1>25, <1>26 DEF Next, Click, Handler, Prepare, Submit, Confirm, PayStep, Chain

LEMMA CountsKept == IInv /\ Next => CountsOK'
<1> SUFFICES ASSUME IInv, Next PROVE CountsOK'
  OBVIOUS
<1>0. Op \in Nat /\ Len(paid) \in Nat /\ swaps["gasless"] \in Nat /\ swaps["paid"] \in Nat
  BY LenProperties DEF IInv, TypeOK, Op
<1> USE DEF IInv, TypeOK, CountsOK, Unsigned, Unpaid, Op, Await, End, Fail, chainVars, clientVars, Offer, Service!Accept, Service!Execute
<1>1. CASE Connect
  BY <1>1 DEF Connect
<1>2. CASE Connected
  BY <1>2 DEF Connected
<1>3. CASE GetQuote
  BY <1>3 DEF GetQuote
<1>4. CASE Quoted
  BY <1>4 DEF Quoted
<1>5. CASE SelectToken
  BY <1>5 DEF SelectToken
<1>6. CASE GaslessSwap
  <2>1. swaps'["gasless"] = swaps["gasless"] + 1 /\ swaps'["paid"] = swaps["paid"] /\ pc = "none"
    BY <1>6 DEF GaslessSwap, HandlerOK, CanAction
  <2>2. pc' \in {"requote", "chain"} /\ UNCHANGED <<ops, paid>> /\ swaps["gasless"] < MaxSwaps
    BY <1>6 DEF GaslessSwap
  <2> QED
    BY <1>0, <2>1, <2>2
<1>7. CASE Requoted
  <2>1. pc' \in {"none", "chain"} /\ UNCHANGED <<ops, paid, swaps>> /\ pc = "requote"
    BY <1>7 DEF Requoted
  <2> QED
    BY <1>0, <2>1
<1>8. CASE ChainRead
  BY <1>8 DEF ChainRead
<1>9. CASE Estimated
  BY <1>9 DEF Estimated
<1>10. CASE Throws
  BY <1>10 DEF Throws
<1>11. CASE Signed
  BY <1>11 DEF Signed
<1>12. CASE Submitted
  BY <1>12 DEF Submitted
<1>13. CASE Refused
  BY <1>13 DEF Refused
<1>14. CASE SubmittedInVain
  BY <1>14 DEF SubmittedInVain
<1>15. CASE Expire
  BY <1>15 DEF Expire
<1>16. CASE Resend
  BY <1>16 DEF Resend
<1>17. CASE Poll
  BY <1>17 DEF Poll
<1>18. CASE Found
  BY <1>18 DEF Found
<1>19. CASE NotFound
  BY <1>19 DEF NotFound
<1>20. CASE PaidSwap
  <2>1. swaps'["paid"] = swaps["paid"] + 1 /\ swaps'["gasless"] = swaps["gasless"] /\ pc = "none"
    BY <1>20 DEF PaidSwap, HandlerOK, CanAction
  <2>2. pc' \in {"payRequote", "wallet"} /\ UNCHANGED <<ops, paid>>
    BY <1>20 DEF PaidSwap
  <2> QED
    BY <1>0, <2>1, <2>2
<1>21. CASE PayRequoted
  <2>1. pc' \in {"none", "wallet"} /\ UNCHANGED <<ops, paid, swaps>> /\ pc = "payRequote"
    BY <1>21 DEF PayRequoted
  <2> QED
    BY <1>0, <2>1
<1>22. CASE Pay
  BY <1>22 DEF Pay
<1>23. CASE Paid
  BY <1>23 DEF Paid
<1>24. CASE Tick
  BY <1>24 DEF Tick
<1>25. ASSUME NEW o \in OpIds, Execute(o) PROVE CountsOK'
  BY <1>25 DEF Execute, OpIds
<1>26. ASSUME NEW t \in DOMAIN paid, MinePaid(t) PROVE CountsOK'
  BY <1>26 DEF MinePaid
<1> QED
  BY <1>1, <1>2, <1>3, <1>4, <1>5, <1>6, <1>7, <1>8, <1>9, <1>10, <1>11, <1>12, <1>13, <1>14, <1>15, <1>16, <1>17, <1>18, <1>19, <1>20, <1>21, <1>22, <1>23, <1>24, <1>25, <1>26 DEF Next, Click, Handler, Prepare, Submit, Confirm, PayStep, Chain

LEMMA VerdictKept == IInv /\ Next => VerdictIsTrue'
<1> SUFFICES ASSUME IInv, Next PROVE VerdictIsTrue'
  OBVIOUS
<1> USE DEF IInv, TypeOK, HandlerOK, VerdictIsTrue, NoLocal, OfferedOK, Unsigned, Confirming, Unpaid, CanAction, Op, Await, End, Fail, chainVars, clientVars, Offer, Service!Accept, Service!Execute
<1>1. CASE Connect
  BY <1>1 DEF Connect
<1>2. CASE Connected
  BY <1>2 DEF Connected
<1>3. CASE GetQuote
  BY <1>3 DEF GetQuote
<1>4. CASE Quoted
  BY <1>4 DEF Quoted
<1>5. CASE SelectToken
  BY <1>5 DEF SelectToken
<1>6. CASE GaslessSwap
  BY <1>6 DEF GaslessSwap
<1>7. CASE Requoted
  BY <1>7 DEF Requoted
<1>8. CASE ChainRead
  BY <1>8 DEF ChainRead
<1>9. CASE Estimated
  BY <1>9 DEF Estimated
<1>10. CASE Throws
  BY <1>10 DEF Throws
<1>11. CASE Signed
  BY <1>11 DEF Signed
<1>12. CASE Submitted
  BY <1>12 DEF Submitted
<1>13. CASE Refused
  BY <1>13 DEF Refused
<1>14. CASE SubmittedInVain
  BY <1>14 DEF SubmittedInVain
<1>15. CASE Expire
  BY <1>15 DEF Expire
<1>16. CASE Resend
  BY <1>16 DEF Resend
<1>17. CASE Poll
  BY <1>17 DEF Poll
<1>18. CASE Found
  BY <1>18 DEF Found
<1>19. CASE NotFound
  BY <1>19 DEF NotFound
<1>20. CASE PaidSwap
  BY <1>20 DEF PaidSwap
<1>21. CASE PayRequoted
  BY <1>21 DEF PayRequoted
<1>22. CASE Pay
  BY <1>22 DEF Pay
<1>23. CASE Paid
  BY <1>23 DEF Paid
<1>24. CASE Tick
  BY <1>24 DEF Tick
<1>25. ASSUME NEW o \in OpIds, Execute(o) PROVE VerdictIsTrue'
  BY <1>25 DEF Execute, OpIds
<1>26. ASSUME NEW t \in DOMAIN paid, MinePaid(t) PROVE VerdictIsTrue'
  <2>1. PICK s \in {"mined", "reverted"} : paid' = [paid EXCEPT ![t].status = s]
    BY <1>26 DEF MinePaid
  <2>2. DOMAIN paid = 1 .. Len(paid) /\ Len(paid) \in Nat
    BY LenProperties
  <2>3. Len(paid') = Len(paid)
    BY <2>1, <2>2
  <2>4. paid[Len(paid)].status = "mined" => paid'[Len(paid')] = paid[Len(paid)]
    <3> SUFFICES ASSUME paid[Len(paid)].status = "mined" PROVE paid'[Len(paid)] = paid[Len(paid)]
      BY <2>3
    <3>1. paid[t].status = "pending"
      BY <1>26 DEF MinePaid
    <3>2. t # Len(paid)
      BY <3>1
    <3>3. Len(paid) \in DOMAIN paid
      BY <2>2
    <3> QED
      BY <2>1, <3>2, <3>3
  <2> QED
    BY <1>26, <2>4 DEF MinePaid
<1> QED
  BY <1>1, <1>2, <1>3, <1>4, <1>5, <1>6, <1>7, <1>8, <1>9, <1>10, <1>11, <1>12, <1>13, <1>14, <1>15, <1>16, <1>17, <1>18, <1>19, <1>20, <1>21, <1>22, <1>23, <1>24, <1>25, <1>26 DEF Next, Click, Handler, Prepare, Submit, Confirm, PayStep, Chain
LEMMA NextOK == IInv /\ [Next]_vars => IInv'
<1>1. IInv /\ Next => IInv'
  <2> SUFFICES ASSUME IInv, Next PROVE IInv'
    OBVIOUS
  <2>1. TypeOK'
    <3>1. PageTypes' /\ ChainTypes'
      BY PageTypesKept, ChainTypesKept
    <3> QED
      BY <3>1 DEF TypeOK, PageTypes, ChainTypes, Locals
  <2>2. now' > 0 /\ executed' \subseteq accepted'
    BY ServiceKept
  <2> QED
    BY <2>1, <2>2, HandlerKept, OfferedKept, CountsKept, VerdictKept DEF IInv
<1>2. IInv /\ UNCHANGED vars => IInv'
  <2> SUFFICES ASSUME IInv, UNCHANGED vars PROVE IInv'
    OBVIOUS
  <2> USE DEF IInv, vars, clientVars, chainVars, Op
  <2>1. TypeOK'
    BY DEF TypeOK
  <2>2. HandlerOK'
    BY DEF HandlerOK, Unsigned, Confirming, Unpaid, CanAction
  <2>3. OfferedOK' /\ CountsOK'
    BY DEF OfferedOK, CountsOK, Unsigned, Unpaid
  <2>4. VerdictIsTrue'
    BY DEF VerdictIsTrue
  <2> QED
    BY <2>1, <2>2, <2>3, <2>4
<1> QED
  BY <1>1, <1>2

(* IInv is inductive.                                                      *)
THEOREM ClientInvariant == Spec => []IInv
  BY InitOK, NextOK, PTL DEF Spec

(* The variables of page and chain have their types.                       *)
THEOREM ClientTypes == Spec => []TypeOK
<1>1. IInv => TypeOK
  BY DEF IInv
<1> QED
  BY <1>1, ClientInvariant, PTL

(* What the page reports of a swap is true and stays true, whatever        *)
(* bundlers do with the operation meanwhile.                               *)
THEOREM VerdictsHold == Spec => []VerdictIsTrue
<1>1. IInv => VerdictIsTrue
  BY DEF IInv
<1> QED
  BY <1>1, ClientInvariant, PTL

(* The account swaps no more often than the user has asked for: every      *)
(* click signs one operation, however many bundlers are offered it.        *)
THEOREM SwapsAreAskedFor == Spec => []OneSwapPerClick
<1>1. IInv => OneSwapPerClick
  <2> SUFFICES ASSUME IInv PROVE OneSwapPerClick
    OBVIOUS
  <2>1. Op \in Nat /\ Len(paid) \in Nat /\ DOMAIN paid = 1 .. Len(paid)
    BY LenProperties DEF IInv, TypeOK, Op
  <2>2. swapped \subseteq 1 .. Op /\ Mined \subseteq 1 .. Len(paid)
    BY <2>1 DEF IInv, TypeOK, Mined
  <2>3. IsFiniteSet(1 .. Op) /\ Cardinality(1 .. Op) = Op
    BY <2>1, UpTo
  <2>4. IsFiniteSet(1 .. Len(paid)) /\ Cardinality(1 .. Len(paid)) = Len(paid)
    BY <2>1, UpTo
  <2>5. Cardinality(swapped) <= Op /\ IsFiniteSet(swapped)
    BY <2>2, <2>3, FS_Subset
  <2>6. Cardinality(Mined) <= Len(paid) /\ IsFiniteSet(Mined)
    BY <2>2, <2>4, FS_Subset
  <2>7. Cardinality(swapped) \in Nat /\ Cardinality(Mined) \in Nat
    BY <2>5, <2>6, FS_CardinalityType
  <2>8. swaps["gasless"] \in Nat /\ swaps["paid"] \in Nat
    BY DEF IInv, TypeOK
  <2>9. Op <= swaps["gasless"] /\ Len(paid) <= swaps["paid"]
    BY <2>1, <2>8 DEF IInv, CountsOK
  <2> QED
    BY <2>1, <2>5, <2>6, <2>7, <2>8, <2>9 DEF OneSwapPerClick
<1> QED
  BY <1>1, ClientInvariant, PTL
=============================================================================
