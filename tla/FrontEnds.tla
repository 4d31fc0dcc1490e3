----------------------------- MODULE FrontEnds -----------------------------
(***************************************************************************)
(* The views of the web front ends: what a React effect fetches, again and *)
(* again or when what it depends on has changed, and shows when the answer *)
(* comes, which may be late and out of order.  A behaviour is about one    *)
(* view.  Its data is a version number, counted up at the source; what it  *)
(* depends on (admin token, filter, address, block) is its key.            *)
(***************************************************************************)
EXTENDS Integers, FiniteSets

CONSTANTS
  Keys,
  GoodTokens,   \* the keys that the monitor takes as an admin token
  MaxFlights,   \* fetches that may be under way at a time (bounds the model)
  MaxVersion,   \* last version of the data (bounds the model)
  MaxVisits,    \* openings, and changes of the key (bounds the model)
  MaxErrors     \* requests that fail (bounds the model)

ASSUME FrontEndsAssumption ==
  /\ GoodTokens \subseteq Keys /\ Keys # {} /\ MaxFlights \in Nat \ {0}
  /\ MaxVersion \in Nat /\ MaxVisits \in Nat /\ MaxErrors \in Nat

VARIABLES
  view,     \* the view that the behaviour is about
  version,  \* of its data, at the source
  open,     \* whether its page is shown
  visit,    \* how often it was opened, how often its key was changed
  key,
  flights,  \* its fetches
  shown,    \* what it shows: the version, and the key it was fetched with
  errors

viewVars == <<view, version, open, visit, key, flights, shown, errors>>

(* steps: requests that wait for one another; those of a Promise.all count *)
(* as one.  What the app as a whole keeps outlives a visit.                *)
Fetched(steps, polled, secret) ==
  [steps |-> steps, polled |-> polled, secret |-> secret,
   cancels |-> FALSE, outlives |-> FALSE, clears |-> FALSE]

AdminViews ==
  LET Of(polled, secret) == [Fetched(1, polled, secret) EXCEPT !.outlives = TRUE]
  IN [overview  |-> [Of(TRUE, TRUE) EXCEPT !.outlives = FALSE],
      paymaster |-> [Of(FALSE, TRUE) EXCEPT !.clears = TRUE],
      logs      |-> Of(FALSE, FALSE),
      series    |-> Of(FALSE, TRUE),
      ops       |-> Of(FALSE, TRUE),
      users     |-> [Of(TRUE, TRUE) EXCEPT !.cancels = TRUE]]

FailuresView == [failures |-> Fetched(1, TRUE, TRUE)]

(* The number of the last block, blocks, receipts; an address's balance,   *)
(* count and code.                                                         *)
ExplorerHooks ==
  [latestBlocks |-> Fetched(2, TRUE, FALSE), latestTransactions |-> Fetched(3, TRUE, FALSE),
   block |-> Fetched(1, FALSE, FALSE), transaction |-> Fetched(1, FALSE, FALSE),
   address |-> Fetched(3, FALSE, FALSE)]
AllTransactions == [allTransactions |-> Fetched(3, FALSE, FALSE)]
BlockReceipts == [blockReceipts |-> Fetched(1, FALSE, FALSE)]
WalletsPage == [walletLists |-> Fetched(1, TRUE, FALSE)]

SwapViews ==
  [catalogue |-> Fetched(1, FALSE, FALSE), bundlerAddresses |-> Fetched(1, FALSE, FALSE),
   balances |-> Fetched(2, TRUE, FALSE), tokens |-> Fetched(1, FALSE, FALSE)]
OracleView == [oracle |-> Fetched(1, TRUE, FALSE)]

Tables == {AdminViews, FailuresView, ExplorerHooks, AllTransactions, BlockReceipts, WalletsPage,
           SwapViews, OracleView}
Views == UNION {DOMAIN t : t \in Tables}
The == LET table == CHOOSE t \in Tables : view \in DOMAIN t IN table[view]

Landed == [at |-> 0, key |-> 0, visit |-> <<0, 0>>, version |-> 0]
Nothing == [version |-> 0, key |-> 0]
Slots == 1 .. MaxFlights

Fetch(f, k, v) ==
  /\ flights[f].at = 0
  /\ flights' = [flights EXCEPT ![f] = [at |-> 1, key |-> k, visit |-> v, version |-> 0]]

----------------------------------------------------------------------------
DataChanges ==
  /\ version < MaxVersion /\ version' = version + 1
  /\ UNCHANGED <<view, open, visit, key, flights, shown, errors>>

Visit(f) ==
  /\ ~open /\ open' = TRUE
  /\ visit[1] < MaxVisits /\ visit' = [visit EXCEPT ![1] = @ + 1]
  /\ Fetch(f, key, visit')
  /\ UNCHANGED <<view, version, key, shown, errors>>

(* The effect is cleaned up; what is under way is not called back.         *)
Leave ==
  /\ open /\ open' = FALSE
  /\ shown' = IF The.outlives THEN shown ELSE Nothing
  /\ UNCHANGED <<view, version, visit, key, flights, errors>>

KeyChanges(f) ==
  /\ open /\ visit[2] < MaxVisits
  /\ \E k \in Keys \ {key} : key' = k
  /\ visit' = [visit EXCEPT ![2] = @ + 1]
  /\ Fetch(f, key', visit')
  /\ UNCHANGED <<view, version, open, shown, errors>>

(* Variant: the timer is not set up again when the key has changed.        *)
PollFirstKey(f) ==
  /\ The.polled /\ open /\ visit[2] = 0
  /\ Fetch(f, key, visit)
  /\ UNCHANGED <<view, version, open, visit, key, shown, errors>>

(* The timer, a button, or the end of an action of the admin.              *)
Poll(f) ==
  /\ The.polled /\ open
  /\ Fetch(f, key, visit)
  /\ UNCHANGED <<view, version, open, visit, key, shown, errors>>

(* A token that the monitor does not take is answered by an error.         *)
Refused(f) == The.secret /\ flights[f].key \notin GoodTokens

Dropped(f) ==
  \/ The.cancels /\ (~open \/ flights[f].visit # visit)
  \/ ~The.outlives /\ (~open \/ flights[f].visit[1] # visit[1])

(* A request is served, the first with what counts as the version; the     *)
(* next one goes out.                                                      *)
Proceed(f) ==
  /\ flights[f].at \in 1 .. The.steps
  /\ flights' = [flights EXCEPT ![f].at = @ + 1, ![f].version = IF flights[f].at = 1 THEN version ELSE @]
  /\ UNCHANGED <<view, version, open, visit, key, shown, errors>>

Answer(f) ==
  /\ flights[f].at = The.steps + 1 /\ ~Refused(f)
  /\ flights' = [flights EXCEPT ![f] = Landed]
  /\ shown' = IF Dropped(f) THEN shown ELSE [version |-> flights[f].version, key |-> flights[f].key]
  /\ UNCHANGED <<view, version, open, visit, key, errors>>

Failed(f) ==
  /\ flights' = [flights EXCEPT ![f] = Landed]
  /\ shown' = IF The.clears /\ ~Dropped(f) THEN Nothing ELSE shown
  /\ UNCHANGED <<view, version, open, visit, key>>

Refuse(f) == flights[f].at # 0 /\ Refused(f) /\ Failed(f) /\ UNCHANGED errors

Fail(f) ==
  /\ flights[f].at # 0 /\ errors < MaxErrors /\ errors' = errors + 1
  /\ Failed(f)

ViewInit ==
  /\ view \in Views
  /\ version = 1 /\ open = FALSE /\ visit = <<0, 0>>
  /\ key \in Keys
  /\ flights = [f \in Slots |-> Landed]
  /\ shown = Nothing /\ errors = 0

Settle(f) == Proceed(f) \/ Answer(f) \/ Refuse(f)
ViewNext ==
  \/ DataChanges \/ Leave
  \/ \E f \in Slots : Visit(f) \/ KeyChanges(f) \/ Poll(f) \/ Settle(f) \/ Fail(f)

(* Timers repeat, and every request is answered or fails.                  *)
ViewFairness == \A f \in Slots : WF_viewVars(Poll(f)) /\ WF_viewVars(Settle(f))
ViewSpec == ViewInit /\ [][ViewNext]_viewVars /\ ViewFairness

----------------------------------------------------------------------------
(* A view that is refreshed comes to show what there is, and stays with it *)
(* while its page is open, the data does not change and the token is good: *)
(* late answers, those for another key among them, do not remain.          *)
UpToDate == shown = [version |-> version, key |-> key]
ViewsConverge ==
  (The.polled /\ <>[](open /\ version = MaxVersion /\ (The.secret => key \in GoodTokens)))
    => <>[]UpToDate

=============================================================================
