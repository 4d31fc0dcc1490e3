------------------------- MODULE MCBundleSubmission -------------------------
(* One operation, or two, the last with the authorization that the page    *)
(* signs.                                                                  *)
EXTENDS BundleSubmission

CONSTANTS s1, s2

Senders == {s1, s2}
Swap(s, auth) == [sender |-> s, nonce |-> 0, deadline |-> 0, auth |-> auth]
PageAuthorizes ==
  {<<Swap(s1, signEIP7702Authorization(0))>>,
   <<Swap(s1, NoAuth), Swap(s2, signEIP7702Authorization(0))>>}

NewAccounts ==
  {[nonce |-> [s \in Senders |-> 0], last |-> [s \in Senders |-> 0], now |-> 1, delay |-> 0,
    paymaster |-> "pays"]}
=============================================================================
