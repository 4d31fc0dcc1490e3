---------------------------- MODULE MCBundlerRpc ----------------------------
(* Two operations of one sender and one of another, of which the fields    *)
(* that may be left out are given, empty or left out.                      *)
EXTENDS BundlerRpc

MCOps == [h \in {"h1", "h2", "h3"} |->
  [sender |-> IF h = "h3" THEN "s2" ELSE "s1", nonce |-> IF h = "h2" THEN 1 ELSE 0,
   feeOk |-> TRUE]]

MCUserOp == [h \in {"h1", "h2", "h3"} |->
  [sender |-> MCOps[h].sender, nonce |-> MCOps[h].nonce,
   factory |-> IF h = "h2" THEN Undefined ELSE <<1>>,
   factoryData |-> IF h = "h2" THEN Undefined ELSE IF h = "h1" THEN <<<<7>>>> ELSE <<<<>>>>,
   verificationGasLimit |-> 3, callGasLimit |-> IF h = "h1" THEN 0 ELSE 2,
   preVerificationGas |-> IF h = "h1" THEN 0 ELSE 1,
   maxPriorityFeePerGas |-> 1, maxFeePerGas |-> 3,
   paymaster |-> IF h = "h3" THEN <<AddressZero>> ELSE <<2>>,
   paymasterVerificationGasLimit |-> IF h = "h1" THEN <<2>> ELSE Undefined,
   paymasterPostOpGasLimit |-> IF h = "h1" THEN <<3>> ELSE Undefined,
   paymasterData |-> IF h = "h2" THEN Undefined ELSE IF h = "h1" THEN <<<<>>>> ELSE <<<<8>>>>]]

MCEmits == [h \in {"h1", "h2", "h3"} |-> IF h = "h1" THEN 2 ELSE 1]

(* Without an end, with one, with a start: validAfter, validUntil, nobody. *)
MCWord(after, until) == (after * 8 + until) * 2
MCAccountData == [h \in {"h1", "h2", "h3"} |-> IF h = "h3" THEN MCWord(2, 0) ELSE MCWord(0, 0)]
MCPaymasterData == [h \in {"h1", "h2", "h3"} |-> IF h = "h2" THEN MCWord(0, 0) ELSE MCWord(1, 5)]

MCBytes == [h \in {"h1", "h2", "h3"} |-> [zero |-> 300, other |-> 212]]
=============================================================================
