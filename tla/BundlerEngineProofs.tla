------------------------ MODULE BundlerEngineProofs ------------------------
(***************************************************************************)
(* Safety of the bundler for any operations, batch size, number of calls   *)
(* and restarts, that it implements UserOpService, and what its read-only  *)
(* methods answer for operations of any form.                              *)
(***************************************************************************)
EXTENDS BundlerRpc, Induction

(* Setting the status of some entries keeps the calls and all the rest.    *)
LEMMA StatusSet ==
  ASSUME call \in Seq(Call), NEW S, NEW st \in Status
  PROVE  /\ WithStatus(S, st) \in Seq(Call)
         /\ Len(WithStatus(S, st)) = Len(call)
         /\ DOMAIN WithStatus(S, st) = Calls
         /\ \A i \in Calls :
              /\ WithStatus(S, st)[i].hash = call[i].hash
              /\ WithStatus(S, st)[i].stage = call[i].stage
              /\ WithStatus(S, st)[i].receivedAtMs = call[i].receivedAtMs
              /\ WithStatus(S, st)[i].slot = call[i].slot
              /\ WithStatus(S, st)[i].status = IF i \in S THEN st ELSE call[i].status
<1> DEFINE w == WithStatus(S, st)
<1>1. Calls = 1 .. Len(call) /\ Len(call) \in Nat
  BY DEF Calls
<1>2. w = [i \in 1 .. Len(call) |-> IF i \in S THEN [call[i] EXCEPT !.status = st] ELSE call[i]]
  BY <1>1 DEF WithStatus
<1>3. \A i \in 1 .. Len(call) : call[i] \in Call
  OBVIOUS
<1>4. \A i \in 1 .. Len(call) : w[i] \in Call
  BY <1>2, <1>3 DEF Call
<1>5. w \in [1 .. Len(call) -> Call]
  BY <1>2, <1>4
<1>6. w \in Seq(Call) /\ Len(w) = Len(call)
  BY <1>1, <1>5
<1> QED
  BY <1>1, <1>2, <1>3, <1>6 DEF Call

(* The bundle that is begun has entries that wait for one.                 *)
LEMMA AttemptSelects ==
  ASSUME TypeOK, NEW force \in BOOLEAN, MayAttempt(force), BeginAttempt
  PROVE  /\ flight' \subseteq PendingIds /\ flight' # {}
         /\ step = "idle" /\ step' = "preparing" /\ tx' = 0
<1>1. IsFiniteSet(PendingIds) /\ PendingIds # {}
  <2>1. IsFiniteSet(1 .. Len(call))
    BY FS_Interval DEF TypeOK
  <2> QED
    BY <2>1, FS_Subset DEF PendingIds, Calls, TypeOK, MayAttempt
<1>2. Cardinality(PendingIds) \in Nat \ {0}
  BY <1>1, FS_EmptySet, FS_CardinalityType
<1>3. SelectionSize >= 1
  BY <1>2, BundlerAssumption DEF SelectionSize, Lesser
<1>4. flight' \subseteq PendingIds /\ Cardinality(flight') >= 1
  BY <1>3 DEF BeginAttempt, Selected
<1>5. flight' # {}
  BY <1>4, FS_EmptySet
<1> QED
  BY <1>4, <1>5 DEF BeginAttempt, MayAttempt

----------------------------------------------------------------------------
(* The inductive invariant, action by action.                              *)

LEMMA InitOK == Init => IInv
<1> SUFFICES ASSUME Init PROVE IInv
  OBVIOUS
<1>1. call \in Seq(Call) /\ Len(call) = 0 /\ Calls = {} /\ txs \in Seq(Tx) /\ DOMAIN txs = {} /\ Len(txs) = 0
  BY DEF Init, Calls
<1>2. TypeOK
  BY <1>1, BundlerAssumption DEF Init, TypeOK, Step
<1> QED
  BY <1>1, <1>2 DEF Init, IInv, FlightOK, SentIsInFlight, MinedIsExecuted, OneTxPerEntry,
     WaitingIsFresh, MinedFlightExecuted, ChainOK, MapOK, Known

LEMMA SimulationStep ==
  ASSUME IInv, NEW h \in Hashes, SimulationPasses(h)
  PROVE  IInv'
<1>1. admitted' \in [Hashes -> Nat]
  BY DEF IInv, TypeOK, SimulationPasses
<1> QED
  BY <1>1 DEF IInv, TypeOK, SimulationPasses, chainVars, FlightOK, SentIsInFlight, MinedIsExecuted,
     OneTxPerEntry, WaitingIsFresh, MinedFlightExecuted, ChainOK, MapOK, Known, Calls, ExecutedSinceStart

LEMMA StopStep ==
  ASSUME IInv, Stop
  PROVE  IInv'
BY DEF IInv, TypeOK, Stop, chainVars, FlightOK, SentIsInFlight, MinedIsExecuted,
   OneTxPerEntry, WaitingIsFresh, MinedFlightExecuted, ChainOK, MapOK, Known, Calls, ExecutedSinceStart

LEMMA AcceptStep ==
  ASSUME IInv, NEW h \in Hashes, Accept(h)
  PROVE  IInv'
<1> USE DEF IInv
<1> DEFINE n == Len(call) + 1
<1>0. call \in Seq(Call) /\ Calls = 1 .. Len(call) /\ Len(call) \in Nat
  BY DEF TypeOK, Calls
<1>1. PICK e \in [hash : {h}, stage : {"logging"}, status : {"pending"}, receivedAtMs : {now'}, slot : {Slot(h)}] :
        call' = Append(call, e)
  BY DEF Accept
<1>2. Slot(h) \in Nat
  <2>1. CASE current[h] # 0
    <3>1. current[h] \in 1 .. Len(call)
      BY <2>1, <1>0 DEF TypeOK
    <3>2. call[current[h]] \in Call
      BY <3>1, <1>0
    <3> QED
      BY <2>1, <3>2 DEF Slot, Call
  <2>2. CASE current[h] = 0
    <3>1. IsFiniteSet(Known)
      BY BundlerAssumption, FS_Subset DEF Known
    <3> QED
      BY <2>2, <3>1, FS_CardinalityType DEF Slot
  <2> QED
    BY <2>1, <2>2
<1>3. now' \in 0 .. MaxNow /\ now' \in Nat
  BY DEF Accept
<1>4. e \in Call
  BY <1>1, <1>2, <1>3 DEF Call, Stage, Status
<1>5. /\ call' \in Seq(Call) /\ Len(call') = n /\ Calls' = 1 .. n /\ call'[n] = e
      /\ \A i \in Calls : call'[i] = call[i]
  BY <1>0, <1>1, <1>4 DEF Calls
<1>6. /\ current' = [current EXCEPT ![h] = n]
      /\ Len(call) < MaxCalls
      /\ UNCHANGED <<up, step, flight, tx, startedFrom, restarts, txs, nonce, executedAt, block>>
  BY DEF Accept, chainVars
<1>7. admitted' \in [Hashes -> Nat]
  <2>1. admitted \in [Hashes -> Nat] /\ admitted[h] \in Nat
    BY DEF TypeOK
  <2>2. admitted' = admitted
        \/ (admitted[h] > 0 /\ admitted' = [admitted EXCEPT ![h] = admitted[h] - 1])
    BY DEF Accept
  <2> QED
    BY <2>1, <2>2
<1>8. Calls \subseteq Calls' /\ n \notin Calls /\ Calls' = Calls \cup {n} /\ flight \subseteq Calls
  BY <1>0, <1>5 DEF TypeOK
<1>9. TypeOK'
  <2>1. current' \in [Hashes -> 0 .. Len(call')]
    BY <1>0, <1>5, <1>6 DEF TypeOK
  <2>2. flight' \in SUBSET Calls'
    BY <1>6, <1>8
  <2>3. Len(call') <= MaxCalls
    BY <1>0, <1>5, <1>6, BundlerAssumption
  <2> QED
    BY <1>3, <1>5, <1>6, <1>7, <2>1, <2>2, <2>3 DEF TypeOK
<1>10. FlightOK'
  BY <1>5, <1>6, <1>8 DEF FlightOK
<1>11. SentIsInFlight' /\ MinedIsExecuted'
  BY <1>1, <1>5, <1>6, <1>8 DEF SentIsInFlight, MinedIsExecuted, ExecutedSinceStart
<1>12. OneTxPerEntry' /\ ChainOK'
  BY <1>6, <1>8 DEF OneTxPerEntry, ChainOK
<1>13. WaitingIsFresh'
  BY <1>5, <1>6, <1>8 DEF WaitingIsFresh, ChainOK
<1>14. MinedFlightExecuted'
  BY <1>5, <1>6, <1>8 DEF MinedFlightExecuted, ExecutedSinceStart
<1>15. MapOK'
  <2> SUFFICES ASSUME NEW g \in Known' PROVE call'[current'[g]].hash = g
    BY DEF MapOK
  <2>1. CASE g = h
    BY <2>1, <1>1, <1>5, <1>6 DEF TypeOK
  <2>2. CASE g # h
    <3>1. current'[g] = current[g] /\ g \in Known /\ current[g] \in Calls
      BY <2>2, <1>0, <1>6 DEF Known, TypeOK
    <3> QED
      BY <3>1, <1>5 DEF MapOK
  <2> QED
    BY <2>1, <2>2
<1> QED
  BY <1>9, <1>10, <1>11, <1>12, <1>13, <1>14, <1>15

(* A step that changes no status, and begins a bundle or leaves the flight *)
(* alone.                                                                  *)
LEMMA AttemptStep ==
  ASSUME IInv,
         call' \in Seq(Call), Len(call') = Len(call),
         \A i \in Calls : call'[i].hash = call[i].hash /\ call'[i].status = call[i].status,
         UNCHANGED <<admitted, current, now, up, startedFrom, restarts, chainVars>>,
         \/ UNCHANGED <<flight, step, tx>>
         \/ flight' \subseteq PendingIds /\ flight' # {} /\ step = "idle" /\ step' = "preparing" /\ tx' = 0
  PROVE  IInv'
<1> USE DEF IInv
<1>1. Calls = 1 .. Len(call) /\ Calls' = Calls /\ PendingIds \subseteq Calls /\ Len(txs) \in Nat
  BY DEF TypeOK, Calls, PendingIds
<1>2. UNCHANGED <<admitted, current, now, up, startedFrom, restarts, txs, nonce, executedAt, block>>
  BY DEF chainVars
<1>3. TypeOK'
  <2>1. flight' \in SUBSET Calls' /\ step' \in Step
    BY <1>1, <1>2 DEF TypeOK, Step
  <2>2. tx' \in 0 .. Len(txs')
    <3>1. tx' = tx \/ tx' = 0
      OBVIOUS
    <3>2. txs' = txs /\ tx \in 0 .. Len(txs) /\ 0 \in 0 .. Len(txs)
      BY <1>1, <1>2 DEF TypeOK
    <3> QED
      BY <3>1, <3>2
  <2> QED
    BY <1>2, <2>1, <2>2 DEF TypeOK
<1>4. \A i \in PendingIds : call'[i].status = "pending"
  BY <1>1 DEF PendingIds
<1>5. FlightOK' /\ SentIsInFlight'
  <2>1. CASE UNCHANGED <<flight, step, tx>>
    BY <1>1, <1>2, <2>1 DEF FlightOK, SentIsInFlight, TypeOK
  <2>2. CASE flight' \subseteq PendingIds /\ flight' # {} /\ step = "idle" /\ step' = "preparing" /\ tx' = 0
    BY <1>1, <1>2, <1>4, <2>2 DEF FlightOK, SentIsInFlight, TypeOK
  <2> QED
    BY <2>1, <2>2
<1>6. MinedIsExecuted' /\ MapOK' /\ OneTxPerEntry' /\ ChainOK'
  <2>1. \A h \in Known : current[h] \in Calls
    BY <1>1 DEF Known, TypeOK
  <2> QED
    BY <1>1, <1>2, <2>1 DEF MinedIsExecuted, MapOK, OneTxPerEntry, ChainOK, ExecutedSinceStart, Known
<1>7. WaitingIsFresh'
  BY <1>1, <1>2 DEF WaitingIsFresh, FlightOK
<1>8. MinedFlightExecuted'
  BY <1>1, <1>2 DEF MinedFlightExecuted, ExecutedSinceStart, TypeOK
<1> QED
  BY <1>3, <1>5, <1>6, <1>7, <1>8

LEMMA ReturnStep ==
  ASSUME IInv, NEW i \in Calls, Return(i)
  PROVE  IInv'
<1>1. call \in Seq(Call) /\ Calls = 1 .. Len(call) /\ call[i] \in Call
  BY DEF IInv, TypeOK, Calls
<1>2. call' = [call EXCEPT ![i] = [call[i] EXCEPT !.stage = "done"]]
  BY DEF Return
<1>3. [call[i] EXCEPT !.stage = "done"] \in Call
  BY <1>1 DEF Call, Stage
<1>4. call' \in Seq(Call) /\ Len(call') = Len(call)
  BY <1>1, <1>2, <1>3
<1>5. \A j \in Calls : call'[j].hash = call[j].hash /\ call'[j].status = call[j].status
  BY <1>1, <1>2 DEF Call
<1>6. UNCHANGED <<admitted, current, now, up, startedFrom, restarts, chainVars>>
  BY DEF Return
<1>7. CASE Trigger /\ MayAttempt(TRUE)
  <2>1. BeginAttempt
    BY <1>7 DEF Return
  <2>2. flight' \subseteq PendingIds /\ flight' # {} /\ step = "idle" /\ step' = "preparing" /\ tx' = 0
    BY <1>7, <2>1, AttemptSelects DEF IInv
  <2> QED
    BY <1>4, <1>5, <1>6, <2>2, AttemptStep
<1>8. CASE ~(Trigger /\ MayAttempt(TRUE))
  <2>1. UNCHANGED <<flight, step, tx>>
    BY <1>8 DEF Return
  <2> QED
    BY <1>4, <1>5, <1>6, <2>1, AttemptStep
<1> QED
  BY <1>7, <1>8

LEMMA TimerStep ==
  ASSUME IInv, TimerFires
  PROVE  IInv'
<1>1. call' = call /\ call \in Seq(Call) /\ MayAttempt(FALSE) /\ BeginAttempt
  BY DEF TimerFires, IInv, TypeOK
<1>2. flight' \subseteq PendingIds /\ flight' # {} /\ step = "idle" /\ step' = "preparing" /\ tx' = 0
  BY <1>1, AttemptSelects DEF IInv
<1>3. UNCHANGED <<admitted, current, now, up, startedFrom, restarts, chainVars>>
  BY DEF TimerFires
<1> QED
  BY <1>1, <1>2, <1>3, AttemptStep

(* The transaction holds exactly the entries in flight, which were in none *)
(* before.                                                                 *)
LEMMA BroadcastStep ==
  ASSUME IInv, Broadcast
  PROVE  IInv'
<1> USE DEF IInv
<1> DEFINE n == Len(txs) + 1
<1>0. txs \in Seq(Tx) /\ Len(txs) \in Nat /\ DOMAIN txs = 1 .. Len(txs)
  BY DEF TypeOK
<1>1. PICK x \in [ops : {flight}, status : {"pending"}] : txs' = Append(txs, x)
  BY DEF Broadcast
<1>2. step = "preparing" /\ step' = "sending" /\ tx' = n
      /\ UNCHANGED <<admitted, call, current, now, up, flight, startedFrom, restarts, nonce, executedAt, block>>
  BY DEF Broadcast
<1>3. x \in Tx
  <2>1. Len(call) \in Nat /\ Len(call) <= MaxCalls /\ MaxCalls \in Nat /\ Calls = 1 .. Len(call)
    BY BundlerAssumption DEF TypeOK, Calls
  <2>2. flight \in SUBSET (1 .. MaxCalls)
    BY <2>1 DEF TypeOK
  <2> QED
    BY <1>1, <2>2 DEF Tx
<1>4. /\ txs' \in Seq(Tx) /\ Len(txs') = n /\ DOMAIN txs' = 1 .. n /\ txs'[n] = x
      /\ \A t \in DOMAIN txs : txs'[t] = txs[t]
  BY <1>0, <1>1, <1>3
<1>5. DOMAIN txs' = DOMAIN txs \cup {n} /\ n \notin DOMAIN txs /\ n # 0
  BY <1>0, <1>4
<1>6. TypeOK'
  BY <1>0, <1>2, <1>4 DEF TypeOK, Step, Calls
<1>7. Calls' = Calls /\ flight # {} /\ flight \subseteq Calls
      /\ \A i \in flight : call[i].status = "pending"
      /\ x.ops = flight /\ x.status = "pending"
  BY <1>1, <1>2 DEF Calls, FlightOK, TypeOK
<1>8. \A i \in flight : \A t \in DOMAIN txs : i \notin txs[t].ops
  BY <1>2, <1>7 DEF WaitingIsFresh
<1>9. FlightOK'
  BY <1>2, <1>4, <1>5, <1>7 DEF FlightOK
<1>10. SentIsInFlight' /\ MinedIsExecuted' /\ MapOK'
  BY <1>2, <1>7 DEF SentIsInFlight, MinedIsExecuted, MapOK, ExecutedSinceStart, Known
<1>11. OneTxPerEntry'
  BY <1>4, <1>5, <1>7, <1>8 DEF OneTxPerEntry
<1>12. WaitingIsFresh'
  BY <1>2, <1>4, <1>5, <1>7 DEF WaitingIsFresh
<1>13. MinedFlightExecuted'
  BY <1>2, <1>4, <1>7 DEF MinedFlightExecuted
<1>14. ChainOK'
  BY <1>2, <1>4, <1>5, <1>7 DEF ChainOK
<1> QED
  BY <1>6, <1>9, <1>10, <1>11, <1>12, <1>13, <1>14

(* What any step keeps that only moves the flight on and sets the status   *)
(* of some of its entries.                                                 *)
LEMMA StatusStep ==
  ASSUME IInv, NEW S \in SUBSET flight, NEW st \in Status \ {"pending"}, call' = WithStatus(S, st),
         step' \in Step,
         UNCHANGED <<admitted, current, now, up, flight, tx, startedFrom, restarts, chainVars>>
  PROVE  /\ TypeOK' /\ MapOK' /\ OneTxPerEntry' /\ ChainOK'
         /\ Calls' = Calls /\ flight \subseteq Calls
         /\ \A i \in Calls : call'[i].hash = call[i].hash
         /\ \A i \in Calls : call'[i].status = IF i \in S THEN st ELSE call[i].status
         /\ \A h \in Hashes : ExecutedSinceStart(h)' <=> ExecutedSinceStart(h)
         /\ \A i \in Calls : call[i].hash \in Hashes
<1>1. call \in Seq(Call) /\ Calls = 1 .. Len(call)
  BY DEF IInv, TypeOK, Calls
<1>2. /\ call' \in Seq(Call) /\ Len(call') = Len(call) /\ Calls' = Calls
      /\ \A i \in Calls : call'[i].hash = call[i].hash
      /\ \A i \in Calls : call'[i].status = IF i \in S THEN st ELSE call[i].status
  <2>1. st \in Status
    OBVIOUS
  <2> QED
    BY <1>1, <2>1, StatusSet DEF Calls
<1>3. UNCHANGED <<admitted, current, now, up, flight, tx, startedFrom, restarts, txs, nonce, executedAt, block>>
  BY DEF chainVars
<1>4. TypeOK' /\ flight \subseteq Calls
  BY <1>1, <1>2, <1>3 DEF IInv, TypeOK
<1>5. \A h \in Known : current[h] \in Calls
  BY <1>1 DEF Known, IInv, TypeOK
<1>6. MapOK'
  BY <1>2, <1>3, <1>5 DEF IInv, MapOK, Known
<1>7. OneTxPerEntry' /\ ChainOK'
  BY <1>2, <1>3 DEF IInv, OneTxPerEntry, ChainOK
<1>8. \A i \in Calls : call[i].hash \in Hashes
  <2>1. \A i \in Calls : call[i] \in Call
    BY <1>1
  <2> QED
    BY <2>1 DEF Call
<1> QED
  BY <1>2, <1>3, <1>4, <1>6, <1>7, <1>8 DEF ExecutedSinceStart

LEMMA SendStep ==
  ASSUME IInv, SendReturns
  PROVE  IInv'
<1>1. step = "sending" /\ step' = "submitted" /\ call' = WithStatus(flight, "sent")
      /\ UNCHANGED <<admitted, current, now, up, flight, tx, startedFrom, restarts, chainVars>>
  BY DEF SendReturns
<1>2. "sent" \in Status \ {"pending"} /\ step' \in Step /\ flight \in SUBSET flight
  BY <1>1 DEF Status, Step
<1>3. /\ TypeOK' /\ MapOK' /\ OneTxPerEntry' /\ ChainOK'
      /\ Calls' = Calls /\ flight \subseteq Calls
      /\ \A i \in Calls : call'[i].hash = call[i].hash
      /\ \A i \in Calls : call'[i].status = IF i \in flight THEN "sent" ELSE call[i].status
      /\ \A h \in Hashes : ExecutedSinceStart(h)' <=> ExecutedSinceStart(h)
      /\ \A i \in Calls : call[i].hash \in Hashes
  BY <1>1, <1>2, StatusStep
<1>4. txs' = txs
  BY <1>1 DEF chainVars
<1>5. FlightOK'
  BY <1>1, <1>3, <1>4 DEF IInv, FlightOK
<1>6. SentIsInFlight' /\ MinedIsExecuted'
  BY <1>1, <1>3 DEF IInv, SentIsInFlight, MinedIsExecuted
<1>7. WaitingIsFresh'
  BY <1>1, <1>3, <1>4 DEF IInv, WaitingIsFresh
<1>8. MinedFlightExecuted'
  BY <1>1, <1>3, <1>4 DEF IInv, MinedFlightExecuted
<1> QED
  BY <1>3, <1>5, <1>6, <1>7, <1>8 DEF IInv

LEMMA RecordStep ==
  ASSUME IInv, WaitReturns \/ RecordNext
  PROVE  IInv'
<1>1. PICK i \in Unrecorded : call' = WithStatus({i}, "mined")
  BY DEF WaitReturns, RecordNext, Record
<1>2. /\ step \in {"submitted", "recording"} /\ step' = "recording" /\ txs[tx].status = "mined"
      /\ UNCHANGED <<admitted, current, now, up, flight, tx, startedFrom, restarts, chainVars>>
  BY DEF WaitReturns, RecordNext, WaitOver, IInv, FlightOK
<1>3. "mined" \in Status \ {"pending"} /\ step' \in Step /\ {i} \in SUBSET flight /\ i \in flight
  BY <1>1, <1>2 DEF Status, Step, Unrecorded
<1>4. /\ TypeOK' /\ MapOK' /\ OneTxPerEntry' /\ ChainOK'
      /\ Calls' = Calls /\ flight \subseteq Calls
      /\ \A j \in Calls : call'[j].hash = call[j].hash
      /\ \A j \in Calls : call'[j].status = IF j \in {i} THEN "mined" ELSE call[j].status
      /\ \A h \in Hashes : ExecutedSinceStart(h)' <=> ExecutedSinceStart(h)
      /\ \A j \in Calls : call[j].hash \in Hashes
  BY <1>1, <1>2, <1>3, StatusStep
<1>5. txs' = txs
  BY <1>2 DEF chainVars
<1>6. FlightOK'
  BY <1>2, <1>4, <1>5 DEF IInv, FlightOK
<1>7. \A j \in flight : ExecutedSinceStart(call[j].hash)
  BY <1>2 DEF IInv, MinedFlightExecuted
<1>8. SentIsInFlight' /\ MinedIsExecuted'
  BY <1>2, <1>3, <1>4, <1>7 DEF IInv, SentIsInFlight, MinedIsExecuted
<1>9. WaitingIsFresh'
  BY <1>2, <1>4, <1>5 DEF IInv, WaitingIsFresh
<1>10. MinedFlightExecuted'
  BY <1>2, <1>4, <1>7 DEF MinedFlightExecuted
<1> QED
  BY <1>4, <1>6, <1>8, <1>9, <1>10 DEF IInv

LEMMA FailStep ==
  ASSUME IInv, FlightFails
  PROVE  IInv'
<1>1. step \in {"preparing", "sending", "submitted"} /\ step' = "failing"
      /\ call' = WithStatus(flight, "failed")
      /\ UNCHANGED <<admitted, current, now, up, flight, tx, startedFrom, restarts, chainVars>>
  BY DEF FlightFails
<1>2. "failed" \in Status \ {"pending"} /\ step' \in Step /\ flight \in SUBSET flight
  BY <1>1 DEF Status, Step
<1>3. /\ TypeOK' /\ MapOK' /\ OneTxPerEntry' /\ ChainOK'
      /\ Calls' = Calls /\ flight \subseteq Calls
      /\ \A i \in Calls : call'[i].hash = call[i].hash
      /\ \A i \in Calls : call'[i].status = IF i \in flight THEN "failed" ELSE call[i].status
      /\ \A h \in Hashes : ExecutedSinceStart(h)' <=> ExecutedSinceStart(h)
      /\ \A i \in Calls : call[i].hash \in Hashes
  BY <1>1, <1>2, StatusStep
<1>4. txs' = txs
  BY <1>1 DEF chainVars
<1>5. FlightOK'
  BY <1>1, <1>3 DEF IInv, FlightOK
<1>6. SentIsInFlight' /\ MinedIsExecuted'
  BY <1>1, <1>3 DEF IInv, SentIsInFlight, MinedIsExecuted
<1>7. WaitingIsFresh'
  BY <1>1, <1>3, <1>4 DEF IInv, WaitingIsFresh
<1>8. MinedFlightExecuted'
  BY <1>1 DEF MinedFlightExecuted
<1> QED
  BY <1>3, <1>5, <1>6, <1>7, <1>8 DEF IInv

LEMMA ReleaseStep ==
  ASSUME IInv, Release
  PROVE  IInv'
<1> USE DEF IInv
<1>1. /\ step = "failing" \/ (step = "recording" /\ Unrecorded = {})
      /\ step' = "idle" /\ flight' = {} /\ tx' = 0
      /\ UNCHANGED <<admitted, call, current, now, up, startedFrom, restarts, txs, nonce, executedAt, block>>
  BY DEF Release, chainVars
<1>2. \A i \in flight : call[i].status \in {"failed", "mined"}
  BY <1>1 DEF FlightOK, Unrecorded
<1>3. TypeOK'
  BY <1>1 DEF TypeOK, Step, Calls
<1>4. FlightOK'
  BY <1>1 DEF FlightOK
<1>5. SentIsInFlight' /\ MinedIsExecuted' /\ MapOK' /\ OneTxPerEntry' /\ ChainOK'
  BY <1>1, <1>2 DEF SentIsInFlight, MinedIsExecuted, MapOK, OneTxPerEntry, ChainOK, Calls, Known,
     ExecutedSinceStart
<1>6. WaitingIsFresh'
  BY <1>1, <1>2 DEF WaitingIsFresh, Calls
<1>7. MinedFlightExecuted'
  BY <1>1 DEF MinedFlightExecuted
<1> QED
  BY <1>3, <1>4, <1>5, <1>6, <1>7

LEMMA RestartStep ==
  ASSUME IInv, Restart
  PROVE  IInv'
<1> USE DEF IInv
<1>1. /\ restarts' = restarts + 1 /\ admitted' = [h \in Hashes |-> 0]
      /\ call' = [i \in Calls |-> [call[i] EXCEPT !.stage = "lost", !.status = "none"]]
      /\ current' = [h \in Hashes |-> 0] /\ up' = TRUE /\ step' = "idle" /\ flight' = {} /\ tx' = 0
      /\ block' \in {block, block + 1} /\ startedFrom' = block'
      /\ UNCHANGED <<now, txs, nonce, executedAt>>
  BY DEF Restart
<1>2. call \in Seq(Call) /\ Calls = 1 .. Len(call) /\ Len(call) \in Nat
      /\ \A i \in Calls : call[i] \in Call
  BY DEF TypeOK, Calls
<1>3. \A i \in Calls : call'[i] \in Call /\ call'[i].status = "none"
  BY <1>1, <1>2 DEF Call, Stage, Status
<1>4. call' \in [1 .. Len(call) -> Call]
  BY <1>1, <1>2, <1>3
<1>5. call' \in Seq(Call) /\ Len(call') = Len(call) /\ Calls' = Calls
  BY <1>2, <1>4 DEF Calls
<1>6. block' \in Nat /\ block' >= block /\ restarts' \in Nat
  <2>1. block \in Nat /\ restarts \in Nat
    BY DEF TypeOK
  <2>2. block' = block \/ block' = block + 1
    BY <1>1
  <2>3. restarts' = restarts + 1
    BY <1>1
  <2> QED
    BY <2>1, <2>2, <2>3
<1>7. TypeOK'
  <2>1. admitted' \in [Hashes -> Nat]
    BY <1>1
  <2>2. current' \in [Hashes -> 0 .. Len(call')]
    <3>1. 0 \in 0 .. Len(call')
      BY <1>2, <1>5
    <3> QED
      BY <1>1, <3>1
  <2>3. call' \in Seq(Call) /\ Len(call') <= MaxCalls
    BY <1>5 DEF TypeOK
  <2>4. now' \in 0 .. MaxNow /\ up' \in BOOLEAN /\ step' \in Step /\ flight' \in SUBSET Calls'
    BY <1>1 DEF TypeOK, Step
  <2>5. tx' \in 0 .. Len(txs') /\ txs' \in Seq(Tx)
    <3>1. txs \in Seq(Tx)
      BY DEF TypeOK
    <3>2. 0 \in 0 .. Len(txs)
      BY <3>1
    <3>3. txs' = txs /\ tx' = 0
      BY <1>1
    <3> QED
      BY <3>1, <3>2, <3>3
  <2>6. startedFrom' \in Nat /\ restarts' \in Nat /\ block' \in Nat
    BY <1>1, <1>6
  <2>7. nonce' \in [Senders -> Nat] /\ executedAt' \in [Hashes -> Nat]
    BY <1>1 DEF TypeOK
  <2> QED
    BY <2>1, <2>2, <2>3, <2>4, <2>5, <2>6, <2>7 DEF TypeOK
<1>8. FlightOK' /\ SentIsInFlight' /\ MinedIsExecuted' /\ WaitingIsFresh' /\ MinedFlightExecuted'
  BY <1>1, <1>3, <1>5 DEF FlightOK, SentIsInFlight, MinedIsExecuted, WaitingIsFresh, MinedFlightExecuted
<1>9. OneTxPerEntry' /\ MapOK'
  BY <1>1 DEF OneTxPerEntry, MapOK, Known
<1>10. ChainOK'
  <2>1. txs' = txs /\ nonce' = nonce /\ executedAt' = executedAt /\ startedFrom' = block'
    BY <1>1
  <2>2. block \in Nat /\ startedFrom \in Nat /\ startedFrom <= block /\ startedFrom > 0
    BY DEF TypeOK, ChainOK
  <2>3. startedFrom' <= block' /\ startedFrom' > 0
    BY <1>6, <2>1, <2>2
  <2>4. \A t \in DOMAIN txs' : txs'[t].ops # {} /\ txs'[t].ops \subseteq Calls'
    BY <1>5, <2>1 DEF ChainOK
  <2>5. \A h \in Hashes : executedAt'[h] # 0 => Ops[h].nonce < nonce'[Ops[h].sender]
    BY <2>1 DEF ChainOK
  <2> QED
    BY <2>3, <2>4, <2>5 DEF ChainOK
<1> QED
  BY <1>7, <1>8, <1>9, <1>10

(* A bundle that goes through executes operations that were not executed   *)
(* before, and takes their senders' nonces past them.                      *)
LEMMA NoncesAdvance ==
  ASSUME IInv, NEW t \in DOMAIN txs, Mine(t)
  PROVE  /\ nonce' \in [Senders -> Nat]
         /\ \A s \in Senders : nonce'[s] >= nonce[s]
         /\ \A i \in txs[t].ops : /\ call[i].hash \in Hashes
                                  /\ executedAt[call[i].hash] = 0
                                  /\ Ops[call[i].hash].nonce < nonce'[Ops[call[i].hash].sender]
<1> DEFINE S == txs[t].ops
<1>1. S \subseteq Calls /\ Calls = 1 .. Len(call) /\ Len(call) \in Nat
      /\ \A i \in Calls : call[i] \in Call
  BY DEF IInv, ChainOK, TypeOK, Calls
<1>2. IsFiniteSet(S)
  <2>1. IsFiniteSet(1 .. Len(call))
    BY <1>1, FS_Interval
  <2>2. S \in SUBSET (1 .. Len(call))
    BY <1>1
  <2> QED
    BY <2>1, <2>2, FS_Subset
<1>3. ASSUME NEW s \in Senders
      PROVE  /\ IsFiniteSet(OpsOf(S, s)) /\ Cardinality(OpsOf(S, s)) \in Nat
             /\ nonce[s] \in Nat /\ nonce'[s] = nonce[s] + Cardinality(OpsOf(S, s))
  <2>1. IsFiniteSet(OpsOf(S, s))
    BY <1>2, FS_Subset DEF OpsOf
  <2> QED
    BY <2>1, FS_CardinalityType DEF IInv, TypeOK, Mine
<1>4. nonce' \in [Senders -> Nat]
  <2>1. nonce' = [s \in Senders |-> nonce[s] + Cardinality(OpsOf(S, s))]
    BY DEF Mine
  <2>2. \A s \in Senders : nonce[s] + Cardinality(OpsOf(S, s)) \in Nat
    BY <1>3
  <2> HIDE DEF S
  <2> QED
    BY <2>1, <2>2
<1>5. ASSUME NEW i \in S
      PROVE  /\ call[i].hash \in Hashes
             /\ executedAt[call[i].hash] = 0
             /\ Ops[call[i].hash].nonce < nonce'[Ops[call[i].hash].sender]
  <2>1. i \in Calls /\ call[i] \in Call
    BY <1>1
  <2>2. call[i].hash \in Hashes /\ call[i].receivedAtMs \in Nat /\ call[i].slot \in Nat
    BY <2>1 DEF Call
  <2>3. PICK s \in Senders : s = Ops[call[i].hash].sender
    BY <2>2 DEF Senders
  <2>4. PICK n \in Nat : n = Ops[call[i].hash].nonce
    BY <2>2, BundlerAssumption
  <2>5. n = nonce[s] + Cardinality(EarlierOf(S, i))
    BY <2>3, <2>4 DEF Mine, InNonceOrder
  <2>6. EarlierOf(S, i) \subseteq OpsOf(S, s) \ {i}
    BY <2>2, <2>3 DEF EarlierOf, OpsOf, Before
  <2>7. i \in OpsOf(S, s)
    BY <2>3 DEF OpsOf
  <2>8. IsFiniteSet(OpsOf(S, s) \ {i}) /\ Cardinality(OpsOf(S, s) \ {i}) = Cardinality(OpsOf(S, s)) - 1
    BY <1>3, <2>7, FS_RemoveElement
  <2>9. IsFiniteSet(EarlierOf(S, i)) /\ Cardinality(EarlierOf(S, i)) <= Cardinality(OpsOf(S, s) \ {i})
    BY <2>6, <2>8, FS_Subset
  <2>10. Cardinality(EarlierOf(S, i)) \in Nat
    BY <2>9, FS_CardinalityType
  <2>11. n < nonce'[s] /\ n >= nonce[s]
    BY <1>3, <2>5, <2>8, <2>9, <2>10
  <2>12. executedAt[call[i].hash] # 0 => n < nonce[s]
    BY <2>2, <2>3, <2>4 DEF IInv, ChainOK
  <2> QED
    BY <1>3, <2>2, <2>3, <2>4, <2>11, <2>12
<1> QED
  BY <1>3, <1>4, <1>5

LEMMA MineStep ==
  ASSUME IInv, NEW t \in DOMAIN txs, Mine(t)
  PROVE  IInv'
<1>1. /\ block' = block + 1
      /\ txs' = [txs EXCEPT ![t] = [txs[t] EXCEPT !.status = "mined"]]
      /\ executedAt' = [h \in Hashes |->
           IF \E i \in txs[t].ops : call[i].hash = h THEN block' ELSE executedAt[h]]
      /\ UNCHANGED <<admitted, call, current, now, up, step, flight, tx, startedFrom, restarts>>
  BY DEF Mine, engineVars
<1>2. /\ nonce' \in [Senders -> Nat]
      /\ \A s \in Senders : nonce'[s] >= nonce[s]
      /\ \A i \in txs[t].ops : /\ call[i].hash \in Hashes
                               /\ executedAt[call[i].hash] = 0
                               /\ Ops[call[i].hash].nonce < nonce'[Ops[call[i].hash].sender]
  BY NoncesAdvance
<1>3. /\ txs \in Seq(Tx) /\ DOMAIN txs = 1 .. Len(txs) /\ txs[t] \in Tx
      /\ block \in Nat /\ block' \in Nat /\ block' > 0 /\ startedFrom \in Nat /\ startedFrom <= block'
      /\ executedAt \in [Hashes -> Nat]
      /\ Calls' = Calls
  BY <1>1 DEF IInv, TypeOK, ChainOK, Calls
<1>4. [txs[t] EXCEPT !.status = "mined"] \in Tx
  BY <1>3 DEF Tx
<1>5. /\ txs' \in Seq(Tx) /\ Len(txs') = Len(txs) /\ DOMAIN txs' = DOMAIN txs
      /\ \A u \in DOMAIN txs : txs'[u].ops = txs[u].ops
      /\ \A u \in DOMAIN txs : u # t => txs'[u] = txs[u]
  BY <1>1, <1>3, <1>4 DEF Tx
<1>6. executedAt' \in [Hashes -> Nat]
  BY <1>1, <1>3
<1>7. TypeOK'
  BY <1>1, <1>2, <1>3, <1>5, <1>6 DEF IInv, TypeOK
<1>8. \A h \in Hashes : ExecutedSinceStart(h) => ExecutedSinceStart(h)'
  BY <1>1, <1>3 DEF ExecutedSinceStart
<1>9. \A i \in txs[t].ops : ExecutedSinceStart(call[i].hash)'
  BY <1>1, <1>2, <1>3 DEF ExecutedSinceStart
<1>10. \A i \in Calls : call[i].hash \in Hashes
  <2>1. \A i \in Calls : call[i] \in Call
    BY DEF IInv, TypeOK, Calls
  <2> QED
    BY <2>1 DEF Call
<1>11. FlightOK'
  <2>1. step = "recording" => tx \in DOMAIN txs /\ tx # t
    BY DEF IInv, FlightOK, TypeOK, Mine
  <2>2. step \in {"sending", "submitted"} => tx \in DOMAIN txs
    BY <1>3 DEF IInv, FlightOK, TypeOK
  <2> QED
    BY <1>1, <1>5, <2>1, <2>2 DEF IInv, FlightOK
<1>12. SentIsInFlight' /\ MinedIsExecuted' /\ MapOK' /\ OneTxPerEntry' /\ WaitingIsFresh'
  BY <1>1, <1>3, <1>5, <1>8, <1>10 DEF IInv, SentIsInFlight, MinedIsExecuted, MapOK, OneTxPerEntry,
     WaitingIsFresh, Known
<1>13. MinedFlightExecuted'
  <2> SUFFICES ASSUME step \in {"sending", "submitted", "recording"}, txs'[tx].status = "mined",
                      NEW i \in flight
               PROVE  ExecutedSinceStart(call[i].hash)'
    BY <1>1 DEF MinedFlightExecuted
  <2>1. tx \in DOMAIN txs /\ txs[tx].ops = flight /\ i \in Calls
    BY <1>3 DEF IInv, FlightOK, TypeOK
  <2>2. PICK h \in Hashes : h = call[i].hash
    BY <1>10, <2>1
  <2>3. call' = call
    BY <1>1
  <2>4. CASE tx = t
    <3>1. i \in txs[t].ops
      BY <2>1, <2>4
    <3> QED
      BY <1>9, <3>1
  <2>5. CASE tx # t
    <3>1. txs[tx].status = "mined"
      BY <1>5, <2>1, <2>5
    <3>2. ExecutedSinceStart(h)
      BY <2>2, <3>1 DEF IInv, MinedFlightExecuted
    <3>3. ExecutedSinceStart(h)'
      BY <1>8, <3>2
    <3> QED
      BY <2>2, <2>3, <3>3 DEF ExecutedSinceStart
  <2> QED
    BY <2>4, <2>5
<1>14. ChainOK'
  <2>1. \A h \in Hashes : executedAt'[h] # 0 => Ops[h].nonce < nonce'[Ops[h].sender]
    <3> SUFFICES ASSUME NEW h \in Hashes, executedAt'[h] # 0
                 PROVE  Ops[h].nonce < nonce'[Ops[h].sender]
      OBVIOUS
    <3>1. CASE \E i \in txs[t].ops : call[i].hash = h
      BY <1>2, <3>1
    <3>2. CASE ~ \E i \in txs[t].ops : call[i].hash = h
      <4>1. executedAt[h] # 0 /\ Ops[h].nonce < nonce[Ops[h].sender]
        BY <1>1, <3>2 DEF IInv, ChainOK
      <4>2. PICK s \in Senders : s = Ops[h].sender
        BY DEF Senders
      <4>3. Ops[h].nonce \in Nat /\ nonce[s] \in Nat /\ nonce'[s] \in Nat /\ nonce'[s] >= nonce[s]
        BY <1>2, BundlerAssumption DEF IInv, TypeOK
      <4> QED
        BY <4>1, <4>2, <4>3
    <3> QED
      BY <3>1, <3>2
  <2>2. startedFrom' <= block' /\ startedFrom' > 0
    BY <1>1, <1>3 DEF IInv, ChainOK
  <2> QED
    BY <1>3, <1>5, <2>1, <2>2 DEF IInv, ChainOK
<1> QED
  BY <1>7, <1>11, <1>12, <1>13, <1>14 DEF IInv

(* A transaction that leaves the chain unmined changes nothing else.       *)
LEMMA UnminedStep ==
  ASSUME IInv, NEW t \in DOMAIN txs, Revert(t) \/ Drop(t)
  PROVE  IInv'
<1>1. PICK status \in {"reverted", "dropped"} : txs' = [txs EXCEPT ![t] = [txs[t] EXCEPT !.status = status]]
  BY DEF Revert, Drop
<1>2. /\ txs[t].status = "pending"
      /\ UNCHANGED <<admitted, call, current, now, up, step, flight, tx, startedFrom, restarts,
                     nonce, executedAt, block>>
  BY DEF Revert, Drop, engineVars
<1>3. txs \in Seq(Tx) /\ DOMAIN txs = 1 .. Len(txs) /\ txs[t] \in Tx /\ Calls' = Calls
  BY <1>2 DEF IInv, TypeOK, Calls
<1>4. [txs[t] EXCEPT !.status = status] \in Tx
  BY <1>3 DEF Tx
<1>5. /\ txs' \in Seq(Tx) /\ Len(txs') = Len(txs) /\ DOMAIN txs' = DOMAIN txs
      /\ \A u \in DOMAIN txs : txs'[u].ops = txs[u].ops
      /\ \A u \in DOMAIN txs : u # t => txs'[u] = txs[u]
      /\ txs'[t].status # "mined"
  BY <1>1, <1>3, <1>4 DEF Tx
<1>6. TypeOK'
  BY <1>2, <1>3, <1>5 DEF IInv, TypeOK
<1>7. step \in {"sending", "submitted", "recording"} => tx \in DOMAIN txs
  BY <1>3 DEF IInv, FlightOK, TypeOK
<1>8. FlightOK'
  BY <1>2, <1>5, <1>7 DEF IInv, FlightOK
<1>9. SentIsInFlight' /\ MinedIsExecuted' /\ MapOK' /\ OneTxPerEntry' /\ WaitingIsFresh' /\ ChainOK'
  BY <1>2, <1>3, <1>5 DEF IInv, SentIsInFlight, MinedIsExecuted, MapOK, OneTxPerEntry,
     WaitingIsFresh, ChainOK, ExecutedSinceStart, Known
<1>10. MinedFlightExecuted'
  BY <1>2, <1>5, <1>7 DEF IInv, MinedFlightExecuted, ExecutedSinceStart
<1> QED
  BY <1>6, <1>8, <1>9, <1>10 DEF IInv

LEMMA OtherStep ==
  ASSUME IInv, NEW h \in Hashes, OtherExecutes(h)
  PROVE  IInv'
<1>1. PICK s \in Senders : s = Ops[h].sender
  BY DEF Senders
<1>2. /\ nonce[s] = Ops[h].nonce /\ nonce' = [nonce EXCEPT ![s] = nonce[s] + 1]
      /\ block' = block + 1 /\ executedAt' = [executedAt EXCEPT ![h] = block']
      /\ UNCHANGED <<admitted, call, current, now, up, step, flight, tx, startedFrom, restarts, txs>>
  BY <1>1 DEF OtherExecutes, engineVars
<1>3. /\ nonce \in [Senders -> Nat] /\ executedAt \in [Hashes -> Nat]
      /\ block \in Nat /\ startedFrom \in Nat /\ startedFrom <= block /\ startedFrom > 0
  BY DEF IInv, TypeOK, ChainOK
<1>4. block' \in Nat /\ startedFrom' <= block' /\ startedFrom' > 0 /\ block' > 0 /\ Calls' = Calls
  BY <1>2, <1>3 DEF Calls
<1>5. nonce' \in [Senders -> Nat] /\ \A z \in Senders : nonce'[z] >= nonce[z]
  BY <1>2, <1>3
<1>6. executedAt' \in [Hashes -> Nat]
  BY <1>2, <1>3, <1>4
<1>7. TypeOK'
  BY <1>2, <1>4, <1>5, <1>6 DEF IInv, TypeOK
<1>8. \A g \in Hashes : ExecutedSinceStart(g) => ExecutedSinceStart(g)'
  BY <1>2, <1>3, <1>4 DEF ExecutedSinceStart
<1>9. \A i \in Calls : call[i].hash \in Hashes
  <2>1. \A i \in Calls : call[i] \in Call
    BY DEF IInv, TypeOK, Calls
  <2> QED
    BY <2>1 DEF Call
<1>10. FlightOK' /\ SentIsInFlight' /\ MapOK' /\ OneTxPerEntry' /\ WaitingIsFresh'
  BY <1>2, <1>4 DEF IInv, FlightOK, SentIsInFlight, MapOK, OneTxPerEntry, WaitingIsFresh, Known
<1>11. MinedIsExecuted'
  <2> SUFFICES ASSUME NEW i \in Calls, call[i].status = "mined"
               PROVE  ExecutedSinceStart(call[i].hash)'
    BY <1>2, <1>4 DEF MinedIsExecuted
  <2>1. PICK g \in Hashes : g = call[i].hash
    BY <1>9
  <2>2. ExecutedSinceStart(g)'
    BY <1>8, <2>1 DEF IInv, MinedIsExecuted
  <2> QED
    BY <1>2, <2>1, <2>2 DEF ExecutedSinceStart
<1>12. MinedFlightExecuted'
  <2> SUFFICES ASSUME step \in {"sending", "submitted", "recording"}, txs[tx].status = "mined",
                      NEW i \in flight
               PROVE  ExecutedSinceStart(call[i].hash)'
    BY <1>2 DEF MinedFlightExecuted
  <2>1. PICK g \in Hashes : g = call[i].hash
    BY <1>9 DEF IInv, TypeOK
  <2>2. ExecutedSinceStart(g)'
    BY <1>8, <2>1 DEF IInv, MinedFlightExecuted
  <2> QED
    BY <1>2, <2>1, <2>2 DEF ExecutedSinceStart
<1>13. ChainOK'
  <2>1. ASSUME NEW g \in Hashes, executedAt'[g] # 0
        PROVE  Ops[g].nonce < nonce'[Ops[g].sender]
    <3>1. PICK z \in Senders : z = Ops[g].sender
      BY DEF Senders
    <3>2. PICK n \in Nat : n = Ops[g].nonce
      BY BundlerAssumption
    <3>3. nonce[z] \in Nat /\ nonce'[z] \in Nat /\ nonce'[z] >= nonce[z]
      BY <1>3, <1>5
    <3>4. CASE g = h
      BY <1>1, <1>2, <1>3, <3>1, <3>2, <3>3, <3>4
    <3>5. CASE g # h
      <4>1. executedAt[g] # 0
        BY <1>2, <1>3, <2>1, <3>5
      <4>2. n < nonce[z]
        BY <3>1, <3>2, <4>1 DEF IInv, ChainOK
      <4> QED
        BY <3>1, <3>2, <3>3, <4>2
    <3> QED
      BY <3>4, <3>5
  <2> QED
    BY <1>2, <1>4, <2>1 DEF IInv, ChainOK
<1> QED
  BY <1>7, <1>10, <1>11, <1>12, <1>13 DEF IInv

LEMMA Inductive ==
  ASSUME IInv, [Next]_vars
  PROVE  IInv'
<1>1. CASE \E h \in Hashes : SimulationPasses(h) \/ Accept(h)
  BY <1>1, SimulationStep, AcceptStep
<1>2. CASE \E i \in Calls : Return(i)
  BY <1>2, ReturnStep
<1>3. CASE TimerFires
  BY <1>3, TimerStep
<1>4. CASE FlightStep
  BY <1>4, BroadcastStep, SendStep, RecordStep, FailStep, ReleaseStep DEF FlightStep
<1>5. CASE Stop
  BY <1>5, StopStep
<1>6. CASE Restart
  BY <1>6, RestartStep
<1>7. CASE ChainStep \/ \E t \in DOMAIN txs : Drop(t)
  BY <1>7, MineStep, UnminedStep DEF ChainStep
<1>8. CASE \E h \in Hashes : OtherExecutes(h)
  BY <1>8, OtherStep
<1>9. CASE UNCHANGED vars
  BY <1>9 DEF vars, engineVars, chainVars, IInv, TypeOK, FlightOK, SentIsInFlight, MinedIsExecuted,
     OneTxPerEntry, WaitingIsFresh, MinedFlightExecuted, ChainOK, MapOK, Known, Calls, ExecutedSinceStart
<1> QED
  BY <1>1, <1>2, <1>3, <1>4, <1>5, <1>6, <1>7, <1>8, <1>9 DEF Next

----------------------------------------------------------------------------
(* The theorems.                                                           *)

(* The inductive invariant holds of every behaviour.                       *)
THEOREM Invariance == Spec => []IInv
<1>1. Init => IInv
  BY InitOK
<1>2. IInv /\ [Next]_vars => IInv'
  BY Inductive
<1> QED
  BY <1>1, <1>2, PTL DEF Spec

(* An entry is sent in at most one transaction.                            *)
THEOREM NeverSentTwice == Spec => []OneTxPerEntry
<1>1. IInv => OneTxPerEntry
  BY DEF IInv
<1> QED
  BY <1>1, Invariance, PTL

(* What is reported mined is executed, in a block a search can find.       *)
THEOREM MinedIsTrue == Spec => []MinedIsExecuted
<1>1. IInv => MinedIsExecuted
  BY DEF IInv
<1> QED
  BY <1>1, Invariance, PTL

(* A bundle that is over leaves no entry "sent".                           *)
THEOREM NothingStaysSent == Spec => []SentIsInFlight
<1>1. IInv => SentIsInFlight
  BY DEF IInv
<1> QED
  BY <1>1, Invariance, PTL

(* An entry is decided only while it is "pending" or "sent".               *)
LEMMA DecidedStep ==
  ASSUME IInv, [Next]_vars, restarts' = restarts,
         NEW i \in Calls, call[i].status \in {"mined", "failed"}
  PROVE  call'[i].status = call[i].status
<1>1. call \in Seq(Call) /\ Calls = 1 .. Len(call) /\ call[i] \in Call
  BY DEF IInv, TypeOK, Calls
<1>2. CASE \E h \in Hashes : Accept(h)
  <2>1. PICK e : call' = Append(call, e)
    BY <1>2 DEF Accept
  <2>2. call'[i] = call[i]
    BY <1>1, <2>1
  <2> QED
    BY <2>2
<1>3. CASE \E j \in Calls : Return(j)
  <2>1. PICK j \in Calls : call' = [call EXCEPT ![j] = [call[j] EXCEPT !.stage = "done"]]
    BY <1>3 DEF Return
  <2> QED
    BY <1>1, <2>1 DEF Call
<1>4. ASSUME NEW S \in SUBSET flight, NEW st \in Status, call' = WithStatus(S, st), i \notin S
      PROVE  call'[i].status = call[i].status
  BY <1>1, <1>4 DEF WithStatus
<1>5. CASE SendReturns \/ FlightFails
  <2>1. i \notin flight
    BY <1>5 DEF SendReturns, FlightFails, IInv, FlightOK
  <2>2. "sent" \in Status /\ "failed" \in Status /\ flight \in SUBSET flight
    BY DEF Status
  <2> QED
    BY <1>4, <1>5, <2>1, <2>2 DEF SendReturns, FlightFails
<1>6. CASE WaitReturns \/ RecordNext
  <2>1. PICK j \in Unrecorded : call' = WithStatus({j}, "mined")
    BY <1>6 DEF WaitReturns, RecordNext, Record
  <2>2. call[j].status = "sent" /\ j \in flight
    BY <1>6 DEF WaitReturns, RecordNext, IInv, FlightOK, Unrecorded
  <2>3. {j} \in SUBSET flight /\ i \notin {j} /\ "mined" \in Status
    BY <2>2 DEF Status
  <2> QED
    BY <1>4, <2>1, <2>3
<1>7. CASE Restart
  <2>1. restarts \in Nat /\ restarts' = restarts + 1
    BY <1>7 DEF Restart, IInv, TypeOK
  <2> QED
    BY <2>1
<1>8. CASE UNCHANGED call
  BY <1>8
<1>9. CASE ChainStep \/ (\E t \in DOMAIN txs : Drop(t)) \/ \E h \in Hashes : OtherExecutes(h)
  BY <1>8, <1>9 DEF ChainStep, Mine, Revert, Drop, OtherExecutes, engineVars
<1> QED
  BY <1>2, <1>3, <1>5, <1>6, <1>7, <1>8, <1>9
  DEF Next, FlightStep, SimulationPasses, TimerFires, Broadcast, Release, Stop, vars, engineVars

(* A decided entry stays decided until the process ends.                   *)
THEOREM DecidedForGood == Spec => Decided
<1>1. IInv /\ [Next]_vars =>
        [\A i \in Calls : call[i].status \in {"mined", "failed"} /\ restarts' = restarts
           => call'[i].status = call[i].status]_vars
  BY DecidedStep
<1> QED
  BY <1>1, Invariance, PTL DEF Spec, Decided

----------------------------------------------------------------------------
(* The refinement.                                                         *)

Executed == {h \in Hashes : executedAt[h] # 0}
Replied == {h \in Hashes : Answers(h)}

(* What the mempool answers a search of the chain answers too, so answers  *)
(* depend on the chain and the start block alone.                          *)
LEMMA AnswersAreOnChain == IInv => Replied = {h \in Hashes : ExecutedSinceStart(h)}
<1> SUFFICES ASSUME IInv, NEW h \in Hashes, InMemory(h)
             PROVE  ExecutedSinceStart(h)
  BY DEF Replied, Answers
<1>1. current[h] \in Calls /\ h \in Known
  BY DEF IInv, TypeOK, InMemory, Known, Calls
<1>2. call[current[h]].status = "mined" /\ call[current[h]].hash = h
  BY <1>1 DEF IInv, MapOK, InMemory
<1> QED
  BY <1>1, <1>2 DEF IInv, MinedIsExecuted

LEMMA StepRefines ==
  ASSUME IInv, IInv', Replied = {h \in Hashes : ExecutedSinceStart(h)},
         Replied' = {h \in Hashes : ExecutedSinceStart(h)'}, [Next]_vars
  PROVE  [Service!Next]_<<Known, Executed, Replied>>
<1>1. ASSUME UNCHANGED <<executedAt, startedFrom>>
      PROVE  Executed' = Executed /\ Replied' = Replied
  BY <1>1 DEF Executed, ExecutedSinceStart
<1>2. CASE UNCHANGED <<current, executedAt, startedFrom>>
  BY <1>1, <1>2 DEF Known
<1>3. CASE \E h \in Hashes : Accept(h)
  <2>1. PICK h \in Hashes : Accept(h)
    BY <1>3
  <2>2. /\ current' = [current EXCEPT ![h] = Len(call) + 1] /\ Len(call) + 1 # 0
        /\ UNCHANGED <<executedAt, startedFrom>>
    BY <2>1 DEF Accept, chainVars, IInv, TypeOK
  <2>3. Known' = Known \cup {h}
    BY <2>2 DEF Known, IInv, TypeOK
  <2> QED
    BY <1>1, <2>2, <2>3 DEF Service!Next, Service!Accept, Executed, Replied
<1>4. CASE \E t \in DOMAIN txs : Mine(t)
  <2>1. PICK t \in DOMAIN txs : Mine(t)
    BY <1>4
  <2> DEFINE hs == {call[i].hash : i \in txs[t].ops}
  <2>2. \A i \in txs[t].ops : call[i].hash \in Hashes /\ executedAt[call[i].hash] = 0
    BY <2>1, NoncesAdvance
  <2>3. txs[t].ops # {} /\ block \in Nat /\ startedFrom \in Nat /\ startedFrom <= block
        /\ executedAt \in [Hashes -> Nat]
    BY DEF IInv, ChainOK, TypeOK
  <2>4. /\ block' = block + 1 /\ UNCHANGED <<current, startedFrom>>
        /\ executedAt' = [h \in Hashes |-> IF h \in hs THEN block' ELSE executedAt[h]]
    BY <2>1 DEF Mine, engineVars
  <2>5. hs # {} /\ hs \in SUBSET Hashes /\ hs \cap Executed = {}
    BY <2>2, <2>3 DEF Executed
  <2> HIDE DEF hs
  <2>6. Known' = Known /\ Executed' = Executed \cup hs
    BY <2>3, <2>4, <2>5 DEF Known, Executed
  <2>7. Replied' = Replied \cup hs
    BY <2>3, <2>4, <2>5 DEF ExecutedSinceStart
  <2> QED
    BY <2>5, <2>6, <2>7 DEF Service!Next, Service!Execute, Executed, Replied
<1>5. CASE \E h \in Hashes : OtherExecutes(h)
  <2>1. PICK h \in Hashes : OtherExecutes(h)
    BY <1>5
  <2>2. executedAt[h] = 0
    <3>1. PICK s \in Senders : s = Ops[h].sender
      BY DEF Senders
    <3>2. nonce[s] = Ops[h].nonce /\ nonce[s] \in Nat
      BY <2>1, <3>1 DEF OtherExecutes, IInv, TypeOK
    <3> QED
      BY <3>1, <3>2 DEF IInv, ChainOK
  <2>3. block \in Nat /\ startedFrom \in Nat /\ startedFrom <= block /\ executedAt \in [Hashes -> Nat]
    BY DEF IInv, ChainOK, TypeOK
  <2>4. /\ block' = block + 1 /\ executedAt' = [executedAt EXCEPT ![h] = block']
        /\ UNCHANGED <<current, startedFrom>>
    BY <2>1 DEF OtherExecutes, engineVars
  <2>5. Known' = Known /\ Executed' = Executed \cup {h} /\ {h} \cap Executed = {}
    BY <2>2, <2>3, <2>4 DEF Known, Executed
  <2>6. Replied' = Replied \cup {h}
    BY <2>3, <2>4 DEF ExecutedSinceStart
  <2> QED
    BY <2>5, <2>6 DEF Service!Next, Service!Execute, Executed, Replied
<1>6. CASE Restart
  <2>1. /\ current' = [h \in Hashes |-> 0] /\ executedAt' = executedAt
        /\ block' \in {block, block + 1} /\ startedFrom' = block'
    BY <1>6 DEF Restart
  <2>2. block \in Nat /\ startedFrom \in Nat /\ startedFrom <= block /\ executedAt \in [Hashes -> Nat]
    BY DEF IInv, ChainOK, TypeOK
  <2>3. startedFrom' >= startedFrom /\ startedFrom' \in Nat
    <3>1. block' = block \/ block' = block + 1
      BY <2>1
    <3> QED
      BY <2>1, <2>2, <3>1
  <2>4. \A h \in Hashes : ExecutedSinceStart(h)' => ExecutedSinceStart(h)
    BY <2>1, <2>2, <2>3 DEF ExecutedSinceStart
  <2>5. Known' = {} /\ Executed' = Executed /\ Replied' \in SUBSET Replied
    BY <2>1, <2>4 DEF Known, Executed
  <2> QED
    BY <2>5 DEF Service!Next, Service!Restart, Executed, Replied
<1> QED
  BY <1>2, <1>3, <1>4, <1>5, <1>6
  DEF Next, FlightStep, ChainStep, SimulationPasses, Return, TimerFires, Broadcast, SendReturns,
      WaitReturns, RecordNext, FlightFails, Release, Stop, Revert, Drop, vars, engineVars, chainVars

(* Whatever awaits interleave and bundles fail, the bundler gives the      *)
(* guarantees of UserOpService.                                            *)
THEOREM Refinement == Spec => ImplementsService
<1>1. Init => Service!Init
  BY DEF Init, Service!Init, Known, Answers, InMemory, ExecutedSinceStart
<1>2. (IInv => Replied = {h \in Hashes : ExecutedSinceStart(h)})'
  BY AnswersAreOnChain, PTL
<1>3. IInv /\ IInv' /\ [Next]_vars => [Service!Next]_<<Known, Executed, Replied>>
  BY <1>2, AnswersAreOnChain, StepRefines
<1>4. IInv /\ IInv' /\ [Next]_vars =>
        [Service!Next]_<<Known, {h \in Hashes : executedAt[h] # 0}, {h \in Hashes : Answers(h)}>>
  BY <1>3 DEF Executed, Replied
<1> QED
  BY <1>1, <1>4, Invariance, PTL DEF Spec, ImplementsService, Service!Spec

----------------------------------------------------------------------------
(* BundlerRpc.  A bundle is in the order of the map.                       *)

(* The entries of a bundle have places of their own in the map, so sorting *)
(* decides between any two of them.                                        *)
Apart(S) == \A i, j \in S : i # j => call[i].slot # call[j].slot

NoncesDiffer(S) ==
  \A i, j \in S : i # j /\ Ops[call[i].hash].sender = Ops[call[j].hash].sender
    => Ops[call[i].hash].nonce # Ops[call[j].hash].nonce

LEMMA Times ==
  ASSUME IInv, NEW i \in Calls
  PROVE  call[i].hash \in Hashes /\ call[i].receivedAtMs \in Nat /\ call[i].slot \in Nat
<1>1. call[i] \in Call
  BY DEF IInv, TypeOK, Calls
<1> QED
  BY <1>1 DEF Call

(* Of two of them the later one has more before it.                        *)
LEMMA LaterHasMore ==
  ASSUME IInv, NEW S \in SUBSET Calls, NEW i \in S, NEW j \in S, Before(i, j)
  PROVE  LET earlier(k) == {l \in S : Before(l, k)}
         IN  /\ Cardinality(earlier(i)) \in Nat /\ Cardinality(earlier(j)) \in Nat
             /\ Cardinality(earlier(i)) < Cardinality(earlier(j))
             /\ Cardinality(earlier(j)) < Cardinality(S) /\ Cardinality(S) \in Nat
<1> DEFINE E(k) == {l \in S : Before(l, k)}
<1>1. IsFiniteSet(S)
  <2>1. Calls = 1 .. Len(call) /\ Len(call) \in Nat
    BY DEF IInv, TypeOK, Calls
  <2>2. IsFiniteSet(Calls)
    BY <2>1, FS_Interval
  <2> QED
    BY <2>2, FS_Subset
<1>2. \A k \in S : /\ call[k].receivedAtMs \in Nat /\ call[k].slot \in Nat
  BY Times
<1>3. \A k \in S : ~Before(k, k)
  BY <1>2 DEF Before
<1>4. \A k \in S : Before(k, i) => Before(k, j)
  BY <1>2 DEF Before
<1>5. E(i) \subseteq E(j) \ {i} /\ i \in E(j) /\ E(j) \subseteq S \ {j}
  BY <1>3, <1>4
<1>6. IsFiniteSet(E(j)) /\ IsFiniteSet(E(i))
  BY <1>1, FS_Subset
<1> HIDE DEF E
<1>7. IsFiniteSet(E(j) \ {i}) /\ Cardinality(E(j) \ {i}) = Cardinality(E(j)) - 1
  BY <1>5, <1>6, FS_RemoveElement
<1>8. Cardinality(E(i)) <= Cardinality(E(j) \ {i})
  BY <1>5, <1>7, FS_Subset
<1>9. IsFiniteSet(S \ {j}) /\ Cardinality(S \ {j}) = Cardinality(S) - 1
  BY <1>1, FS_RemoveElement
<1>10. Cardinality(E(j)) <= Cardinality(S \ {j})
  BY <1>5, <1>9, FS_Subset
<1>11. Cardinality(E(i)) \in Nat /\ Cardinality(E(j)) \in Nat /\ Cardinality(S) \in Nat
  BY <1>1, <1>6, FS_CardinalityType
<1>12. Cardinality(E(i)) < Cardinality(E(j)) /\ Cardinality(E(j)) < Cardinality(S)
  BY <1>7, <1>8, <1>9, <1>10, <1>11
<1> QED
  BY <1>11, <1>12 DEF E

(* A bundle that goes through has no two operations of one nonce.          *)
LEMMA GoesThrough ==
  ASSUME IInv, NEW S \in SUBSET Calls, Apart(S), InNonceOrder(S)
  PROVE  NoncesDiffer(S)
<1>1. ASSUME NEW i \in S, NEW j \in S, Before(i, j),
             Ops[call[i].hash].sender = Ops[call[j].hash].sender
      PROVE  Ops[call[i].hash].nonce # Ops[call[j].hash].nonce
  <2> DEFINE s == Ops[call[i].hash].sender
             T == {k \in S : Ops[call[k].hash].sender = s}
  <2>1. T \in SUBSET Calls /\ i \in T /\ j \in T
    BY <1>1
  <2>2. EarlierOf(S, i) = {k \in T : Before(k, i)} /\ EarlierOf(S, j) = {k \in T : Before(k, j)}
    BY <1>1 DEF EarlierOf
  <2> HIDE DEF T
  <2>3. /\ Cardinality(EarlierOf(S, i)) \in Nat /\ Cardinality(EarlierOf(S, j)) \in Nat
        /\ Cardinality(EarlierOf(S, i)) < Cardinality(EarlierOf(S, j))
    BY <1>1, <2>1, <2>2, LaterHasMore
  <2>4. s \in Senders /\ nonce[s] \in Nat
    <3>1. call[i].hash \in Hashes
      BY Times
    <3>2. s \in Senders
      BY <3>1 DEF Senders
    <3> QED
      BY <3>2 DEF IInv, TypeOK
  <2>5. /\ Ops[call[i].hash].nonce = nonce[s] + Cardinality(EarlierOf(S, i))
        /\ Ops[call[j].hash].nonce = nonce[s] + Cardinality(EarlierOf(S, j))
    BY <1>1 DEF InNonceOrder
  <2> HIDE DEF s
  <2> QED
    BY <2>3, <2>4, <2>5
<1>2. ASSUME NEW i \in S, NEW j \in S, i # j
      PROVE  Before(i, j) \/ Before(j, i)
  BY <1>2, Times DEF Apart, Before
<1> QED
  BY <1>1, <1>2 DEF NoncesDiffer

(* Sorted by place, a bundle has each of its entries once.                 *)
LEMMA Sorted ==
  ASSUME IInv, NEW S \in SUBSET Calls, Apart(S)
  PROVE  /\ Cardinality(S) \in Nat
         /\ \A k \in 1 .. Cardinality(S) : InOrder(S)[k] \in S
         /\ \A i \in S : \E k \in 1 .. Cardinality(S) : InOrder(S)[k] = i
         /\ \A k, l \in 1 .. Cardinality(S) : InOrder(S)[k] = InOrder(S)[l] => k = l
<1> DEFINE n == Cardinality(S)
<1>1. IsFiniteSet(S) /\ n \in Nat
  <2>1. Calls = 1 .. Len(call) /\ Len(call) \in Nat
    BY DEF IInv, TypeOK, Calls
  <2>2. IsFiniteSet(Calls)
    BY <2>1, FS_Interval
  <2> QED
    BY <2>2, FS_Subset, FS_CardinalityType
<1>2. ASSUME NEW i \in S, NEW j \in S, Before(i, j)
      PROVE  Place(S, i) # Place(S, j)
  <2> DEFINE E(k) == Cardinality({l \in S : Before(l, k)})
  <2>1. E(i) \in Nat /\ E(j) \in Nat /\ E(i) < E(j)
    BY <1>2, LaterHasMore
  <2>2. Place(S, i) = E(i) + 1 /\ Place(S, j) = E(j) + 1
    BY DEF Place
  <2> HIDE DEF E
  <2> QED
    BY <2>1, <2>2
<1>3. ASSUME NEW i \in S, NEW j \in S, i # j
      PROVE  Before(i, j) \/ Before(j, i)
  BY <1>3, Times DEF Apart, Before
<1>4. \A i, j \in S : Place(S, i) = Place(S, j) => i = j
  BY <1>2, <1>3
<1>5. ASSUME NEW i \in S PROVE Place(S, i) \in 1 .. n
  <2> DEFINE E == {j \in S : Before(j, i)}
  <2>1. ~Before(i, i)
    BY Times DEF Before
  <2>2. E \subseteq S \ {i}
    BY <2>1
  <2>3. IsFiniteSet(S \ {i}) /\ Cardinality(S \ {i}) = n - 1
    BY <1>1, FS_RemoveElement
  <2>4. Cardinality(E) <= n - 1 /\ IsFiniteSet(E)
    <3> HIDE DEF E
    <3> QED
      BY <2>2, <2>3, FS_Subset
  <2>5. Cardinality(E) \in Nat
    BY <2>4, FS_CardinalityType
  <2> QED
    BY <1>1, <2>4, <2>5 DEF Place
<1> DEFINE f == [i \in S |-> Place(S, i)]
<1>6. f \in Injection(S, 1 .. n)
  BY <1>4, <1>5 DEF Injection, IsInjective
<1>7. IsFiniteSet(1 .. n) /\ Cardinality(1 .. n) = n
  BY <1>1, FS_Interval
<1>8. f \in Surjection(S, 1 .. n)
  <2> HIDE DEF f
  <2> QED
    BY <1>1, <1>6, <1>7, FS_Injection
<1>9. \A k \in 1 .. n : \E i \in S : Place(S, i) = k
  BY <1>8 DEF Surjection
<1>10. \A k \in 1 .. n : InOrder(S)[k] \in S /\ Place(S, InOrder(S)[k]) = k
  BY <1>9 DEF InOrder
<1>11. \A k, l \in 1 .. n : InOrder(S)[k] = InOrder(S)[l] => k = l
  BY <1>10
<1> QED
  BY <1>1, <1>4, <1>5, <1>10, <1>11

----------------------------------------------------------------------------
(* The order of a bundle: every key has a place of its own in the map.     *)
SlotsOK ==
  /\ \A h \in Known : call[current[h]].slot \in 1 .. Cardinality(Known)
  /\ \A g, h \in Known : g # h => call[current[g]].slot # call[current[h]].slot
BundlesOK ==
  /\ Apart(flight)
  /\ \A t \in DOMAIN txs : /\ Apart(txs[t].ops)
                           /\ txs[t].status = "mined" => NoncesDiffer(txs[t].ops)
OrderInv == SlotsOK /\ BundlesOK

LEMMA OrderInit == Init => OrderInv
<1> SUFFICES ASSUME Init PROVE OrderInv
  OBVIOUS
<1>1. Known = {} /\ flight = {} /\ DOMAIN txs = {}
  BY DEF Init, Known
<1> QED
  BY <1>1 DEF OrderInv, SlotsOK, BundlesOK, Apart

LEMMA CurrentCalls ==
  ASSUME IInv
  PROVE  /\ IsFiniteSet(Known) /\ Cardinality(Known) \in Nat
         /\ \A h \in Known : current[h] \in Calls /\ call[current[h]].hash = h
         /\ PendingIds \subseteq Calls
         /\ \A i \in PendingIds : call[i].hash \in Known /\ current[call[i].hash] = i
<1>1. IsFiniteSet(Known) /\ Cardinality(Known) \in Nat
  <2>1. Known \in SUBSET Hashes /\ IsFiniteSet(Hashes)
    BY BundlerAssumption DEF Known
  <2> QED
    BY <2>1, FS_Subset, FS_CardinalityType
<1>2. ASSUME NEW h \in Known PROVE current[h] \in Calls /\ call[current[h]].hash = h
  BY DEF IInv, TypeOK, Known, Calls, MapOK
<1>3. ASSUME NEW i \in PendingIds
      PROVE  i \in Calls /\ call[i].hash \in Known /\ current[call[i].hash] = i
  <2>1. i \in Calls /\ current[call[i].hash] = i
    BY DEF PendingIds
  <2>2. call[i].hash \in Hashes /\ i # 0
    BY <2>1, Times DEF IInv, TypeOK, Calls
  <2> QED
    BY <2>1, <2>2 DEF Known
<1> QED
  BY <1>1, <1>2, <1>3

(* No entry is forgotten, and none ever changes its hash or its place.     *)
LEMMA EntriesStay ==
  ASSUME IInv, [Next]_vars
  PROVE  /\ Calls \subseteq Calls'
         /\ \A i \in Calls : call'[i].hash = call[i].hash /\ call'[i].slot = call[i].slot
<1>0. call \in Seq(Call) /\ Calls = 1 .. Len(call) /\ \A i \in Calls : call[i] \in Call
  BY DEF IInv, TypeOK, Calls
<1>1. CASE \E h \in Hashes : Accept(h)
  <2>1. PICK e : call' = Append(call, e)
    BY <1>1 DEF Accept
  <2> QED
    BY <1>0, <2>1 DEF Calls
<1>2. CASE Restart
  <2> DEFINE Lost(c) == [c EXCEPT !.stage = "lost", !.status = "none"]
  <2>1. call' = [i \in Calls |-> Lost(call[i])]
    BY <1>2, Zenon DEF Restart
  <2>2. ASSUME NEW c \in Call PROVE Lost(c).hash = c.hash /\ Lost(c).slot = c.slot
    BY DEF Call
  <2> HIDE DEF Lost
  <2> QED
    BY <1>0, <2>1, <2>2 DEF Calls
<1>3. CASE SendReturns \/ WaitReturns \/ RecordNext \/ FlightFails
  <2>1. \E S : \E st \in {"sent", "mined", "failed"} : call' = WithStatus(S, st)
    BY <1>3, Zenon DEF SendReturns, WaitReturns, RecordNext, FlightFails, Record
  <2> QED
    BY <1>0, <2>1, StatusSet DEF Calls, Status
<1>4. CASE \E i \in Calls : Return(i)
  <2>1. PICK i \in Calls : call' = [call EXCEPT ![i] = [call[i] EXCEPT !.stage = "done"]]
    BY <1>4 DEF Return
  <2> QED
    BY <1>0, <2>1 DEF Calls, Call
<1>5. CASE UNCHANGED call
  BY <1>5 DEF Calls
<1>6. CASE \/ TimerFires \/ Broadcast \/ Release \/ Stop
           \/ \E h \in Hashes : SimulationPasses(h) \/ OtherExecutes(h)
           \/ \E t \in DOMAIN txs : Mine(t) \/ Revert(t) \/ Drop(t)
           \/ UNCHANGED vars
  BY <1>5, <1>6 DEF TimerFires, Broadcast, Release, Stop, SimulationPasses, OtherExecutes, Mine, Revert,
                    Drop, vars, engineVars
<1> QED
  BY <1>1, <1>2, <1>3, <1>4, <1>6 DEF Next, FlightStep, ChainStep

(* Steps that keep the map, and every entry's hash and place.              *)
LEMMA OrderStays ==
  ASSUME IInv, OrderInv, current' = current,
         \A i \in Calls : call'[i].hash = call[i].hash /\ call'[i].slot = call[i].slot,
         flight' \in {flight, {}} \/ flight' \subseteq PendingIds,
         \A t \in DOMAIN txs' :
           \/ /\ t \in DOMAIN txs /\ txs'[t].ops = txs[t].ops
              /\ txs'[t].status = "mined" => txs[t].status = "mined" \/ NoncesDiffer(txs[t].ops)
           \/ txs'[t].ops = flight /\ txs'[t].status # "mined"
  PROVE  OrderInv'
<1>1. Known' = Known
  BY DEF Known
<1>2. SlotsOK'
  <2>1. \A h \in Known : call'[current'[h]].slot = call[current[h]].slot
    BY CurrentCalls
  <2> QED
    BY <1>1, <2>1 DEF OrderInv, SlotsOK
<1>3. flight \subseteq Calls /\ \A t \in DOMAIN txs : txs[t].ops \subseteq Calls
  BY DEF IInv, TypeOK, ChainOK
<1>4. Apart(PendingIds)
  BY CurrentCalls DEF OrderInv, SlotsOK, Apart
<1>5. Apart(flight) /\ \A t \in DOMAIN txs : Apart(txs[t].ops)
                                              /\ (txs[t].status = "mined" => NoncesDiffer(txs[t].ops))
  BY DEF OrderInv, BundlesOK
<1>6. Apart(flight)'
  <2>1. \A i, j \in flight' : i \in Calls /\ j \in Calls /\ (i # j => call[i].slot # call[j].slot)
    BY <1>3, <1>4, <1>5, CurrentCalls DEF Apart
  <2> QED
    BY <2>1 DEF Apart
<1>7. ASSUME NEW t \in DOMAIN txs'
      PROVE  /\ Apart(txs[t].ops)'
             /\ txs'[t].status = "mined" => NoncesDiffer(txs[t].ops)'
  <2>1. CASE txs'[t].ops = flight /\ txs'[t].status # "mined"
    BY <1>3, <1>5, <2>1 DEF Apart
  <2>2. CASE /\ t \in DOMAIN txs /\ txs'[t].ops = txs[t].ops
             /\ txs'[t].status = "mined" => txs[t].status = "mined" \/ NoncesDiffer(txs[t].ops)
    <3>1. txs[t].ops \subseteq Calls /\ Apart(txs[t].ops)
          /\ (txs'[t].status = "mined" => NoncesDiffer(txs[t].ops))
      BY <1>3, <1>5, <2>2
    <3>2. Apart(txs[t].ops)'
      BY <2>2, <3>1 DEF Apart
    <3>3. txs'[t].status = "mined" => NoncesDiffer(txs[t].ops)'
      BY <2>2, <3>1 DEF NoncesDiffer
    <3> QED
      BY <3>2, <3>3
  <2> QED
    BY <2>1, <2>2
<1>8. BundlesOK'
  BY <1>6, <1>7 DEF BundlesOK
<1> QED
  BY <1>2, <1>8 DEF OrderInv

(* Bundles of entries that keep hash and place.                            *)
LEMMA BundlesStay ==
  ASSUME IInv, OrderInv, Calls \subseteq Calls', UNCHANGED <<flight, txs>>,
         \A i \in Calls : call'[i] = call[i]
  PROVE  BundlesOK'
<1>1. flight \subseteq Calls /\ \A t \in DOMAIN txs : txs[t].ops \subseteq Calls
  BY DEF IInv, TypeOK, ChainOK
<1>2. Apart(flight)'
  BY <1>1 DEF OrderInv, BundlesOK, Apart
<1>3. ASSUME NEW t \in DOMAIN txs
      PROVE  /\ Apart(txs[t].ops)'
             /\ txs[t].status = "mined" => NoncesDiffer(txs[t].ops)'
  BY <1>1 DEF OrderInv, BundlesOK, Apart, NoncesDiffer
<1> QED
  BY <1>2, <1>3 DEF BundlesOK

LEMMA TxFields ==
  ASSUME IInv, NEW t \in DOMAIN txs, NEW st, txs' = [txs EXCEPT ![t] = [txs[t] EXCEPT !.status = st]]
  PROVE  /\ DOMAIN txs' = DOMAIN txs /\ txs'[t].status = st
         /\ \A u \in DOMAIN txs : txs'[u].ops = txs[u].ops /\ (u # t => txs'[u] = txs[u])
<1>1. txs \in Seq(Tx) /\ txs[t] \in Tx
  BY DEF IInv, TypeOK
<1> QED
  BY <1>1 DEF Tx

(* An entry is added at the end of the map, or takes the place of another. *)
LEMMA AcceptOrder ==
  ASSUME IInv, OrderInv, NEW h \in Hashes, Accept(h)
  PROVE  OrderInv'
<1> DEFINE n == Len(call) + 1
<1>0. call \in Seq(Call) /\ Calls = 1 .. Len(call) /\ Len(call) \in Nat /\ current \in [Hashes -> 0 .. Len(call)]
  BY DEF IInv, TypeOK, Calls
<1>1. PICK e : call' = Append(call, e) /\ e.slot = Slot(h)
  BY DEF Accept
<1>2. /\ Calls' = Calls \cup {n} /\ call'[n].slot = Slot(h) /\ \A i \in Calls : call'[i] = call[i]
      /\ n \notin Calls /\ n # 0
  BY <1>0, <1>1 DEF Calls
<1>3. /\ current' = [current EXCEPT ![h] = n]
      /\ UNCHANGED <<flight, txs>>
  BY DEF Accept, chainVars
<1>4. Known' = Known \cup {h} /\ current'[h] = n /\ \A g \in Known \ {h} : current'[g] = current[g]
  BY <1>0, <1>2, <1>3 DEF Known
<1>5. \A g \in Known : current[g] \in Calls
  BY CurrentCalls
<1>6. \A g \in Known \ {h} : call'[current'[g]].slot = call[current[g]].slot
  BY <1>2, <1>4, <1>5
<1>7. CASE h \in Known
  <2>1. Known' = Known /\ call'[current'[h]].slot = call[current[h]].slot
    BY <1>2, <1>4, <1>7 DEF Slot, Known
  <2>2. \A g \in Known : call'[current'[g]].slot = call[current[g]].slot
    BY <1>6, <2>1
  <2>3. SlotsOK'
    BY <2>1, <2>2 DEF OrderInv, SlotsOK
  <2> QED
    BY <2>3, BundlesStay, <1>2, <1>3 DEF OrderInv
<1>8. CASE h \notin Known
  <2>1. call'[current'[h]].slot = Cardinality(Known) + 1
    BY <1>2, <1>4, <1>8 DEF Slot, Known
  <2>2. Cardinality(Known') = Cardinality(Known) + 1 /\ Cardinality(Known) \in Nat
    BY <1>4, <1>8, CurrentCalls, FS_AddElement
  <2>3. \A g \in Known : call'[current'[g]].slot = call[current[g]].slot
    BY <1>6, <1>8
  <2>4. \A g \in Known : call'[current'[g]].slot \in 1 .. Cardinality(Known)
    BY <2>3 DEF OrderInv, SlotsOK
  <2>5. \A g \in Known' : call'[current'[g]].slot \in 1 .. Cardinality(Known')
    BY <1>4, <2>1, <2>2, <2>4
  <2>6. ASSUME NEW f \in Known', NEW g \in Known', f # g
        PROVE  call'[current'[f]].slot # call'[current'[g]].slot
    <3>1. CASE f \in Known /\ g \in Known
      BY <2>3, <2>6, <3>1 DEF OrderInv, SlotsOK
    <3>2. CASE f = h \/ g = h
      BY <1>4, <2>1, <2>2, <2>4, <2>6, <3>2
    <3> QED
      BY <1>4, <3>1, <3>2
  <2>7. SlotsOK'
    BY <2>5, <2>6 DEF SlotsOK
  <2> QED
    BY <2>7, BundlesStay, <1>2, <1>3 DEF OrderInv
<1> QED
  BY <1>7, <1>8

(* A restart keeps every entry's hash and place, and empties the map.      *)
LEMMA RestartOrder ==
  ASSUME IInv, OrderInv, Restart
  PROVE  OrderInv'
<1>3. \A i \in Calls : call'[i].hash = call[i].hash /\ call'[i].slot = call[i].slot
  BY EntriesStay DEF Next
<1>4. current' = [h \in Hashes |-> 0] /\ flight' = {} /\ txs' = txs
  BY Zenon DEF Restart
<1>5. Known' = {}
  BY <1>4 DEF Known
<1>6. SlotsOK'
  BY <1>5 DEF SlotsOK
<1>7. BundlesOK'
  <2>1. \A t \in DOMAIN txs : txs[t].ops \subseteq Calls
    BY DEF IInv, ChainOK
  <2>2. Apart(flight)'
    BY <1>4 DEF Apart
  <2>3. ASSUME NEW t \in DOMAIN txs
        PROVE  /\ Apart(txs[t].ops)'
               /\ txs[t].status = "mined" => NoncesDiffer(txs[t].ops)'
    BY <1>3, <1>4, <2>1 DEF OrderInv, BundlesOK, Apart, NoncesDiffer
  <2> QED
    BY <1>4, <2>2, <2>3 DEF BundlesOK
<1> QED
  BY <1>6, <1>7 DEF OrderInv

LEMMA OrderStep ==
  ASSUME IInv, OrderInv, [Next]_vars
  PROVE  OrderInv'
<1>1. CASE \E h \in Hashes : Accept(h)
  BY <1>1, AcceptOrder
<1>2. CASE Restart
  BY <1>2, RestartOrder
<1>3. \A t \in DOMAIN txs : txs[t].ops \subseteq Calls /\ Apart(txs[t].ops)
  BY DEF IInv, ChainOK, OrderInv, BundlesOK
<1>4. CASE \E t \in DOMAIN txs : Mine(t)
  <2>1. PICK t \in DOMAIN txs : Mine(t)
    BY <1>4
  <2>2. NoncesDiffer(txs[t].ops)
    BY <1>3, <2>1, GoesThrough DEF Mine
  <2>3. txs' = [txs EXCEPT ![t] = [txs[t] EXCEPT !.status = "mined"]] /\ UNCHANGED <<call, current, flight>>
    BY <2>1 DEF Mine, engineVars
  <2>4. \A u \in DOMAIN txs' : u \in DOMAIN txs /\ txs'[u].ops = txs[u].ops /\ (u # t => txs'[u] = txs[u])
    BY <2>3, TxFields
  <2> QED
    BY <2>2, <2>3, <2>4, EntriesStay, OrderStays
<1>5. CASE \E t \in DOMAIN txs : Revert(t) \/ Drop(t)
  <2>1. PICK t \in DOMAIN txs, status \in {"reverted", "dropped"} :
          /\ txs' = [txs EXCEPT ![t] = [txs[t] EXCEPT !.status = status]]
          /\ UNCHANGED <<call, current, flight>>
    BY <1>5 DEF Revert, Drop, engineVars
  <2>2. \A u \in DOMAIN txs' : u \in DOMAIN txs /\ txs'[u].ops = txs[u].ops
                               /\ (txs'[u].status = "mined" => txs[u].status = "mined")
    BY <2>1, TxFields
  <2> QED
    BY <2>1, <2>2, EntriesStay, OrderStays
<1>6. CASE Broadcast
  <2>1. txs' = Append(txs, [ops |-> flight, status |-> "pending"]) /\ UNCHANGED <<call, current, flight>>
    BY <1>6 DEF Broadcast
  <2>2. txs \in Seq(Tx)
    BY DEF IInv, TypeOK
  <2>3. \A u \in DOMAIN txs' : \/ u \in DOMAIN txs /\ txs'[u] = txs[u]
                               \/ txs'[u].ops = flight /\ txs'[u].status # "mined"
    BY <2>1, <2>2
  <2> QED
    BY <2>1, <2>3, EntriesStay, OrderStays
<1>7. CASE \/ SendReturns \/ WaitReturns \/ RecordNext \/ FlightFails
           \/ \E i \in Calls : Return(i)
           \/ TimerFires \/ Release \/ Stop
           \/ \E h \in Hashes : SimulationPasses(h) \/ OtherExecutes(h)
           \/ UNCHANGED vars
  <2>1. UNCHANGED <<current, txs>>
    BY <1>7 DEF SendReturns, WaitReturns, RecordNext, FlightFails, Return, TimerFires, Release, Stop,
       SimulationPasses, OtherExecutes, vars, engineVars, chainVars
  <2>2. flight' \in {flight, {}} \/ flight' \subseteq PendingIds
    BY <1>7 DEF SendReturns, WaitReturns, RecordNext, FlightFails, Return, BeginAttempt, TimerFires, Release,
       Stop, SimulationPasses, OtherExecutes, vars, engineVars
  <2> QED
    BY <2>1, <2>2, EntriesStay, OrderStays
<1> QED
  BY <1>1, <1>2, <1>4, <1>5, <1>6, <1>7 DEF Next, FlightStep, ChainStep

----------------------------------------------------------------------------
(* The questions.                                                          *)
Query ==
  [method : {"receipt", "byHash", "estimate"}, hash : Hashes, executed : Nat,
   at : {"logs", "transaction", "simulation", "code"}, tx : Nat]

(* The transaction that a query has found holds its operation.             *)
Carries(t, h) ==
  t \in DOMAIN txs /\ txs[t].status = "mined" /\ \E i \in txs[t].ops : call[i].hash = h

QueryOK ==
  query # NoQuery =>
    /\ query \in Query
    /\ query.at \in {"simulation", "code"} <=> query.method = "estimate"
    /\ query.executed <= executedAt[query.hash]
    /\ query.at = "transaction" =>
         executedAt[query.hash] # 0 /\ (query.tx = 0 \/ Carries(query.tx, query.hash))

AnswersOK == ExecutedIsFound /\ EstimateIsUsable /\ ByHashIsTheOp /\ ReceiptHasItsLogs
RpcInv == OrderInv /\ QueryOK /\ AnswersOK

(* What was mined stays so, and nothing is executed again.                 *)
LEMMA ChainStays ==
  ASSUME IInv, [Next]_vars
  PROVE  /\ \A h \in Hashes : executedAt'[h] >= executedAt[h]
         /\ \A t \in DOMAIN txs : txs[t].status = "mined" => t \in DOMAIN txs' /\ txs'[t] = txs[t]
<1>0. executedAt \in [Hashes -> Nat] /\ txs \in Seq(Tx) /\ block \in Nat
  BY DEF IInv, TypeOK
<1>1. CASE \E t \in DOMAIN txs : Mine(t)
  <2>1. PICK t \in DOMAIN txs : Mine(t)
    BY <1>1
  <2>2. \A i \in txs[t].ops : call[i].hash \in Hashes /\ executedAt[call[i].hash] = 0
    BY <2>1, NoncesAdvance
  <2>3. executedAt' = [h \in Hashes |->
                        IF \E i \in txs[t].ops : call[i].hash = h THEN block' ELSE executedAt[h]]
        /\ block' = block + 1
    BY <2>1 DEF Mine
  <2>4. txs[t].status = "pending" /\ txs' = [txs EXCEPT ![t] = [txs[t] EXCEPT !.status = "mined"]]
    BY <2>1 DEF Mine
  <2> QED
    BY <1>0, <2>2, <2>3, <2>4, TxFields
<1>2. CASE \E t \in DOMAIN txs : Revert(t) \/ Drop(t)
  <2>1. PICK t \in DOMAIN txs, status \in {"reverted", "dropped"} :
          /\ txs[t].status = "pending" /\ txs' = [txs EXCEPT ![t] = [txs[t] EXCEPT !.status = status]]
          /\ UNCHANGED executedAt
    BY <1>2 DEF Revert, Drop
  <2> QED
    BY <1>0, <2>1, TxFields
<1>3. CASE \E h \in Hashes : OtherExecutes(h)
  <2>1. PICK h \in Hashes : OtherExecutes(h)
    BY <1>3
  <2>2. /\ nonce[Ops[h].sender] = Ops[h].nonce
        /\ executedAt' = [executedAt EXCEPT ![h] = block'] /\ block' = block + 1 /\ txs' = txs
    BY <2>1 DEF OtherExecutes
  <2>3. executedAt[h] = 0
    BY <2>2, BundlerAssumption DEF IInv, ChainOK
  <2> QED
    BY <1>0, <2>2, <2>3
<1>4. CASE Broadcast
  <2>1. txs' = Append(txs, [ops |-> flight, status |-> "pending"]) /\ UNCHANGED executedAt
    BY <1>4 DEF Broadcast
  <2> QED
    BY <1>0, <2>1
<1>5. CASE UNCHANGED <<txs, executedAt>>
  BY <1>0, <1>5
<1>6. CASE \/ \E h \in Hashes : SimulationPasses(h) \/ Accept(h)
           \/ \E i \in Calls : Return(i)
           \/ TimerFires \/ SendReturns \/ WaitReturns \/ RecordNext \/ FlightFails \/ Release
           \/ Stop \/ UNCHANGED vars
  BY <1>5, <1>6 DEF SimulationPasses, Accept, Return, TimerFires, SendReturns, WaitReturns, RecordNext,
     FlightFails, Release, Stop, vars, chainVars
<1>7. CASE Restart
  <2>1. UNCHANGED <<txs, executedAt>>
    BY <1>7, Zenon DEF Restart
  <2> QED
    BY <1>5, <2>1
<1> QED
  BY <1>1, <1>2, <1>3, <1>4, <1>6, <1>7 DEF Next, FlightStep, ChainStep

LEMMA QueryStays ==
  ASSUME IInv, QueryOK, [Next]_vars, query' \in {query, NoQuery}
  PROVE  QueryOK'
<1> SUFFICES ASSUME query # NoQuery, query' = query PROVE QueryOK'
  BY DEF QueryOK
<1>1. /\ query \in Query
      /\ query.at \in {"simulation", "code"} <=> query.method = "estimate"
      /\ query.executed <= executedAt[query.hash]
      /\ query.at = "transaction" =>
         executedAt[query.hash] # 0 /\ (query.tx = 0 \/ Carries(query.tx, query.hash))
  BY DEF QueryOK
<1>2. query.hash \in Hashes /\ query.executed \in Nat
  BY <1>1 DEF Query
<1>3. query.executed <= executedAt'[query.hash]
  <2>1. executedAt[query.hash] \in Nat /\ executedAt'[query.hash] >= executedAt[query.hash]
    BY <1>2, ChainStays DEF IInv, TypeOK
  <2>2. executedAt'[query.hash] \in Nat
    BY <1>2, Inductive DEF IInv, TypeOK
  <2> QED
    BY <1>1, <1>2, <2>1, <2>2
<1>4. ASSUME NEW t, NEW h, Carries(t, h)
      PROVE  t \in DOMAIN txs' /\ txs'[t].status = "mined" /\ \E i \in txs'[t].ops : call'[i].hash = h
  <2>1. txs[t].ops \subseteq Calls /\ txs'[t] = txs[t] /\ t \in DOMAIN txs'
    BY <1>4, ChainStays DEF Carries, IInv, ChainOK
  <2> QED
    BY <1>4, <2>1, EntriesStay DEF Carries
<1>5. query.at = "transaction" =>
        executedAt'[query.hash] # 0 /\ (query.tx = 0 \/ Carries(query.tx, query.hash)')
  <2>1. executedAt[query.hash] # 0 => executedAt'[query.hash] # 0
    BY <1>2, ChainStays DEF IInv, TypeOK
  <2> QED
    BY <1>1, <1>4, <2>1 DEF Carries
<1> QED
  BY <1>1, <1>3, <1>5 DEF QueryOK

(* The bundler's own transaction, if there is one.                         *)
LEMMA TxFound ==
  ASSUME IInv, NEW h
  PROVE  TxOf(h) \in Nat /\ (TxOf(h) = 0 \/ Carries(TxOf(h), h))
<1> DEFINE own == {t \in DOMAIN txs : txs[t].status = "mined" /\ \E i \in txs[t].ops : call[i].hash = h}
<1>1. \A t \in own : t \in Nat /\ Carries(t, h)
  BY DEF Carries, IInv, TypeOK
<1>2. TxOf(h) = IF own = {} THEN 0 ELSE CHOOSE t \in own : TRUE
  BY DEF TxOf
<1> HIDE DEF own
<1> QED
  BY <1>1, <1>2

----------------------------------------------------------------------------
(* Packing.                                                                *)

LEMMA HeadTail ==
  ASSUME NEW s \in Seq(Nat), Len(s) >= 1
  PROVE  /\ s[1] \in Nat /\ Tail(s) \in Seq(Nat)
         /\ <<s[1]>> \o Tail(s) = s
<1>1. Len(s) \in Nat /\ s # <<>>
  BY LenProperties
<1>2. 1 \in 1 .. Len(s) /\ Len(s) \in 1 .. Len(s)
  BY <1>1
<1>3. s = <<s[1]>> \o SubSeq(s, 2, Len(s))
  BY <1>2, SubSeqFull, SubSeqRecursiveFirst
<1>4. Tail(s) = SubSeq(s, 2, Len(s))
  BY <1>1, TailIsSubSeq
<1> QED
  BY <1>1, <1>2, <1>3, <1>4, ElementOfSeq, HeadTailProperties

LEMMA Associative == \A a, b, c \in Seq(Nat) : (a \o b) \o c = a \o (b \o c)
<1> TAKE a, b, c \in Seq(Nat)
<1> QED
  BY ConcatAssociative, SMT

(* The three words of a paymaster, and its data.                           *)
LEMMA ThreeAndRest ==
  ASSUME NEW s \in Seq(Nat), Len(s) >= 3
  PROVE  /\ s[1] \in Nat /\ s[2] \in Nat /\ s[3] \in Nat /\ SubSeq(s, 4, Len(s)) \in Seq(Nat)
         /\ <<s[1]>> \o <<s[2]>> \o <<s[3]>> \o SubSeq(s, 4, Len(s)) = s
<1> DEFINE n == Len(s)
           Rest(k) == SubSeq(s, k, n)
<1>1. n \in Nat
  BY LenProperties
<1>2. n >= 3
  OBVIOUS
<1> HIDE DEF n
<1>3. 1 \in 1 .. n /\ 2 \in 1 .. n /\ 3 \in 1 .. n /\ n \in 1 .. n /\ n \in 2 .. n /\ n \in 3 .. n
  BY <1>1, <1>2
<1>4. s[1] \in Nat /\ s[2] \in Nat /\ s[3] \in Nat
  BY <1>3, ElementOfSeq DEF n
<1>5. \A i \in 1 .. n : s[i] \in Nat
  BY ElementOfSeq DEF n
<1>6. Rest(3) \in Seq(Nat) /\ Rest(4) \in Seq(Nat)
  <2>1. \A i \in 3 .. n : s[i] \in Nat
    BY <1>1, <1>5
  <2>2. \A i \in 4 .. n : s[i] \in Nat
    BY <1>1, <1>5
  <2> QED
    BY <1>1, <2>1, <2>2, SubSeqProperties
<1>7. s = Rest(1)
  BY SubSeqFull DEF n
<1>8. Rest(1) = <<s[1]>> \o Rest(2)
  BY <1>3, SubSeqRecursiveFirst DEF n
<1>9. Rest(2) = <<s[2]>> \o Rest(3)
  BY <1>3, SubSeqRecursiveFirst DEF n
<1>10. Rest(3) = <<s[3]>> \o Rest(4)
  <2>1. SubSeq(s, 3, n) = <<s[3]>> \o SubSeq(s, 3 + 1, n)
    BY <1>3, SubSeqRecursiveFirst, Zenon DEF n
  <2>2. 3 + 1 = 4
    OBVIOUS
  <2> QED
    BY <2>1, <2>2, Zenon
<1> HIDE DEF Rest
<1>11. <<s[1]>> \in Seq(Nat) /\ <<s[2]>> \in Seq(Nat) /\ <<s[3]>> \in Seq(Nat)
  BY <1>4
<1> DEFINE x == <<s[1]>>
           y == <<s[2]>>
           z == <<s[3]>>
<1> HIDE DEF x, y, z
<1>12. x \in Seq(Nat) /\ y \in Seq(Nat) /\ z \in Seq(Nat)
  BY <1>11 DEF x, y, z
<1>13. x \o y \in Seq(Nat)
  BY <1>12, ConcatProperties
<1>14. x \o y \o z \o Rest(4) = x \o y \o Rest(3)
  <2> DEFINE xy == x \o y
  <2> HIDE DEF xy
  <2>1. xy \in Seq(Nat)
    BY <1>13 DEF xy
  <2>2. (xy \o z) \o Rest(4) = xy \o (z \o Rest(4))
    BY <1>6, <1>12, <2>1, Associative
  <2> QED
    BY <1>10, <2>2 DEF xy, z
<1>15. x \o y \o Rest(3) = x \o Rest(2)
  <2> DEFINE r == Rest(3)
  <2>1. r \in Seq(Nat)
    BY <1>6
  <2> HIDE DEF r
  <2>2. x \in Seq(Nat) /\ y \in Seq(Nat)
    BY <1>12
  <2>3. (x \o y) \o r = x \o (y \o r)
    BY <2>1, <2>2, ConcatAssociative, SMTT(30)
  <2> QED
    BY <1>9, <2>3 DEF y, r
<1>16. x \o y \o z \o Rest(4) = s
  BY <1>7, <1>8, <1>14, <1>15 DEF x
<1> QED
  BY <1>4, <1>6, <1>16 DEF x, y, z, Rest, n

(* A field that is given has one value.                                    *)
LEMMA FieldIs ==
  ASSUME NEW S, NEW f, IsField(f, S), f # Undefined
  PROVE  f[1] \in S /\ f = <<f[1]>>
<1>1. f \in Seq(S) /\ Len(f) <= 1 /\ Len(f) \in Nat
  BY LenProperties DEF IsField
<1>2. Len(f) # 0
  BY <1>1, EmptySeq DEF Undefined
<1>3. Len(f) = 1
  BY <1>1, <1>2
<1>4. 1 \in 1 .. Len(f)
  BY <1>3
<1>5. f[1] \in S
  BY <1>1, <1>4, ElementOfSeq
<1>6. <<f[1]>> \in Seq(S) /\ Len(<<f[1]>>) = 1 /\ <<f[1]>>[1] = f[1]
  BY <1>5
<1> DEFINE g == <<f[1]>>
<1> HIDE DEF g
<1>7. g \in Seq(S) /\ Len(g) = 1 /\ g[1] = f[1]
  BY <1>6 DEF g
<1>8. \A i \in 1 .. Len(f) : f[i] = g[i]
  BY <1>3, <1>7
<1>9. f = g
  BY <1>1, <1>3, <1>7, <1>8, SeqEqual
<1> QED
  BY <1>5, <1>9 DEF g

LEMMA Halves ==
  ASSUME NEW high \in Nat, NEW low \in 0 .. Pad - 1
  PROVE  Pair(high, low) \div Pad = high /\ Pair(high, low) % Pad = low
BY RpcAssumption DEF Pair

(* What is unpacked and packed again is the same words, whatever has been  *)
(* packed.                                                                 *)
LEMMA Repacked ==
  ASSUME NEW p, p.initCode \in Seq(Nat), p.paymasterAndData \in Seq(Nat),
         p.paymasterAndData = <<>> \/ (Len(p.paymasterAndData) >= 3 /\ p.paymasterAndData[1] # AddressZero)
  PROVE  LET q == packUserOpV07(unpackUserOpV07(p))
         IN  /\ q.initCode = p.initCode
             /\ q.paymasterAndData = p.paymasterAndData
<1> DEFINE ic == p.initCode
           pm == p.paymasterAndData
           u == unpackUserOpV07(p)
<1>1. packUserOpV07(u).initCode = ic
  <2>1. CASE Len(ic) >= 1
    <3>1. u.factory = <<ic[1]>> /\ u.factoryData = <<Tail(ic)>>
      BY <2>1 DEF unpackUserOpV07, Unpacked
    <3> HIDE DEF u
    <3>2. u.factory # Undefined /\ Given(u.factoryData, <<>>) = Tail(ic)
      BY <3>1 DEF Given, Undefined
    <3>3. packUserOpV07(u).initCode = u.factory \o Given(u.factoryData, <<>>)
      BY <3>2 DEF packUserOpV07
    <3> HIDE DEF ic
    <3> QED
      BY <2>1, <3>1, <3>2, <3>3, HeadTail DEF ic
  <2>2. CASE ~(Len(ic) >= 1)
    <3>1. u.factory = Undefined
      BY <2>2 DEF unpackUserOpV07, Unpacked
    <3> HIDE DEF u
    <3>2. packUserOpV07(u).initCode = <<>>
      BY <3>1 DEF packUserOpV07
    <3>3. ic = <<>>
      BY <2>2, LenProperties, EmptySeq
    <3> QED
      BY <3>2, <3>3
  <2> QED
    BY <2>1, <2>2
<1>2. packUserOpV07(u).paymasterAndData = pm
  <2>1. CASE Len(pm) >= 3
    <3> DEFINE rest == SubSeq(pm, 4, Len(pm))
    <3>1. /\ u.paymaster = <<pm[1]>> /\ u.paymasterVerificationGasLimit = <<pm[2]>>
          /\ u.paymasterPostOpGasLimit = <<pm[3]>> /\ u.paymasterData = <<rest>>
      BY <2>1 DEF unpackUserOpV07, Unpacked
    <3>2. pm[1] # AddressZero
      BY <2>1, EmptySeq
    <3> HIDE DEF u, rest, pm
    <3>3. u.paymaster \notin {Undefined, <<AddressZero>>}
      BY <3>1, <3>2 DEF Undefined
    <3>4. /\ Given(u.paymasterVerificationGasLimit, 0) = pm[2] /\ Given(u.paymasterPostOpGasLimit, 0) = pm[3]
          /\ Given(u.paymasterData, <<>>) = rest
      BY <3>1 DEF Given, Undefined
    <3>5. packUserOpV07(u).paymasterAndData = <<pm[1]>> \o <<pm[2]>> \o <<pm[3]>> \o rest
      BY <3>1, <3>3, <3>4 DEF packUserOpV07
    <3> QED
      BY <2>1, <3>5, ThreeAndRest DEF rest, pm
  <2>2. CASE pm = <<>>
    <3>1. ~(Len(pm) >= 3)
      BY <2>2, EmptySeq
    <3>2. u.paymaster = Undefined
      BY <3>1 DEF unpackUserOpV07, Unpacked
    <3> HIDE DEF u
    <3> QED
      BY <2>2, <3>2 DEF packUserOpV07
  <2> QED
    BY <2>1, <2>2
<1> QED
  BY <1>1, <1>2

(* At least n words, of which the first is v.                              *)
Starts(s, v, n) == s \in Seq(Nat) /\ Len(s) >= n /\ s[1] = v

LEMMA Joined ==
  ASSUME NEW s, NEW v, NEW n \in Nat \ {0}, Starts(s, v, n),
         NEW t \in Seq(Nat), NEW m \in Nat, Len(t) >= m
  PROVE  Starts(s \o t, v, n + m)
<1>0. s \in Seq(Nat) /\ Len(s) >= n /\ s[1] = v
  BY DEF Starts
<1>1. /\ s \o t \in Seq(Nat) /\ Len(s \o t) = Len(s) + Len(t)
      /\ \A i \in 1 .. Len(s) + Len(t) : (s \o t)[i] = IF i <= Len(s) THEN s[i] ELSE t[i - Len(s)]
  BY <1>0, ConcatProperties
<1>2. Len(s) \in Nat /\ Len(t) \in Nat
  BY <1>0, LenProperties
<1> DEFINE r == s \o t
           j == Len(s)
           k == Len(t)
<1>3. /\ j \in Nat /\ k \in Nat /\ j >= n /\ k >= m
      /\ \A i \in 1 .. j + k : r[i] = IF i <= j THEN s[i] ELSE t[i - j]
      /\ r \in Seq(Nat) /\ Len(r) = j + k
  BY <1>0, <1>1, <1>2
<1> HIDE DEF r, j, k
<1>4. r[1] = v
  BY <1>0, <1>3
<1>5. Starts(r, v, n + m)
  BY <1>3, <1>4 DEF Starts
<1> QED
  BY <1>5 DEF r

(* What an operation is packed to.                                         *)
LEMMA Packed ==
  ASSUME NEW o, PackableOp(o)
  PROVE  LET p == packUserOpV07(o)
             pm == p.paymasterAndData
         IN  /\ p.initCode \in Seq(Nat) /\ pm \in Seq(Nat)
             /\ pm = <<>> \/ (Len(pm) >= 3 /\ pm[1] # AddressZero)
<1> DEFINE p == packUserOpV07(o)
<1>0. /\ IsField(o.factory, Nat) /\ IsField(o.paymaster, Nat)
      /\ IsField(o.paymasterVerificationGasLimit, Nat) /\ IsField(o.paymasterPostOpGasLimit, Nat)
      /\ IsField(o.factoryData, Seq(Nat)) /\ IsField(o.paymasterData, Seq(Nat))
      /\ o.factory = Undefined <=> o.factoryData = Undefined
  BY DEF PackableOp
<1>1. p.initCode \in Seq(Nat)
  <2>1. Given(o.factoryData, <<>>) \in Seq(Nat)
    BY <1>0, FieldIs, EmptySeq DEF Given
  <2>2. o.factory \in Seq(Nat)
    BY <1>0 DEF IsField
  <2> DEFINE d == Given(o.factoryData, <<>>)
  <2> HIDE DEF d
  <2>3. o.factory \o d \in Seq(Nat)
    BY <2>1, <2>2, ConcatProperties DEF d
  <2>4. p.initCode = IF o.factory = Undefined THEN <<>> ELSE o.factory \o d
    BY DEF packUserOpV07, d
  <2> QED
    BY <2>3, <2>4, EmptySeq
<1>2. p.paymasterAndData \in Seq(Nat)
      /\ (p.paymasterAndData = <<>> \/ (Len(p.paymasterAndData) >= 3 /\ p.paymasterAndData[1] # AddressZero))
  <2>1. CASE o.paymaster \in {Undefined, <<AddressZero>>}
    <3>1. p.paymasterAndData = <<>>
      BY <2>1 DEF packUserOpV07
    <3> QED
      BY <3>1, EmptySeq
  <2>2. CASE o.paymaster \notin {Undefined, <<AddressZero>>}
    <3> DEFINE x == o.paymaster
               y == <<Given(o.paymasterVerificationGasLimit, 0)>>
               z == <<Given(o.paymasterPostOpGasLimit, 0)>>
               d == Given(o.paymasterData, <<>>)
    <3>1. x \in Seq(Nat) /\ Len(x) = 1 /\ x[1] # AddressZero
      <4>1. x = <<x[1]>> /\ x[1] \in Nat
        BY <1>0, <2>2, FieldIs
      <4>2. x[1] # AddressZero
        BY <2>2, <4>1
      <4>3. <<x[1]>> \in Seq(Nat) /\ Len(<<x[1]>>) = 1
        BY <4>1
      <4> QED
        BY <4>1, <4>2, <4>3
    <3>2. Given(o.paymasterVerificationGasLimit, 0) \in Nat /\ Given(o.paymasterPostOpGasLimit, 0) \in Nat
      BY <1>0, FieldIs DEF Given
    <3>3. y \in Seq(Nat) /\ z \in Seq(Nat) /\ Len(y) = 1 /\ Len(z) = 1
      BY <3>2
    <3>4. d \in Seq(Nat)
      BY <1>0, FieldIs, EmptySeq DEF Given
    <3>5. p.paymasterAndData = x \o y \o z \o d
      BY <2>2 DEF packUserOpV07
    <3>6. Starts(x, x[1], 1)
      BY <3>1 DEF Starts
    <3>7. Len(y) >= 1 /\ Len(z) >= 1 /\ Len(d) >= 0
      BY <3>3, <3>4, LenProperties
    <3> HIDE DEF x, y, z, d, p
    <3>8. Starts(x \o y, x[1], 1 + 1)
      BY <3>3, <3>6, <3>7, Joined
    <3>9. Starts(x \o y \o z, x[1], 2 + 1)
      BY <3>3, <3>7, <3>8, Joined
    <3>10. Starts(x \o y \o z \o d, x[1], 3 + 0)
      BY <3>4, <3>7, <3>9, Joined
    <3> QED
      BY <3>1, <3>5, <3>10 DEF Starts
  <2> QED
    BY <2>1, <2>2
<1> QED
  BY <1>1, <1>2

(* What is packed twice, having been unpacked, is packed as it was.        *)
LEMMA RoundTrip ==
  ASSUME NEW o, PackableOp(o)
  PROVE  packUserOpV07(unpackUserOpV07(packUserOpV07(o))) = packUserOpV07(o)
<1> DEFINE p == packUserOpV07(o)
           u == unpackUserOpV07(p)
           q == packUserOpV07(u)
<1>1. q.initCode = p.initCode /\ q.paymasterAndData = p.paymasterAndData
  <2> DEFINE pk == p
  <2> HIDE DEF p
  <2>1. p.initCode \in Seq(Nat) /\ p.paymasterAndData \in Seq(Nat)
        /\ (p.paymasterAndData = <<>>
              \/ (Len(p.paymasterAndData) >= 3 /\ p.paymasterAndData[1] # AddressZero))
    BY Packed DEF p
  <2> QED
    BY <2>1, Repacked
<1>2. /\ u.sender = p.sender /\ u.nonce = p.nonce /\ u.preVerificationGas = p.preVerificationGas
      /\ u.verificationGasLimit = p.accountGasLimits \div Pad /\ u.callGasLimit = p.accountGasLimits % Pad
      /\ u.maxPriorityFeePerGas = p.gasFees \div Pad /\ u.maxFeePerGas = p.gasFees % Pad
  BY DEF unpackUserOpV07, Unpacked
<1>3. /\ p.accountGasLimits = Pair(o.verificationGasLimit, o.callGasLimit)
      /\ p.gasFees = Pair(o.maxPriorityFeePerGas, o.maxFeePerGas)
  BY DEF packUserOpV07
<1> DEFINE R(a) ==
      [sender |-> a.sender, nonce |-> a.nonce, initCode |-> a.initCode,
       accountGasLimits |-> a.accountGasLimits, preVerificationGas |-> a.preVerificationGas,
       gasFees |-> a.gasFees, paymasterAndData |-> a.paymasterAndData]
<1>4. p = R(p)
  BY DEF packUserOpV07
<1>5. q = R(q)
  BY DEF packUserOpV07
<1>6. /\ q.sender = u.sender /\ q.nonce = u.nonce /\ q.preVerificationGas = u.preVerificationGas
      /\ q.accountGasLimits = Pair(u.verificationGasLimit, u.callGasLimit)
      /\ q.gasFees = Pair(u.maxPriorityFeePerGas, u.maxFeePerGas)
  BY DEF packUserOpV07
<1> HIDE DEF p, u, q
<1>7. /\ o.verificationGasLimit \in Nat /\ o.callGasLimit \in 0 .. Pad - 1
      /\ o.maxPriorityFeePerGas \in Nat /\ o.maxFeePerGas \in 0 .. Pad - 1
  BY DEF PackableOp
<1>8. q.accountGasLimits = p.accountGasLimits
  BY <1>2, <1>3, <1>6, <1>7, Halves
<1>9. q.gasFees = p.gasFees
  BY <1>2, <1>3, <1>6, <1>7, Halves
<1>10. q = p
  BY <1>1, <1>2, <1>4, <1>5, <1>6, <1>8, <1>9
<1> QED
  BY <1>10 DEF p, q, u

LEMMA Two == ASSUME NEW a \in Nat, NEW b \in Nat PROVE <<a>> \o <<b>> = <<a, b>>
<1> DEFINE x == <<a>>
           y == <<b>>
           z == <<a, b>>
           r == x \o y
<1>1. /\ x \in Seq(Nat) /\ y \in Seq(Nat) /\ z \in Seq(Nat)
      /\ Len(x) = 1 /\ Len(y) = 1 /\ Len(z) = 2
      /\ x[1] = a /\ y[1] = b /\ z[1] = a /\ z[2] = b
  OBVIOUS
<1> HIDE DEF x, y, z
<1>2. /\ r \in Seq(Nat) /\ Len(r) = Len(x) + Len(y)
      /\ \A i \in 1 .. Len(x) + Len(y) : r[i] = IF i <= Len(x) THEN x[i] ELSE y[i - Len(x)]
  BY <1>1, ConcatProperties, Zenon
<1> HIDE DEF r
<1>3. Len(r) = 2 /\ r[1] = a /\ r[2] = b
  BY <1>1, <1>2
<1>4. \A i \in 1 .. Len(r) : r[i] = z[i]
  <2>1. \A i \in 1 .. 2 : i = 1 \/ i = 2
    OBVIOUS
  <2> QED
    BY <1>1, <1>3, <2>1
<1>5. r = z
  BY <1>1, <1>2, <1>3, <1>4, SeqEqual, Zenon
<1> QED
  BY <1>5 DEF r, x, y, z

(* The page packs as the bundler does.                                     *)
LEMMA PagePacksSo ==
  ASSUME NEW o, PackableOp(o)
  PROVE  packUserOpV07(o) = buildPackedUserOpV07(o)
<1> DEFINE x == o.paymaster
           a == Given(o.paymasterVerificationGasLimit, 0)
           b == Given(o.paymasterPostOpGasLimit, 0)
<1>1. x \in Seq(Nat) /\ a \in Nat /\ b \in Nat
  <2>1. /\ IsField(o.paymaster, Nat) /\ IsField(o.paymasterVerificationGasLimit, Nat)
        /\ IsField(o.paymasterPostOpGasLimit, Nat)
    BY DEF PackableOp
  <2> QED
    BY <2>1, FieldIs DEF IsField, Given
<1>2. <<a>> \o <<b>> = <<a, b>>
  BY <1>1, Two
<1>3. (x \o <<a>>) \o <<b>> = x \o <<a, b>>
  <2> DEFINE y == <<a>>
             z == <<b>>
  <2>1. y \in Seq(Nat) /\ z \in Seq(Nat)
    BY <1>1
  <2> HIDE DEF x, y, z
  <2>2. (x \o y) \o z = x \o (y \o z)
    BY <1>1, <2>1, ConcatAssociative, SMTT(30)
  <2> QED
    BY <1>2, <2>2 DEF y, z
<1> HIDE DEF a, b
<1> QED
  BY <1>3 DEF packUserOpV07, buildPackedUserOpV07, a, b

(* The operations of a transaction that holds h: h is in one place only,   *)
(* and no other has its sender and nonce.                                  *)
HoldsOnce(ops, n, i, h) ==
  /\ ops \in [1 .. n -> Hashes] /\ ops[i] = h
  /\ \A k \in 1 .. n :
       Ops[ops[k]].sender = Ops[h].sender /\ Ops[ops[k]].nonce = Ops[h].nonce => k = i

LEMMA OpsAre ==
  ASSUME IInv, OrderInv, NEW h \in Hashes, NEW t, t = 0 \/ Carries(t, h)
  PROVE  \E n \in Nat : \E i \in 1 .. n : HoldsOnce(OpsIn(t, h), n, i, h)
<1> DEFINE ops == OpsIn(t, h)
<1>1. CASE t = 0
  <2>1. ops = [k \in 1 .. 1 |-> h]
    BY <1>1 DEF OpsIn
  <2>2. 1 \in 1 .. 1 /\ \A k \in 1 .. 1 : k = 1
    OBVIOUS
  <2> HIDE DEF ops
  <2>3. ops \in [1 .. 1 -> Hashes] /\ ops[1] = h
    BY <2>1, <2>2
  <2>4. HoldsOnce(ops, 1, 1, h)
    BY <2>2, <2>3 DEF HoldsOnce
  <2> QED
    BY <2>2, <2>4 DEF ops
<1>2. CASE t # 0
  <2> DEFINE S == txs[t].ops
             n == Cardinality(S)
             order == InOrder(S)
  <2>1. Carries(t, h)
    BY <1>2
  <2>2. S \in SUBSET Calls /\ Apart(S) /\ NoncesDiffer(S)
    BY <2>1 DEF Carries, IInv, ChainOK, OrderInv, BundlesOK
  <2>3. PICK e \in S : call[e].hash = h
    BY <2>1 DEF Carries
  <2>4. ops = [k \in 1 .. n |-> call[order[k]].hash]
    BY <1>2 DEF OpsIn
  <2>5. /\ n \in Nat /\ (\A k \in 1 .. n : order[k] \in S) /\ (\E k \in 1 .. n : order[k] = e)
        /\ \A k, l \in 1 .. n : order[k] = order[l] => k = l
    BY <2>2, <2>3, Sorted
  <2> HIDE DEF S, n, ops, order
  <2>6. PICK i \in 1 .. n : order[i] = e
    BY <2>5
  <2>7. ops \in [1 .. n -> Hashes] /\ ops[i] = h
    BY <2>2, <2>3, <2>4, <2>5, <2>6, Times
  <2>8. ASSUME NEW k \in 1 .. n, Ops[ops[k]].sender = Ops[h].sender, Ops[ops[k]].nonce = Ops[h].nonce
        PROVE  k = i
    <3>1. order[k] \in S /\ ops[k] = call[order[k]].hash
      BY <2>4, <2>5
    <3>2. order[k] = e
      BY <2>2, <2>3, <2>8, <3>1 DEF NoncesDiffer
    <3> QED
      BY <2>5, <2>6, <3>2
  <2> QED
    BY <2>5, <2>7, <2>8 DEF ops, HoldsOnce
<1> QED
  BY <1>1, <1>2

(* The operation of a transaction that has the event's sender and nonce is *)
(* the one that was asked for.                                             *)
LEMMA FoundInTx ==
  ASSUME IInv, OrderInv, NEW h \in Hashes, query.hash = h, query.tx = 0 \/ Carries(query.tx, h)
  PROVE  OpInTx = unpackUserOpV07(packUserOpV07(UserOp[h]))
<1> DEFINE ops == OpsIn(query.tx, h)
           Is(k) == /\ UserOp[ops[k]].sender = UserOp[h].sender
                    /\ UserOp[ops[k]].nonce = UserOp[h].nonce
           chosen == CHOOSE k \in DOMAIN ops : Is(k)
<1>1. (\E k \in DOMAIN ops : Is(k)) /\ (\A k \in DOMAIN ops : Is(k) => ops[k] = h)
  <2>0. PICK n \in Nat : \E i \in 1 .. n : HoldsOnce(ops, n, i, h)
    BY OpsAre, Zenon
  <2>1. PICK i \in 1 .. n : HoldsOnce(ops, n, i, h)
    BY <2>0
  <2> USE DEF HoldsOnce
  <2> HIDE DEF ops
  <2>2. \A k \in 1 .. n : /\ UserOp[ops[k]].sender = Ops[ops[k]].sender
                         /\ UserOp[ops[k]].nonce = Ops[ops[k]].nonce
    BY <2>1, RpcAssumption
  <2>3. UserOp[h].sender = Ops[h].sender /\ UserOp[h].nonce = Ops[h].nonce
    BY RpcAssumption
  <2>4. \A k \in DOMAIN ops : Is(k) => k = i
    BY <2>1, <2>2, <2>3
  <2> QED
    BY <2>1, <2>4
<1>2. OpInTx = unpackUserOpV07(packUserOpV07(UserOp[ops[chosen]]))
  BY DEF OpInTx
<1> HIDE DEF ops
<1>3. ops[chosen] = h
  BY <1>1
<1> QED
  BY <1>2, <1>3

(* What a question by hash is answered with, from either source.           *)
LEMMA AnswersAreSigned ==
  ASSUME NEW h \in Hashes
  PROVE  /\ packUserOpV07(UserOp[h]) = buildPackedUserOpV07(UserOp[h])
         /\ packUserOpV07(unpackUserOpV07(packUserOpV07(UserOp[h]))) = buildPackedUserOpV07(UserOp[h])
<1>1. PackableOp(UserOp[h])
  BY RpcAssumption
<1> QED
  BY <1>1, PagePacksSo, RoundTrip

----------------------------------------------------------------------------
(* Receipts.                                                               *)

(* The walk over the logs of a transaction.                                *)
Looks(h, logs, n, f) ==
  f = [k \in 0 .. n |-> IF k = 0 THEN [start |-> 0, end |-> 0] ELSE Look(h, logs, f[k - 1], k)]

LEMMA FilterWalks ==
  ASSUME NEW h, NEW logs, Len(logs) \in Nat
  PROVE  \E f : /\ f[0] = [start |-> 0, end |-> 0]
                /\ \A k \in 0 .. Len(logs) - 1 : f[k + 1] = Look(h, logs, f[k], k + 1)
                /\ Filter(h, logs) = IF f[Len(logs)].end = 0 THEN logs
                                     ELSE SubSeq(logs, f[Len(logs)].start + 1, f[Len(logs)].end - 1)
<1> DEFINE N == {n \in Nat : \E f : Looks(h, logs, n, f)}
           None == [start |-> 0, end |-> 0]
<1> HIDE DEF None
<1>1. 0 \in N
  <2> DEFINE f == [k \in 0 .. 0 |-> None]
  <2>1. Looks(h, logs, 0, f)
    BY DEF Looks, None
  <2> HIDE DEF f
  <2> QED
    BY <2>1
<1>2. ASSUME NEW n \in Nat, n \in N PROVE n + 1 \in N
  <2>1. PICK f : Looks(h, logs, n, f)
    BY <1>2
  <2> DEFINE g == [k \in 0 .. n + 1 |-> IF k = 0 THEN None ELSE Look(h, logs, f[k - 1], k)]
  <2>2. ASSUME NEW k \in 0 .. n PROVE g[k] = f[k]
    <3>1. f[k] = IF k = 0 THEN None ELSE Look(h, logs, f[k - 1], k)
      BY <2>1 DEF Looks, None
    <3> QED
      BY <3>1
  <2>3. ASSUME NEW k \in 0 .. n + 1, k # 0 PROVE g[k - 1] = f[k - 1]
    <3>1. k - 1 \in 0 .. n
      BY <2>3
    <3> HIDE DEF g
    <3> QED
      BY <2>2, <3>1
  <2>4. \A k \in 0 .. n + 1 : g[k] = IF k = 0 THEN None ELSE Look(h, logs, g[k - 1], k)
    BY <2>3
  <2>5. g = [k \in 0 .. n + 1 |-> g[k]]
    OBVIOUS
  <2> HIDE DEF g
  <2>6. g = [k \in 0 .. n + 1 |-> IF k = 0 THEN None ELSE Look(h, logs, g[k - 1], k)]
    BY <2>4, <2>5
  <2>7. Looks(h, logs, n + 1, g)
    BY <2>6 DEF Looks, None
  <2> QED
    BY <2>7
<1>3. Nat \subseteq N
  <2> HIDE DEF N
  <2> QED
    BY <1>1, <1>2, UpToAll
<1> DEFINE L == Len(logs)
           f == CHOOSE f : Looks(h, logs, L, f)
<1>4. Looks(h, logs, L, f)
  BY <1>3
<1>5. Filter(h, logs) = IF f[L].end = 0 THEN logs ELSE SubSeq(logs, f[L].start + 1, f[L].end - 1)
  BY DEF Filter, Looks
<1> HIDE DEF f
<1>6. \A k \in 0 .. L : f[k] = IF k = 0 THEN None ELSE Look(h, logs, f[k - 1], k)
  BY <1>4 DEF Looks, None
<1>7. f[0] = None
  BY <1>6
<1>8. ASSUME NEW k \in 0 .. L - 1 PROVE f[k + 1] = Look(h, logs, f[k], k + 1)
  <2>1. k + 1 \in 0 .. L /\ k + 1 # 0 /\ (k + 1) - 1 = k
    OBVIOUS
  <2> QED
    BY <1>6, <2>1
<1> QED
  BY <1>5, <1>7, <1>8 DEF None

(* The bounds that the walk finds.                                         *)
Follows(h, log) == log[1] # "before" /\ (log[1] = "event" => log[2] # h)

Bounds(h, logs, b, e) ==
  /\ Len(logs) \in Nat /\ b \in 1 .. Len(logs) /\ e \in b + 1 .. Len(logs)
  /\ \A k \in 1 .. b - 1 : logs[k][1] = "deployed"
  /\ logs[b][1] = "before"
  /\ \A k \in b + 1 .. Len(logs) : logs[k][1] # "before"
  /\ logs[e][1] = "event" /\ logs[e][2] = h
  /\ \A k \in e + 1 .. Len(logs) : Follows(h, logs[k])

LEMMA FilterFinds ==
  ASSUME NEW h, NEW logs, NEW b, NEW e, Bounds(h, logs, b, e)
  PROVE  Filter(h, logs) = SubSeq(logs, b + 1, e - 1)
<1> USE DEF Bounds
<1> DEFINE L == Len(logs)
           At(s, n) == [start |-> s, end |-> n]
<1>1. PICK f : /\ f[0] = At(0, 0)
               /\ \A k \in 0 .. L - 1 : f[k + 1] = Look(h, logs, f[k], k + 1)
               /\ Filter(h, logs) = IF f[L].end = 0 THEN logs ELSE SubSeq(logs, f[L].start + 1, f[L].end - 1)
  BY FilterWalks
<1>2. f[b - 1] = At(0, 0)
  <2> DEFINE S == {k \in 0 .. b - 1 : f[k] = At(0, 0)}
             z == 0
  <2>1. z \in S /\ z \in Int /\ b - 1 \in Int
    BY <1>1
  <2>2. ASSUME NEW k \in z .. (b - 1) - 1, k \in S PROVE k + 1 \in S
    <3>1. k \in 0 .. L - 1 /\ k + 1 \in 1 .. b - 1
      OBVIOUS
    <3>2. Look(h, logs, f[k], k + 1) = f[k]
      BY <3>1 DEF Look
    <3> QED
      BY <1>1, <2>2, <3>1, <3>2
  <2> HIDE DEF S, z
  <2>3. z .. b - 1 \subseteq S
    BY <2>1, <2>2, StepByStep
  <2>4. b - 1 \in S
    BY <2>3 DEF z
  <2> QED
    BY <2>4 DEF S
<1>3. f[b] = At(b, b)
  <2> DEFINE k == b - 1
  <2>1. k \in 0 .. L - 1 /\ k + 1 = b
    OBVIOUS
  <2> HIDE DEF k
  <2>2. f[k + 1] = Look(h, logs, f[k], k + 1)
    BY <1>1, <2>1
  <2>3. Look(h, logs, f[k], b) = At(b, b)
    BY DEF Look
  <2> QED
    BY <2>1, <2>2, <2>3
<1>4. \A k \in b .. L : \E n \in 1 .. L : f[k] = At(b, n)
  <2> DEFINE S == {k \in b .. L : \E n \in 1 .. L : f[k] = At(b, n)}
  <2>1. b \in S /\ b \in Int /\ L \in Int
    BY <1>3
  <2>2. ASSUME NEW k \in b .. L - 1, k \in S PROVE k + 1 \in S
    <3>1. PICK n \in 1 .. L : f[k] = At(b, n)
      BY <2>2
    <3>2. k \in 0 .. L - 1 /\ k + 1 \in b + 1 .. L
      OBVIOUS
    <3>3. f[k + 1] = Look(h, logs, At(b, n), k + 1)
      BY <1>1, <3>1, <3>2
    <3>4. Look(h, logs, At(b, n), k + 1) \in {At(b, n), At(b, k + 1)}
      BY <3>2 DEF Look
    <3> HIDE DEF At
    <3> QED
      BY <3>2, <3>3, <3>4
  <2> HIDE DEF S, L
  <2>3. b .. L \subseteq S
    BY <2>1, <2>2, StepByStep
  <2> QED
    BY <2>3 DEF S
<1>5. f[e] = At(b, e)
  <2> DEFINE k == e - 1
  <2>1. k \in 0 .. L - 1 /\ k \in b .. L /\ k + 1 = e
    OBVIOUS
  <2> HIDE DEF k
  <2>2. PICK n \in 1 .. L : f[k] = At(b, n)
    BY <1>4, <2>1
  <2>3. f[e] = Look(h, logs, At(b, n), e)
    BY <1>1, <2>1, <2>2
  <2>4. Look(h, logs, At(b, n), e) = At(b, e)
    BY DEF Look
  <2> QED
    BY <2>3, <2>4
<1>6. f[L] = At(b, e)
  <2> DEFINE S == {k \in e .. L : f[k] = At(b, e)}
  <2>1. e \in S /\ e \in Int /\ L \in Int
    BY <1>5
  <2>2. ASSUME NEW k \in e .. L - 1, k \in S PROVE k + 1 \in S
    <3>1. k \in 0 .. L - 1 /\ k + 1 \in e + 1 .. L /\ k + 1 \in b + 1 .. L
      OBVIOUS
    <3>2. f[k + 1] = Look(h, logs, At(b, e), k + 1)
      BY <1>1, <2>2, <3>1
    <3>3. e # 0 /\ Follows(h, logs[k + 1])
      BY <3>1
    <3>4. Look(h, logs, At(b, e), k + 1) = At(b, e)
      BY <3>3 DEF Look, Follows
    <3> HIDE DEF At
    <3> QED
      BY <3>1, <3>2, <3>4
  <2> HIDE DEF S, L
  <2>3. e .. L \subseteq S
    BY <2>1, <2>2, StepByStep
  <2>4. L \in S
    BY <2>3 DEF L
  <2> QED
    BY <2>4 DEF S
<1>7. f[L].start = b /\ f[L].end = e /\ e # 0
  BY <1>6
<1> QED
  BY <1>1, <1>7

(* What the walk cuts out of the logs of a bundle.                         *)
Separates(X, h, before, event, d, r, c) ==
  /\ before[1] = "before" /\ event[1] = "event" /\ event[2] = h
  /\ {before, event} \subseteq X /\ d \in Seq(X) /\ r \in Seq(X) /\ c \in Seq(X)
  /\ \A k \in 1 .. Len(d) : d[k][1] = "deployed"
  /\ \A k \in 1 .. Len(r) : r[k][1] # "before"
  /\ \A k \in 1 .. Len(c) : Follows(h, c[k])

LEMMA FilterCuts ==
  ASSUME NEW X, NEW h, NEW before, NEW event, NEW d, NEW r, NEW c,
         Separates(X, h, before, event, d, r, c)
  PROVE  Filter(h, (d \o <<before>>) \o ((r \o <<event>>) \o c)) = r
<1>0. /\ before[1] = "before" /\ event[1] = "event" /\ event[2] = h
      /\ {before, event} \subseteq X /\ d \in Seq(X) /\ r \in Seq(X) /\ c \in Seq(X)
      /\ \A k \in 1 .. Len(d) : d[k][1] = "deployed"
      /\ \A k \in 1 .. Len(r) : r[k][1] # "before"
      /\ \A k \in 1 .. Len(c) : Follows(h, c[k])
  BY DEF Separates
<1> USE <1>0
<1> DEFINE p == d \o <<before>>
           q == r \o <<event>>
           u == q \o c
           logs == p \o u
           b == Len(d) + 1
           m == Len(r)
           e == b + (m + 1)
<1>1. /\ p \in Seq(X) /\ Len(d) \in Nat /\ Len(p) = b /\ p[b] = before
      /\ \A k \in 1 .. b - 1 : p[k] = d[k]
  <2> DEFINE w == <<before>>
  <2>1. w \in Seq(X) /\ Len(w) = 1 /\ w[1] = before /\ p = d \o w
    OBVIOUS
  <2> HIDE DEF w, p
  <2>j. Joins(X, p, d, w)
    BY <2>1, Concatenated, Zenon
  <2>2. /\ p \in Seq(X) /\ Len(d) \in Nat /\ Len(p) = Len(d) + 1
        /\ \A k \in 1 .. Len(d) : p[k] = d[k]
        /\ \A k \in 1 .. Len(w) : p[Len(d) + k] = w[k]
    BY <2>1, <2>j DEF Joins
  <2>3. 1 \in 1 .. Len(w)
    BY <2>1
  <2>4. p[Len(d) + 1] = before
    BY <2>1, <2>2, <2>3
  <2> QED
    BY <2>2, <2>4
<1>2. /\ q \in Seq(X) /\ m \in Nat /\ Len(q) = m + 1 /\ q[m + 1] = event
      /\ \A k \in 1 .. m : q[k] = r[k]
  <2> DEFINE w == <<event>>
  <2>1. w \in Seq(X) /\ Len(w) = 1 /\ w[1] = event /\ q = r \o w
    OBVIOUS
  <2> HIDE DEF w, q
  <2>j. Joins(X, q, r, w)
    BY <2>1, Concatenated, Zenon
  <2>2. /\ q \in Seq(X) /\ Len(r) \in Nat /\ Len(q) = Len(r) + 1
        /\ \A k \in 1 .. Len(r) : q[k] = r[k]
        /\ \A k \in 1 .. Len(w) : q[Len(r) + k] = w[k]
    BY <2>1, <2>j DEF Joins
  <2>3. 1 \in 1 .. Len(w)
    BY <2>1
  <2>4. q[Len(r) + 1] = event
    BY <2>1, <2>2, <2>3
  <2> QED
    BY <2>2, <2>4
<1> HIDE DEF p, q
<1>3. /\ u \in Seq(X) /\ Len(c) \in Nat /\ Len(u) = (m + 1) + Len(c)
      /\ \A k \in 1 .. m + 1 : u[k] = q[k]
      /\ \A k \in 1 .. Len(c) : u[(m + 1) + k] = c[k]
  <2>1. u = q \o c
    OBVIOUS
  <2> HIDE DEF u
  <2>j. Joins(X, u, q, c)
    BY <1>2, <2>1, Concatenated, Zenon
  <2>2. /\ u \in Seq(X) /\ Len(c) \in Nat /\ Len(u) = Len(q) + Len(c)
        /\ \A k \in 1 .. Len(q) : u[k] = q[k]
        /\ \A k \in 1 .. Len(c) : u[Len(q) + k] = c[k]
    BY <2>j DEF Joins
  <2> QED
    BY <1>2, <2>2
<1> HIDE DEF u
<1>4. /\ logs \in Seq(X) /\ Len(logs) = b + Len(u)
      /\ \A k \in 1 .. b : logs[k] = p[k]
      /\ \A k \in 1 .. Len(u) : logs[b + k] = u[k]
  <2>1. logs = p \o u
    OBVIOUS
  <2> HIDE DEF logs, b
  <2>j. Joins(X, logs, p, u)
    BY <1>1, <1>3, <2>1, Concatenated, Zenon
  <2>2. /\ logs \in Seq(X) /\ Len(logs) = Len(p) + Len(u)
        /\ \A k \in 1 .. Len(p) : logs[k] = p[k]
        /\ \A k \in 1 .. Len(u) : logs[Len(p) + k] = u[k]
    BY <2>j DEF Joins
  <2> QED
    BY <1>1, <2>2
<1> HIDE DEF logs
<1> DEFINE L == Len(logs)
<1>5. b \in 1 .. L /\ e \in b + 1 .. L /\ L \in Nat /\ L = e + Len(c)
  BY <1>1, <1>2, <1>3, <1>4
<1>6. \A k \in 1 .. b - 1 : logs[k][1] = "deployed"
  <2>1. ASSUME NEW k \in 1 .. b - 1 PROVE logs[k][1] = "deployed"
    <3>1. k \in 1 .. b /\ k \in 1 .. Len(d)
      BY <1>1
    <3> HIDE DEF b
    <3>2. logs[k] = d[k]
      BY <1>1, <1>4, <3>1
    <3> QED
      BY <3>1, <3>2
  <2> QED
    BY <2>1
<1>7. logs[b][1] = "before"
  <2>1. b \in 1 .. b
    BY <1>1
  <2> HIDE DEF b
  <2> QED
    BY <1>1, <1>4, <2>1
<1>8. \A k \in 1 .. m : logs[b + k] = r[k]
  BY <1>1, <1>2, <1>3, <1>4
<1>9. logs[e] = event
  <2>1. m + 1 \in 1 .. Len(u) /\ u[m + 1] = q[m + 1]
    BY <1>2, <1>3
  <2> QED
    BY <1>2, <1>4, <2>1
<1>10. \A k \in 1 .. Len(c) : logs[e + k] = c[k]
  <2>1. ASSUME NEW k \in 1 .. Len(c) PROVE logs[e + k] = c[k]
    <3>1. (m + 1) + k \in 1 .. Len(u) /\ u[(m + 1) + k] = c[k] /\ b + ((m + 1) + k) = e + k
      BY <1>1, <1>2, <1>3
    <3>2. logs[b + ((m + 1) + k)] = u[(m + 1) + k]
      BY <1>4, <3>1
    <3> QED
      BY <3>1, <3>2
  <2> QED
    BY <2>1
<1>11. ASSUME NEW k \in e + 1 .. L PROVE Follows(h, logs[k])
  <2> DEFINE j == k - e
  <2>1. j \in 1 .. Len(c) /\ k = e + j
    BY <1>1, <1>2, <1>3, <1>5
  <2> HIDE DEF j
  <2> QED
    BY <1>10, <2>1
<1>12. ASSUME NEW k \in b + 1 .. L PROVE logs[k][1] # "before"
  <2>1. CASE k < e
    <3> DEFINE j == k - b
    <3>1. j \in 1 .. m /\ k = b + j
      BY <1>1, <1>2, <2>1
    <3> HIDE DEF j
    <3> QED
      BY <1>8, <3>1
  <2>2. CASE k = e
    BY <1>9, <2>2
  <2>3. CASE k > e
    <3>1. k \in e + 1 .. L
      BY <1>1, <1>2, <1>5, <2>3
    <3> QED
      BY <1>11, <3>1 DEF Follows
  <2>4. k \in Int /\ e \in Int /\ (k < e \/ k = e \/ k > e)
    BY <1>5
  <2> HIDE DEF e
  <2> QED
    BY <2>1, <2>2, <2>3, <2>4
<1>13. logs[e][1] = "event" /\ logs[e][2] = h
  BY <1>9
<1> HIDE DEF L, e, b
<1>14. Filter(h, logs) = SubSeq(logs, b + 1, e - 1)
  <2>1. /\ Len(logs) \in Nat /\ b \in 1 .. Len(logs) /\ e \in b + 1 .. Len(logs)
        /\ \A k \in b + 1 .. Len(logs) : logs[k][1] # "before"
        /\ \A k \in e + 1 .. Len(logs) : Follows(h, logs[k])
    BY <1>5, <1>11, <1>12 DEF L
  <2> QED
    <3>1. Bounds(h, logs, b, e)
      BY <1>6, <1>7, <1>13, <2>1 DEF Bounds
    <3> QED
      BY <3>1, FilterFinds
<1>15. SubSeq(logs, b + 1, e - 1) = r
  <2> DEFINE v == SubSeq(logs, b + 1, e - 1)
  <2>1. b + 1 \in 1 .. L + 1 /\ e - 1 \in b .. L /\ (e - 1) - (b + 1) + 1 = m /\ b \in Nat /\ e \in Nat
    BY <1>1, <1>2, <1>5 DEF e
  <2>2. v = [k \in 1 .. m |-> logs[k + (b + 1) - 1]]
    BY <2>1
  <2>3. \A k \in 1 .. m : v[k] = r[k]
    <3>1. ASSUME NEW k \in 1 .. m PROVE v[k] = r[k]
      <4>1. k + (b + 1) - 1 = b + k
        BY <2>1
      <4> QED
        BY <1>8, <2>2, <4>1
    <3> QED
      BY <3>1
  <2>4. DOMAIN v = 1 .. m
    <3> HIDE DEF v
    <3> QED
      BY <2>2
  <2>6. DOMAIN r = 1 .. m
    OBVIOUS
  <2> HIDE DEF v
  <2>5. v = [k \in 1 .. m |-> v[k]] /\ r = [k \in 1 .. m |-> r[k]]
    BY <2>2, <2>4, <2>6
  <2> QED
    BY <2>3, <2>5 DEF v
<1> QED
  BY <1>14, <1>15 DEF logs, p, q, u

(* What is cut out for h of the logs of a transaction that holds it.       *)
OwnLogs(h) == [k \in 1 .. Emits[h] |-> <<"own", h, k>>]
IsReceipt(h, t, logs) ==
  /\ IsSuffix(OwnLogs(h), logs)
  /\ \A k \in DOMAIN logs : logs[k][1] \in {"own", "event"}
  /\ OpsIn(t, h)[1] = h => logs = OwnLogs(h)

DeployedLogs == {<<"deployed", g>> : g \in Hashes}
LogsOf(S) == {<<"own", g, k>> : g \in S, k \in Nat} \cup {<<"event", g>> : g \in S}

LEMMA LogsAre ==
  /\ \A l \in DeployedLogs : l[1] = "deployed"
  /\ \A l \in LogsOf(Hashes) : l[1] \in {"own", "event"}
  /\ \A h : \A l \in LogsOf(Hashes \ {h}) : Follows(h, l)
<1>1. \A g, k : <<"own", g, k>>[1] = "own" /\ <<"event", g>>[1] = "event" /\ <<"event", g>>[2] = g
                /\ <<"deployed", g>>[1] = "deployed"
  OBVIOUS
<1> QED
  BY <1>1 DEF DeployedLogs, LogsOf, Follows

LEMMA ExecutedLogs ==
  ASSUME NEW S \in SUBSET Hashes, NEW g \in S
  PROVE  /\ OwnLogs(g) \in Seq(LogsOf(S)) /\ <<<<"event", g>>>> \in Seq(LogsOf(S))
         /\ OwnLogs(g) \o <<<<"event", g>>>> \in Seq(LogsOf(S))
<1> DEFINE event == <<"event", g>>
           one == <<event>>
<1>1. event \in LogsOf(S)
  BY DEF LogsOf
<1>2. one \in Seq(LogsOf(S))
  <2> HIDE DEF event
  <2> QED
    BY <1>1
<1>3. Emits[g] \in Nat
  BY RpcAssumption
<1>4. \A k \in 1 .. Emits[g] : <<"own", g, k>> \in LogsOf(S)
  BY <1>3 DEF LogsOf
<1>5. OwnLogs(g) \in Seq(LogsOf(S))
  BY <1>3, <1>4 DEF OwnLogs
<1> HIDE DEF one
<1>6. OwnLogs(g) \o one \in Seq(LogsOf(S))
  BY <1>2, <1>5
<1> QED
  BY <1>2, <1>5, <1>6 DEF one

(* The parts of the logs of a transaction.                                 *)
LEMMA LogsInParts ==
  ASSUME IInv, OrderInv, NEW h \in Hashes, NEW t, t = 0 \/ Carries(t, h)
  PROVE  \E d \in Seq(DeployedLogs), a \in Seq(LogsOf(Hashes)), c \in Seq(LogsOf(Hashes \ {h})) :
           /\ LogsIn(t, h) = (d \o <<<<"before">>>>) \o ((a \o (OwnLogs(h) \o <<<<"event", h>>>>)) \o c)
           /\ OpsIn(t, h)[1] = h => a = <<>>
<1> DEFINE ops == OpsIn(t, h)
           Deployed(g) == IF UserOp[g].factory = Undefined THEN <<>> ELSE <<<<"deployed", g>>>>
           During(g) == OwnLogs(g) \o <<<<"event", g>>>>
           E == LogsOf(Hashes)
           Y == LogsOf(Hashes \ {h})
<1>0. PICK n \in Nat : \E i \in 1 .. n : HoldsOnce(ops, n, i, h)
  BY OpsAre, Zenon
<1>1. PICK i \in 1 .. n : HoldsOnce(ops, n, i, h)
  BY <1>0
<1>2. ops \in [1 .. n -> Hashes] /\ ops[i] = h /\ \A k \in 1 .. n : ops[k] = h => k = i
  <2> HIDE DEF ops
  <2> QED
    BY <1>1 DEF HoldsOnce
<1> DEFINE ds == [k \in DOMAIN ops |-> Deployed(ops[k])]
           ss == [k \in DOMAIN ops |-> During(ops[k])]
           d == FlattenSeq(ds)
           f == FlattenSeq(ss)
<1>3. LogsIn(t, h) = (d \o <<<<"before">>>>) \o f
  BY DEF LogsIn, OwnLogs
<1>4. OpsIn(t, h)[1] = h => i = 1
  <2>1. 1 \in 1 .. n
    OBVIOUS
  <2> HIDE DEF ops
  <2> QED
    BY <1>2, <2>1 DEF ops
<1> HIDE DEF ops
<1>5. d \in Seq(DeployedLogs)
  <2>1. ASSUME NEW g \in Hashes PROVE Deployed(g) \in Seq(DeployedLogs)
    <3> DEFINE l == <<"deployed", g>>
    <3>1. l \in DeployedLogs
      BY DEF DeployedLogs
    <3>2. Deployed(g) = IF UserOp[g].factory = Undefined THEN <<>> ELSE <<l>>
      OBVIOUS
    <3> HIDE DEF l, Deployed
    <3> QED
      BY <3>1, <3>2
  <2> HIDE DEF Deployed
  <2>2. ds \in Seq(Seq(DeployedLogs))
    BY <1>2, <2>1
  <2> HIDE DEF ds
  <2> QED
    BY <2>2, FlattenType
<1>6. \A g \in Hashes : During(g) \in Seq(E) /\ (g # h => During(g) \in Seq(Y))
  <2>1. ASSUME NEW g \in Hashes PROVE During(g) \in Seq(E)
    BY ExecutedLogs
  <2>2. ASSUME NEW g \in Hashes, g # h PROVE During(g) \in Seq(Y)
    <3>1. g \in Hashes \ {h}
      BY <2>2
    <3> QED
      BY <3>1, ExecutedLogs
  <2> QED
    BY <2>1, <2>2
<1>7. During(h) = OwnLogs(h) \o <<<<"event", h>>>>
  OBVIOUS
<1> HIDE DEF During, E, Y, d
<1>8. ss \in Seq(Seq(E)) /\ Len(ss) = n /\ ss[i] = During(h)
      /\ \A j \in 1 .. n : j > i => ss[j] \in Seq(Y)
  <2>1. ss = [k \in 1 .. n |-> During(ops[k])]
    BY <1>2
  <2>2. \A k \in 1 .. n : ops[k] \in Hashes /\ (k > i => ops[k] # h)
    BY <1>2
  <2> HIDE DEF ss
  <2>3. \A k \in 1 .. n : ss[k] = During(ops[k]) /\ ss[k] \in Seq(E) /\ (k > i => ss[k] \in Seq(Y))
    BY <1>6, <2>1, <2>2
  <2>4. ss \in [1 .. n -> Seq(E)]
    BY <2>1, <2>3
  <2>5. ss \in Seq(Seq(E)) /\ Len(ss) = n
    BY <2>4
  <2> QED
    BY <1>2, <2>3, <2>5
<1> HIDE DEF ss
<1>9. PICK a \in Seq(E), c \in Seq(Y) : f = (a \o ss[i]) \o c /\ (i = 1 => a = <<>>)
  <2>1. i \in 1 .. Len(ss) /\ AllBehind(ss, i, Y)
    BY <1>8 DEF AllBehind
  <2>2. Around(ss, i, E, Y)
    BY <1>8, <2>1, FlattenAround, Zenon
  <2> QED
    BY <2>2 DEF Around
<1>10. LogsIn(t, h) = (d \o <<<<"before">>>>) \o ((a \o During(h)) \o c) /\ (OpsIn(t, h)[1] = h => a = <<>>)
  BY <1>3, <1>4, <1>8, <1>9
<1> QED
  BY <1>5, <1>7, <1>10 DEF E, Y

LEMMA ReceiptIs ==
  ASSUME IInv, OrderInv, NEW h \in Hashes, NEW t, t = 0 \/ Carries(t, h)
  PROVE  IsReceipt(h, t, Filter(h, LogsIn(t, h)))
<1> DEFINE own == OwnLogs(h)
           before == <<"before">>
           event == <<"event", h>>
           E == LogsOf(Hashes)
           Y == LogsOf(Hashes \ {h})
           X == DeployedLogs \cup E \cup {before}
           Parts(d, a, c) ==
             /\ LogsIn(t, h) = (d \o <<before>>) \o ((a \o (own \o <<event>>)) \o c)
             /\ OpsIn(t, h)[1] = h => a = <<>>
<1>1. \E d \in Seq(DeployedLogs), a \in Seq(E), c \in Seq(Y) : Parts(d, a, c)
  BY LogsInParts
<1> HIDE DEF Parts
<1>2. PICK d \in Seq(DeployedLogs), a \in Seq(E), c \in Seq(Y) : Parts(d, a, c)
  BY <1>1
<1> DEFINE r == a \o own
           one == <<event>>
<1>3. own \in Seq(E) /\ one \in Seq(E) /\ event \in E
  BY ExecutedLogs DEF LogsOf
<1>4. before[1] = "before" /\ event[1] = "event" /\ event[2] = h
  OBVIOUS
<1>5. /\ LogsIn(t, h) = (d \o <<before>>) \o ((a \o (own \o one)) \o c)
      /\ OpsIn(t, h)[1] = h => a = <<>>
  BY <1>2 DEF Parts
<1> HIDE DEF own, before, event, one
<1>6. a \o (own \o one) = r \o one
  <2> HIDE DEF E
  <2> QED
    BY <1>3, ConcatAssociative, SMTT(30)
<1>7. LogsIn(t, h) = (d \o <<before>>) \o ((r \o <<event>>) \o c)
  BY <1>5, <1>6 DEF one
<1>8. r \in Seq(E)
  <2> HIDE DEF E
  <2> QED
    BY <1>3
<1>9. IsSuffix(own, r)
  <2> HIDE DEF E
  <2> QED
    BY <1>3, EndsWith
<1> HIDE DEF r
<1>10. \A k \in 1 .. Len(r) : r[k] \in E
  BY <1>8
<1>11. \A k \in 1 .. Len(r) : r[k][1] \in {"own", "event"}
  BY <1>10, LogsAre
<1>12. Filter(h, LogsIn(t, h)) = r
  <2>1. Y \subseteq E
    BY DEF LogsOf
  <2>2. \A k \in 1 .. Len(d) : d[k][1] = "deployed"
    BY LogsAre
  <2>3. \A k \in 1 .. Len(c) : Follows(h, c[k])
    <3>1. \A k \in 1 .. Len(c) : c[k] \in Y
      OBVIOUS
    <3> QED
      BY <3>1, LogsAre
  <2>4. \A k \in 1 .. Len(r) : r[k][1] # "before"
    BY <1>11
  <2> HIDE DEF E, Y
  <2>5. d \in Seq(X) /\ r \in Seq(X) /\ c \in Seq(X) /\ {before, event} \subseteq X
    BY <1>3, <1>8, <2>1
  <2> HIDE DEF X
  <2>6. Filter(h, (d \o <<before>>) \o ((r \o <<event>>) \o c)) = r
    <3>1. Separates(X, h, before, event, d, r, c)
      BY <1>4, <2>2, <2>3, <2>4, <2>5 DEF Separates
    <3> QED
      BY <3>1, FilterCuts, Zenon
  <2> QED
    BY <1>7, <2>6
<1>13. OpsIn(t, h)[1] = h => r = own
  <2>1. <<>> \o own = own
    BY <1>3
  <2> QED
    BY <1>5, <2>1 DEF r
<1>14. DOMAIN r = 1 .. Len(r)
  BY <1>8
<1> QED
  BY <1>9, <1>11, <1>12, <1>13, <1>14 DEF IsReceipt, own

----------------------------------------------------------------------------
(* Estimates.                                                              *)

(* The upper bits of a word are a time.                                    *)
LEMMA Top ==
  ASSUME NEW A \in Nat \ {0}, NEW T \in Nat \ {0}, NEW w \in 0 .. A * T * T - 1
  PROVE  w \div (A * T) \in 0 .. T - 1
<1> DEFINE M == A * T
<1>1. M \in Nat \ {0} /\ w < M * T
  BY SMT
<1> HIDE DEF M
<1>2. w \div M \in 0 .. T - 1
  BY <1>1, SMT
<1> QED
  BY <1>2 DEF M

LEMMA Narrow ==
  ASSUME NEW T \in Nat \ {0}, NEW n \in Nat
  PROVE  n % T \in 0 .. T - 1 /\ (n < T => n % T = n)
BY SMT

LEMMA WordTimes ==
  ASSUME NEW w \in 0 .. AggregatorMod * TimeMod * TimeMod - 1
  PROVE  LET v == parseValidationData(w)
         IN  /\ v.validAfter \in Nat /\ v.validUntil \in Nat
             /\ \A t \in 0 .. TimeMod - 1 : InRange(w, t) <=> v.validAfter <= t /\ t <= v.validUntil
<1> DEFINE from == w \div (AggregatorMod * TimeMod)
           lower == w \div AggregatorMod
           until == lower % TimeMod
           v == parseValidationData(w)
<1>0. AggregatorMod \in Nat \ {0} /\ TimeMod \in Nat \ {0} /\ w \in Nat
  BY RpcAssumption
<1>1. from \in 0 .. TimeMod - 1
  BY <1>0, Top
<1>2. lower \in Nat
  BY <1>0
<1>3. v.validAfter = from % TimeMod /\ v.validUntil = IF until = 0 THEN TimeMod ELSE until
  BY DEF parseValidationData
<1>4. \A t : InRange(w, t) <=> (until = 0 \/ t <= until) /\ t >= from
  BY DEF InRange
<1> HIDE DEF from, lower, v
<1>5. until \in 0 .. TimeMod - 1 /\ from % TimeMod = from
  <2>1. from \in Nat /\ from < TimeMod
    BY <1>0, <1>1
  <2> QED
    BY <1>0, <1>2, <2>1, Narrow, Zenon
<1> HIDE DEF until
<1> QED
  BY <1>0, <1>1, <1>3, <1>4, <1>5 DEF v

LEMMA EstimateIs ==
  ASSUME IInv, QueryOK, Estimated
  PROVE  EstimateIsUsable'
<1> DEFINE h == query.hash
           account == parseValidationData(AccountData[h])
           paymaster == parseValidationData(PaymasterData[h])
           e == answer'.result
<1>1. query # NoQuery
  BY DEF Estimated, NoQuery
<1>2. h \in Hashes
  BY <1>1 DEF QueryOK, Query
<1>3. PICK limit \in CallGasLimits(h) :
        /\ e.preVerificationGas = IF UserOp[h].preVerificationGas > 0 THEN UserOp[h].preVerificationGas
                                  ELSE calcPreVerificationGasV07(Bytes[h])
        /\ e.callGasLimit = limit
        /\ e.validAfter = Greater(account.validAfter, paymaster.validAfter)
        /\ e.validUntil = Lesser(account.validUntil, paymaster.validUntil)
  BY DEF Estimated, Answered
<1>4. answer'.hash = h
  BY DEF Estimated, Answered
<1>5. e.preVerificationGas > 0
  <2>1. UserOp[h].preVerificationGas \in Nat /\ Bytes[h].zero \in Nat /\ Bytes[h].other \in Nat
    BY <1>2, RpcAssumption DEF PackableOp
  <2>2. calcPreVerificationGasV07(Bytes[h]) > 0
    BY <2>1, SMT DEF calcPreVerificationGasV07
  <2> QED
    BY <1>3, <2>1, <2>2
<1>6. e.callGasLimit > 0
  <2>1. UserOp[h].callGasLimit \in Nat
    BY <1>2, RpcAssumption DEF PackableOp
  <2> QED
    BY <1>3, <2>1, SMT DEF CallGasLimits
<1>7. /\ AccountData[h] \in 0 .. AggregatorMod * TimeMod * TimeMod - 1
      /\ PaymasterData[h] \in 0 .. AggregatorMod * TimeMod * TimeMod - 1
  BY <1>2, RpcAssumption
<1>8. /\ account.validAfter \in Nat /\ account.validUntil \in Nat
      /\ \A t \in 0 .. TimeMod - 1 :
           InRange(AccountData[h], t) <=> account.validAfter <= t /\ t <= account.validUntil
  BY <1>7, WordTimes
<1>9. /\ paymaster.validAfter \in Nat /\ paymaster.validUntil \in Nat
      /\ \A t \in 0 .. TimeMod - 1 :
           InRange(PaymasterData[h], t) <=> paymaster.validAfter <= t /\ t <= paymaster.validUntil
  BY <1>7, WordTimes
<1> HIDE DEF account, paymaster, h, e
<1>10. ASSUME NEW t \in 0 .. TimeMod - 1
       PROVE  InRange(AccountData[h], t) /\ InRange(PaymasterData[h], t)
                <=> e.validAfter <= t /\ t <= e.validUntil
  <2>1. t \in Int
    BY RpcAssumption
  <2>2. e.validAfter <= t <=> account.validAfter <= t /\ paymaster.validAfter <= t
    BY <1>3, <1>8, <1>9, <2>1 DEF Greater
  <2>3. t <= e.validUntil <=> t <= account.validUntil /\ t <= paymaster.validUntil
    BY <1>3, <1>8, <1>9, <2>1 DEF Lesser
  <2> QED
    BY <1>8, <1>9, <2>2, <2>3, Zenon
<1> QED
  BY <1>4, <1>5, <1>6, <1>10 DEF EstimateIsUsable, InRange, h, e

----------------------------------------------------------------------------
(* The steps of a question.                                                *)

LEMMA NoneIsFine == answer.outcome = "none" => AnswersOK
BY DEF AnswersOK, ExecutedIsFound, EstimateIsUsable, ByHashIsTheOp, ReceiptHasItsLogs, Got

(* Neither the order of a bundle nor its operations depend on the answer.  *)
LEMMA OpsStay ==
  ASSUME UNCHANGED vars, NEW CONSTANT t, NEW CONSTANT h
  PROVE  OpsIn(t, h)' = OpsIn(t, h)
<1>1. call' = call /\ txs' = txs
  BY DEF vars, engineVars, chainVars
<1>2. ASSUME NEW CONSTANT S PROVE InOrder(S)' = InOrder(S)
  <2> DEFINE place == [i \in S |-> Place(S, i)]
             Ordered(f) == [k \in 1 .. Cardinality(S) |-> CHOOSE i \in S : f[i] = k]
  <2>1. ASSUME NEW CONSTANT i \in S PROVE Place(S, i)' = Place(S, i)
    <3>1. ASSUME NEW CONSTANT j PROVE Before(j, i)' <=> Before(j, i)
      BY <1>1 DEF Before
    <3>2. {j \in S : Before(j, i)}' = {j \in S : Before(j, i)}
      BY <3>1
    <3> QED
      BY <3>2, Zenon DEF Place
  <2>2. place' = place
    BY <2>1
  <2>3. InOrder(S) = Ordered(place) /\ InOrder(S)' = Ordered(place')
    BY DEF InOrder
  <2> HIDE DEF place, Ordered
  <2> QED
    BY <2>2, <2>3
<1> QED
  BY <1>1, <1>2, Zenon DEF OpsIn

(* What a receipt tells stays true.                                        *)
LEMMA ReceiptStays ==
  ASSUME UNCHANGED vars, NEW CONSTANT h, NEW CONSTANT t, NEW CONSTANT logs,
         answer'.hash = h, answer'.result.tx = t, answer'.result.logs = logs,
         executedAt[h] # 0, IsReceipt(h, t, logs)
  PROVE  ReceiptHasItsLogs'
<1>1. executedAt' = executedAt
  BY DEF vars, chainVars
<1>2. OpsIn(t, h)' = OpsIn(t, h)
  BY OpsStay
<1> QED
  BY <1>1, <1>2 DEF ReceiptHasItsLogs, IsReceipt, OwnLogs

LEMMA AnswersStay ==
  ASSUME AnswersOK, UNCHANGED <<vars, answer>>
  PROVE  AnswersOK'
<1>1. ExecutedIsFound' /\ EstimateIsUsable' /\ ByHashIsTheOp'
  BY Zenon DEF AnswersOK, ExecutedIsFound, EstimateIsUsable, ByHashIsTheOp, Got, vars, engineVars,
     chainVars, InRange
<1>2. ReceiptHasItsLogs'
  <2>1. SUFFICES ASSUME Got("receipt") PROVE ReceiptHasItsLogs'
    BY Zenon DEF ReceiptHasItsLogs, Got
  <2>2. PICK h, t, logs : answer.hash = h /\ answer.result.tx = t /\ answer.result.logs = logs
    OBVIOUS
  <2>3. executedAt[h] # 0 /\ IsReceipt(h, t, logs)
    BY <2>1, <2>2 DEF AnswersOK, ReceiptHasItsLogs, IsReceipt, OwnLogs
  <2> QED
    BY <2>2, <2>3, ReceiptStays
<1> QED
  BY <1>1, <1>2 DEF AnswersOK

(* A receipt of a transaction that holds the operation.                    *)
LEMMA ReceiptAnswers ==
  ASSUME IInv, OrderInv, UNCHANGED vars, NEW CONSTANT h \in Hashes, NEW q, q.hash = h, q.method = "receipt",
         executedAt[h] # 0, NEW CONSTANT t, t = 0 \/ Carries(t, h),
         answer' = Answered(q, Receipt(h, t))
  PROVE  AnswersOK'
<1>1. PICK logs : logs = Filter(h, LogsIn(t, h))
  OBVIOUS
<1>2. /\ answer'.outcome = "found" /\ answer'.method = "receipt" /\ answer'.hash = h
      /\ answer'.result = [tx |-> t, logs |-> logs]
  BY <1>1 DEF Answered, Receipt
<1>3. IsReceipt(h, t, logs)
  BY <1>1, ReceiptIs
<1>4. ReceiptHasItsLogs'
  BY <1>2, <1>3, ReceiptStays
<1> QED
  BY <1>2, <1>4 DEF AnswersOK, ExecutedIsFound, EstimateIsUsable, ByHashIsTheOp, Got

LEMMA RpcInitOK == RpcInit => IInv /\ RpcInv
<1> SUFFICES ASSUME RpcInit PROVE IInv /\ RpcInv
  OBVIOUS
<1>1. IInv /\ OrderInv
  BY InitOK, OrderInit DEF RpcInit
<1>2. QueryOK
  BY DEF RpcInit, QueryOK
<1>3. AnswersOK
  BY NoneIsFine DEF RpcInit, NoAnswer
<1> QED
  BY <1>1, <1>2, <1>3 DEF RpcInv

(* A question is put, and answered at once or not.                         *)
LEMMA AskOK ==
  ASSUME IInv, RpcInv, UNCHANGED vars,
         NEW h \in Hashes, AskReceipt(h) \/ AskByHash(h) \/ AskEstimate(h)
  PROVE  QueryOK' /\ AnswersOK'
<1>0. executedAt' = executedAt /\ executedAt[h] \in Nat
  BY DEF vars, chainVars, IInv, TypeOK
<1>1. CASE query' = query /\ query = NoQuery
  <2>1. QueryOK'
    BY <1>1 DEF QueryOK
  <2>2. AnswersOK'
    <3>1. CASE AskReceipt(h)
      <4>1. answer' = Answered(Asked("receipt", h, "logs"), Receipt(h, TxOf(h)))
        BY <1>1, <3>1 DEF AskReceipt, Asked, NoQuery
      <4>2. InMemory(h)
        BY <1>1, <3>1 DEF AskReceipt, Asked, NoQuery
      <4>3. executedAt[h] # 0
        BY <4>2 DEF InMemory, IInv, MinedIsExecuted, MapOK, Known, TypeOK, Calls, ExecutedSinceStart
      <4>4. PICK q, t : q = Asked("receipt", h, "logs") /\ t = TxOf(h)
        OBVIOUS
      <4>5. q.hash = h /\ q.method = "receipt" /\ answer' = Answered(q, Receipt(h, t))
        BY <4>1, <4>4 DEF Asked
      <4>6. t = 0 \/ Carries(t, h)
        BY <4>4, TxFound
      <4> QED
        BY <4>3, <4>5, <4>6, ReceiptAnswers DEF RpcInv
    <3>2. CASE AskByHash(h)
      <4>1. answer' = Answered(Asked("byHash", h, "logs"), UserOp[h])
        BY <1>1, <3>2 DEF AskByHash, Asked, NoQuery
      <4>2. /\ answer'.outcome = "found" /\ answer'.method = "byHash" /\ answer'.hash = h
            /\ answer'.result = UserOp[h]
        BY <4>1 DEF Answered, Asked
      <4>3. ByHashIsTheOp'
        BY <4>2, AnswersAreSigned DEF ByHashIsTheOp
      <4> QED
        BY <4>2, <4>3 DEF AnswersOK, ExecutedIsFound, EstimateIsUsable, ReceiptHasItsLogs, Got
    <3>3. CASE AskEstimate(h)
      BY <1>1, <3>3 DEF AskEstimate, Asked, NoQuery
    <3> QED
      BY <3>1, <3>2, <3>3
  <2> QED
    BY <2>1, <2>2
<1>2. CASE /\ answer' = NoAnswer
           /\ \/ query' = Asked("receipt", h, "logs") \/ query' = Asked("byHash", h, "logs")
              \/ query' = Asked("estimate", h, "simulation")
  <2>1. AnswersOK'
    BY <1>2 DEF NoAnswer, AnswersOK, ExecutedIsFound, EstimateIsUsable, ByHashIsTheOp, ReceiptHasItsLogs, Got
  <2>2. PICK m \in {"receipt", "byHash", "estimate"}, at \in {"logs", "simulation"} :
          /\ query' = Asked(m, h, at)
          /\ at = "simulation" <=> m = "estimate"
    BY <1>2
  <2>3. query' = [method |-> m, hash |-> h, executed |-> executedAt[h], at |-> at, tx |-> 0]
    BY <2>2 DEF Asked
  <2>4. query' \in Query
    BY <1>0, <2>3 DEF Query
  <2>5. /\ query'.method = m /\ query'.hash = h /\ query'.executed = executedAt[h] /\ query'.at = at
    BY <2>3
  <2>6. QueryOK'
    BY <1>0, <2>2, <2>4, <2>5 DEF QueryOK
  <2> QED
    BY <2>1, <2>6
<1>3. CASE AskReceipt(h)
  BY <1>1, <1>2, <1>3 DEF AskReceipt
<1>4. CASE AskByHash(h)
  BY <1>1, <1>2, <1>4 DEF AskByHash
<1>5. CASE AskEstimate(h)
  BY <1>2, <1>5 DEF AskEstimate
<1> QED
  BY <1>3, <1>4, <1>5

(* A question that goes on keeps what it knows.                            *)
Onward(at, t) == [query EXCEPT !.at = at, !.tx = t]

LEMMA GoesOn ==
  ASSUME IInv, RpcInv, UNCHANGED vars, query # NoQuery, NEW at \in {"transaction", "code"}, NEW t \in Nat,
         at = "code" <=> query.method = "estimate",
         at = "transaction" => executedAt[query.hash] # 0 /\ (t = 0 \/ Carries(t, query.hash)),
         query' = Onward(at, t)
  PROVE  QueryOK'
<1>1. query \in Query /\ query.executed <= executedAt[query.hash]
  BY DEF RpcInv, QueryOK
<1>2. /\ query' \in Query /\ query'.at = at /\ query'.tx = t /\ query'.method = query.method
      /\ query'.hash = query.hash /\ query'.executed = query.executed
  BY <1>1 DEF Query, Onward
<1>3. Carries(t, query.hash) => Carries(t, query.hash)'
  BY <1>2 DEF Carries, vars, engineVars, chainVars
<1>4. executedAt' = executedAt
  BY DEF vars, chainVars
<1>5. query'.executed <= executedAt'[query'.hash]
  BY <1>1, <1>2, <1>4
<1>6. query'.at = "transaction" =>
        executedAt'[query'.hash] # 0 /\ (query'.tx = 0 \/ Carries(query.tx, query.hash)')
  <2>1. Carries(t, query.hash)' => Carries(query.tx, query.hash)'
    BY <1>2 DEF Carries
  <2> QED
    BY <1>2, <1>3, <1>4, <2>1
<1> QED
  BY <1>2, <1>5, <1>6 DEF QueryOK

LEMMA RpcStepOK ==
  ASSUME IInv, RpcInv, RpcStep
  PROVE  QueryOK' /\ AnswersOK'
<1> USE DEF NoQuery
<1>0. UNCHANGED vars /\ QueryOK /\ AnswersOK /\ OrderInv
  BY DEF RpcStep, RpcInv
<1>1. CASE \E h \in Hashes : AskReceipt(h) \/ AskByHash(h) \/ AskEstimate(h)
  BY <1>0, <1>1, AskOK
<1>2. CASE LogsRead
  <2>1. query # NoQuery /\ query.at = "logs"
    BY <1>2 DEF LogsRead
  <2>2. query \in Query /\ query.method # "estimate" /\ query.executed <= executedAt[query.hash]
    BY <1>0, <2>1 DEF QueryOK
  <2>3. query.hash \in Hashes /\ query.executed \in Nat
    BY <2>2 DEF Query
  <2>4. CASE Finds(query.hash)
    <3>1. query' = Onward("transaction", TxOf(query.hash)) /\ answer' = answer
      BY <1>2, <2>4 DEF LogsRead, Onward
    <3>2. TxOf(query.hash) \in Nat /\ (TxOf(query.hash) = 0 \/ Carries(TxOf(query.hash), query.hash))
      BY TxFound
    <3>3. executedAt[query.hash] # 0
      BY <2>4 DEF Finds, ExecutedSinceStart
    <3>4. QueryOK'
      BY <1>0, <2>1, <2>2, <3>1, <3>2, <3>3, GoesOn
    <3> QED
      BY <1>0, <3>1, <3>4, AnswersStay
  <2>5. CASE ~Finds(query.hash)
    <3>1. query' = NoQuery /\ answer' = Ended(query, "null")
      BY <1>2, <2>5 DEF LogsRead
    <3>2. answer'.outcome = "null" /\ answer'.executed = query.executed
      BY <3>1 DEF Ended
    <3>3. executedAt[query.hash] \in Nat /\ startedFrom \in Nat /\ startedFrom' = startedFrom
      BY <1>0, <2>3 DEF IInv, TypeOK, vars, engineVars
    <3>4. query.executed = 0 \/ query.executed < startedFrom
      BY <2>2, <2>3, <2>5, <3>3 DEF Finds, ExecutedSinceStart
    <3>5. AnswersOK'
      BY <3>2, <3>3, <3>4 DEF AnswersOK, ExecutedIsFound, EstimateIsUsable, ByHashIsTheOp, ReceiptHasItsLogs, Got
    <3> QED
      BY <3>1, <3>5 DEF QueryOK
  <2> QED
    BY <2>4, <2>5
<1>3. CASE TransactionRead
  <2>1. query # NoQuery /\ query.at = "transaction" /\ query' = NoQuery
    BY <1>3 DEF TransactionRead
  <2>2. /\ query \in Query /\ query.method # "estimate"
        /\ executedAt[query.hash] # 0 /\ (query.tx = 0 \/ Carries(query.tx, query.hash))
    BY <1>0, <2>1 DEF QueryOK
  <2>3. query.hash \in Hashes /\ query.method \in {"receipt", "byHash"}
    BY <2>2 DEF Query
  <2>4. CASE query.method = "receipt"
    <3>1. answer' = Answered(query, Receipt(query.hash, query.tx))
      BY <1>3, <2>4 DEF TransactionRead
    <3>2. PICK q, h, t : q = query /\ h = query.hash /\ t = query.tx
      OBVIOUS
    <3>3. AnswersOK'
      BY <1>0, <2>2, <2>3, <2>4, <3>1, <3>2, ReceiptAnswers
    <3> QED
      BY <2>1, <3>3 DEF QueryOK
  <2>5. CASE query.method = "byHash" /\ answer' = Answered(query, OpInTx)
    <3>1. /\ answer'.outcome = "found" /\ answer'.method = "byHash" /\ answer'.hash = query.hash
          /\ answer'.result = OpInTx
      BY <2>5 DEF Answered
    <3>2. OpInTx = unpackUserOpV07(packUserOpV07(UserOp[query.hash]))
      BY <1>0, <2>2, <2>3, FoundInTx
    <3>3. packUserOpV07(OpInTx) = buildPackedUserOpV07(UserOp[query.hash])
      BY <2>3, <3>2, AnswersAreSigned
    <3>4. ByHashIsTheOp'
      BY <3>1, <3>3 DEF ByHashIsTheOp
    <3>5. AnswersOK'
      BY <3>1, <3>4 DEF AnswersOK, ExecutedIsFound, EstimateIsUsable, ReceiptHasItsLogs, Got
    <3> QED
      BY <2>1, <3>5 DEF QueryOK
  <2>6. CASE query.method = "byHash" /\ answer' = Ended(query, "null")
    <3>1. answer'.outcome = "null" /\ answer'.method = "byHash"
      BY <2>6 DEF Ended
    <3>2. AnswersOK'
      BY <3>1 DEF AnswersOK, ExecutedIsFound, EstimateIsUsable, ByHashIsTheOp, ReceiptHasItsLogs, Got
    <3> QED
      BY <2>1, <3>2 DEF QueryOK
  <2> QED
    BY <1>3, <2>3, <2>4, <2>5, <2>6 DEF TransactionRead
<1>4. CASE Simulated
  <2>1. query # NoQuery /\ query.at = "simulation"
    BY <1>4 DEF Simulated
  <2>2. query \in Query /\ query.method = "estimate"
    BY <1>0, <2>1 DEF QueryOK
  <2>3. CASE query' = [query EXCEPT !.at = "code"] /\ answer' = answer
    <3>1. query.tx \in Nat /\ query' = Onward("code", query.tx)
      BY <2>2, <2>3 DEF Query, Onward
    <3>2. QueryOK'
      BY <1>0, <2>1, <2>2, <3>1, GoesOn
    <3> QED
      BY <1>0, <2>3, <3>2, AnswersStay
  <2>4. CASE query' = NoQuery /\ answer' = Ended(query, "error")
    <3>1. answer'.outcome = "error"
      BY <2>4 DEF Ended
    <3>2. AnswersOK'
      BY <3>1 DEF AnswersOK, ExecutedIsFound, EstimateIsUsable, ByHashIsTheOp, ReceiptHasItsLogs, Got
    <3> QED
      BY <2>4, <3>2 DEF QueryOK
  <2> QED
    BY <1>4, <2>3, <2>4 DEF Simulated
<1>5. CASE Estimated
  <2>1. query # NoQuery /\ query.at = "code" /\ query' = NoQuery
    BY <1>5 DEF Estimated
  <2>2. query.method = "estimate"
    BY <1>0, <2>1 DEF QueryOK
  <2>3. answer'.outcome = "found" /\ answer'.method = "estimate"
    BY <1>5, <2>2 DEF Estimated, Answered
  <2>4. EstimateIsUsable'
    BY <1>0, <1>5, EstimateIs
  <2>5. AnswersOK'
    BY <2>3, <2>4 DEF AnswersOK, ExecutedIsFound, ByHashIsTheOp, ReceiptHasItsLogs, Got
  <2> QED
    BY <2>1, <2>5 DEF QueryOK
<1>6. CASE QueryFails
  <2>1. query' = NoQuery /\ answer'.outcome = "error"
    BY <1>6 DEF QueryFails, Ended
  <2>2. AnswersOK'
    BY <2>1 DEF AnswersOK, ExecutedIsFound, EstimateIsUsable, ByHashIsTheOp, ReceiptHasItsLogs, Got
  <2> QED
    BY <2>1, <2>2 DEF QueryOK
<1> QED
  BY <1>1, <1>2, <1>3, <1>4, <1>5, <1>6 DEF RpcStep

LEMMA RpcInductive ==
  ASSUME IInv, RpcInv, [RpcNext]_<<vars, rpcVars>>
  PROVE  IInv' /\ RpcInv'
<1>1. [Next]_vars
  BY DEF RpcNext, EngineStep, RpcStep
<1>2. IInv' /\ OrderInv'
  BY <1>1, Inductive, OrderStep DEF RpcInv
<1>3. CASE EngineStep
  <2>1. QueryOK'
    BY <1>1, <1>3, QueryStays DEF EngineStep, RpcInv
  <2>2. AnswersOK'
    BY <1>3 DEF EngineStep, NoAnswer, AnswersOK, ExecutedIsFound, EstimateIsUsable, ByHashIsTheOp, ReceiptHasItsLogs, Got
  <2> QED
    BY <1>2, <2>1, <2>2 DEF RpcInv
<1>4. CASE RpcStep
  BY <1>2, <1>4, RpcStepOK DEF RpcInv
<1>5. CASE UNCHANGED <<vars, rpcVars>>
  <2>1. QueryOK'
    BY <1>1, <1>5, QueryStays DEF RpcInv, rpcVars
  <2>2. AnswersOK'
    BY <1>5, AnswersStay DEF RpcInv, rpcVars
  <2> QED
    BY <1>2, <2>1, <2>2 DEF RpcInv
<1> QED
  BY <1>3, <1>4, <1>5 DEF RpcNext

THEOREM RpcInvariance == RpcSpec => [](IInv /\ RpcInv)
<1>1. RpcInit => IInv /\ RpcInv
  BY RpcInitOK
<1>2. IInv /\ RpcInv /\ [RpcNext]_<<vars, rpcVars>> => (IInv /\ RpcInv)'
  BY RpcInductive
<1> QED
  BY <1>1, <1>2, PTL DEF RpcSpec

(* Questions only read: whatever is asked, the bundler behaves as if it    *)
(* were not (BundlerEngine.ts 123-309), so all that is proved of it holds  *)
(* while it is asked.                                                      *)
THEOREM QuestionsOnlyRead == RpcSpec => Spec
<1>1. RpcInit => Init
  BY DEF RpcInit
<1>2. [RpcNext]_<<vars, rpcVars>> => [Next]_vars
  BY DEF RpcNext, EngineStep, RpcStep
<1> QED
  BY <1>1, <1>2, PTL DEF RpcSpec, Spec

(* A client who asks after the execution is not told that there is no      *)
(* receipt, unless the bundler has started after that block.               *)
THEOREM ExecutedFound == RpcSpec => []ExecutedIsFound
<1>1. RpcInv => ExecutedIsFound
  BY DEF RpcInv, AnswersOK
<1> QED
  BY <1>1, RpcInvariance, PTL

(* The times of an estimate are those at which both words are in range,    *)
(* for words of any widths.                                                *)
THEOREM EstimatesUsable == RpcSpec => []EstimateIsUsable
<1>1. RpcInv => EstimateIsUsable
  BY DEF RpcInv, AnswersOK
<1> QED
  BY <1>1, RpcInvariance, PTL

(* The operation that a hash is answered with packs to the words that were *)
(* signed, from the mempool and from the chain.                            *)
THEOREM ByHashIsSigned == RpcSpec => []ByHashIsTheOp
<1>1. RpcInv => ByHashIsTheOp
  BY DEF RpcInv, AnswersOK
<1> QED
  BY <1>1, RpcInvariance, PTL

(* A receipt's logs end with all of the operation's own, whatever the      *)
(* other operations of its bundle emit before and after, and are these     *)
(* alone for the bundle's first (BundlerEngine.ts 609-630).                *)
THEOREM ReceiptIsItsOwn == RpcSpec => []ReceiptHasItsLogs
<1>1. RpcInv => ReceiptHasItsLogs
  BY DEF RpcInv, AnswersOK
<1> QED
  BY <1>1, RpcInvariance, PTL
=============================================================================
