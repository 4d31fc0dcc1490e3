--------------------------- MODULE IndexerProofs ---------------------------
(***************************************************************************)
(* For any operations, ranges, retention, number of syncs, faults and      *)
(* crashes: the indexer's state has its types, no block is skipped, memory *)
(* holds what the files do, what is reported adds up, and a soak test is   *)
(* not failed for less than it should be, nor for more.                    *)
(***************************************************************************)
EXTENDS Reports, Induction

(* The blocks up to which everything is accounted for.                     *)
Covered == {b \in Int : ReadUpTo(b)}

(* Nothing stands past the last block, and a sync that awaits a range or   *)
(* the wallets of one has read all that is before it, or up to its end.    *)
PositionsOK ==
  /\ lastProcessedBlock <= head /\ lastProcessedBlock \in Covered
  /\ checkpoint <= head /\ checkpoint \in Covered
SyncsOK ==
  \A s \in Syncs :
    /\ sync[s].latest <= head
    /\ sync[s].at \in {"range", "traffic"} => sync[s].from <= sync[s].latest
    /\ sync[s].at = "range" => sync[s].from - 1 \in Covered
    /\ sync[s].at = "traffic" => To(s) \in Covered
BatchesOK == \A k \in Kinds : \A i \in DOMAIN queue[k] : queue[k][i] # <<>>

IInv == TypeOK /\ BatchesOK /\ PositionsOK /\ SyncsOK

Line == Ops \cup NoRecord

----------------------------------------------------------------------------
(* Files and queues.                                                       *)

(* An append keeps the records of the file.                                *)
LEMMA AppendedKeeps ==
  ASSUME NEW f \in Seq(Line), NEW batch \in Seq(Ops), batch # <<>>
  PROVE  /\ Appended(f, batch) \in Seq(Line)
         /\ LinesOf(f) \cap Ops \subseteq LinesOf(Appended(f, batch))
<1>1. batch \in Seq(Line) /\ Tail(batch) \in Seq(Line)
  BY DEF Line
<1>2. CASE ~EndsTorn(f)
  <2>1. Appended(f, batch) = f \o batch
    BY <1>2 DEF Appended
  <2>2. f \o batch \in Seq(Line) /\ \A i \in DOMAIN f : i \in DOMAIN (f \o batch) /\ (f \o batch)[i] = f[i]
    BY <1>1
  <2> QED
    BY <2>1, <2>2 DEF LinesOf
<1>3. CASE EndsTorn(f)
  <2> DEFINE g == [f EXCEPT ![Len(f)] = "bad"]
             t == Tail(batch)
  <2>0. "bad" \in Line
    BY DEF Line, NoRecord
  <2>1. g \in Seq(Line) /\ Len(g) = Len(f) /\ DOMAIN g = DOMAIN f
    <3>1. Len(f) \in Nat /\ f \in [1 .. Len(f) -> Line]
      OBVIOUS
    <3>2. g \in [1 .. Len(f) -> Line]
      BY <2>0, <3>1
    <3> QED
      BY <3>1, <3>2
  <2>2. \A i \in DOMAIN f : f[i] \in Ops => g[i] = f[i]
    BY <1>3, IndexerAssumption DEF EndsTorn
  <2>3. t \in Seq(Line)
    BY <1>1
  <2> HIDE DEF g, t
  <2>4. g \o t \in Seq(Line) /\ \A i \in DOMAIN g : i \in DOMAIN (g \o t) /\ (g \o t)[i] = g[i]
    BY <2>1, <2>3
  <2>5. Appended(f, batch) = g \o t
    BY <1>3 DEF Appended, g, t
  <2> QED
    BY <2>1, <2>2, <2>4, <2>5 DEF LinesOf
<1> QED
  BY <1>2, <1>3

(* A torn line keeps them.                                                 *)
LEMMA TornKeeps ==
  ASSUME NEW f \in Seq(Line)
  PROVE  Torn(f) \in Seq(Line) /\ LinesOf(f) \subseteq LinesOf(Torn(f))
<1>1. CASE EndsTorn(f)
  BY <1>1 DEF Torn
<1>2. CASE ~EndsTorn(f)
  <2>1. Torn(f) = Append(f, "torn")
    BY <1>2 DEF Torn
  <2>2. /\ Append(f, "torn") \in Seq(Line)
        /\ \A i \in DOMAIN f : i \in DOMAIN Append(f, "torn") /\ Append(f, "torn")[i] = f[i]
    BY DEF Line, NoRecord
  <2> QED
    BY <2>1, <2>2 DEF LinesOf
<1> QED
  BY <1>1, <1>2

(* So does the end of the process within an append.                        *)
LEMMA RemainsKeeps ==
  ASSUME NEW f \in Seq(Line), NEW q \in Seq(Seq(Ops)), \A i \in DOMAIN q : q[i] # <<>>,
         NEW g \in Remains(f, q)
  PROVE  g \in Seq(Line) /\ LinesOf(f) \cap Ops \subseteq LinesOf(g)
<1>1. CASE q = <<>>
  BY <1>1 DEF Remains
<1>2. CASE q # <<>>
  <2>1. q[1] \in Seq(Ops) /\ q[1] # <<>>
    BY <1>2
  <2>2. \A n \in 0 .. Len(q[1]) :
          Whole(f, q[1], n) \in Seq(Line) /\ LinesOf(f) \cap Ops \subseteq LinesOf(Whole(f, q[1], n))
    <3> TAKE n \in 0 .. Len(q[1])
    <3>1. CASE n = 0
      BY <3>1 DEF Whole
    <3>2. CASE n # 0
      <4> DEFINE b == SubSeq(q[1], 1, n)
      <4>1. b \in Seq(Ops) /\ Len(b) = n
        BY <2>1
      <4>2. b # <<>>
        BY <3>2, <4>1
      <4>3. Whole(f, q[1], n) = Appended(f, b)
        BY <3>2 DEF Whole
      <4> HIDE DEF b
      <4> QED
        BY <4>1, <4>2, <4>3, AppendedKeeps
    <3> QED
      BY <3>1, <3>2
  <2>3. PICK n \in 0 .. Len(q[1]) : g = Whole(f, q[1], n) \/ g = Torn(Whole(f, q[1], n))
    BY <1>2, <2>1 DEF Remains
  <2> QED
    BY <2>2, <2>3, TornKeeps
<1> QED
  BY <1>1, <1>2

(* What is queued is in the first append or in the others.                 *)
LEMMA QueueTail ==
  ASSUME NEW q \in Seq(Seq(Ops)), q # <<>>
  PROVE  /\ Head(q) \in Seq(Ops) /\ Tail(q) \in Seq(Seq(Ops))
         /\ \A i \in DOMAIN q : q[i] = Head(q) \/ \E j \in DOMAIN Tail(q) : q[i] = Tail(q)[j]
         /\ \A j \in DOMAIN Tail(q) : \E i \in DOMAIN q : q[i] = Tail(q)[j]
         /\ Head(q) = q[1] /\ 1 \in DOMAIN q
<1>1. /\ Head(q) = q[1] /\ q[1] \in Seq(Ops) /\ Tail(q) \in Seq(Seq(Ops))
      /\ Len(q) \in Nat \ {0} /\ Len(Tail(q)) = Len(q) - 1 /\ DOMAIN q = 1 .. Len(q)
      /\ DOMAIN Tail(q) = 1 .. Len(Tail(q))
      /\ \A j \in 1 .. Len(q) - 1 : Tail(q)[j] = q[j + 1]
  OBVIOUS
<1>2. ASSUME NEW i \in DOMAIN q, i # 1
      PROVE  \E j \in DOMAIN Tail(q) : q[i] = Tail(q)[j]
  <2>1. i - 1 \in DOMAIN Tail(q) /\ Tail(q)[i - 1] = q[i]
    BY <1>1, <1>2
  <2> QED
    BY <2>1
<1>3. \A j \in DOMAIN Tail(q) : j + 1 \in DOMAIN q /\ q[j + 1] = Tail(q)[j]
  BY <1>1
<1> QED
  BY <1>1, <1>2, <1>3

(* An append to the queue adds its lines to those that are queued.         *)
LEMMA QueueAppends ==
  ASSUME NEW q \in Seq(Seq(Ops)), \A i \in DOMAIN q : q[i] # <<>>, NEW b \in Seq(Ops)
  PROVE  /\ Appends(q, b) \in Seq(Seq(Ops))
         /\ \A i \in DOMAIN Appends(q, b) : Appends(q, b)[i] # <<>>
         /\ \A i \in DOMAIN q : \E j \in DOMAIN Appends(q, b) : Appends(q, b)[j] = q[i]
         /\ b # <<>> => \E j \in DOMAIN Appends(q, b) : Appends(q, b)[j] = b
<1>1. CASE b = <<>>
  BY <1>1 DEF Appends
<1>2. CASE b # <<>>
  <2>1. Appends(q, b) = Append(q, b)
    BY <1>2 DEF Appends
  <2>2. /\ Append(q, b) \in Seq(Seq(Ops)) /\ Len(Append(q, b)) = Len(q) + 1
        /\ \A i \in 1 .. Len(q) : Append(q, b)[i] = q[i]
        /\ Append(q, b)[Len(q) + 1] = b
        /\ Len(q) \in Nat
    OBVIOUS
  <2>3. DOMAIN Append(q, b) = 1 .. Len(q) + 1 /\ DOMAIN q = 1 .. Len(q)
    BY <2>2
  <2> HIDE DEF Appends
  <2>4. Len(q) + 1 \in DOMAIN Append(q, b)
    BY <2>2, <2>3
  <2>5. \A i \in DOMAIN Append(q, b) : Append(q, b)[i] # <<>>
    BY <1>2, <2>2, <2>3
  <2>6. \A i \in DOMAIN q : i \in DOMAIN Append(q, b) /\ Append(q, b)[i] = q[i]
    BY <2>2, <2>3
  <2> QED
    BY <2>1, <2>2, <2>4, <2>5, <2>6
<1> QED
  BY <1>1, <1>2

(* A listing of operations has each of them.                               *)
LEMMA ListingHasAll ==
  ASSUME NEW S, S \subseteq Ops, NEW q \in Listings(S)
  PROVE  q \in Seq(Ops) /\ LinesOf(q) = S /\ (q = <<>> => S = {})
<1> DEFINE n == Cardinality(S)
<1>1. IsFiniteSet(S)
  BY IndexerAssumption, FS_Subset
<1>2. n \in Nat
  BY <1>1, FS_CardinalityType
<1>3. q \in [1 .. n -> S] /\ \A i, j \in 1 .. n : i < j => q[i] # q[j]
  BY DEF Listings
<1>4. \A i, j \in 1 .. n : q[i] = q[j] => i = j
  BY <1>2, <1>3
<1>5. q \in Injection(1 .. n, S)
  BY <1>3, <1>4 DEF Injection, IsInjective
<1>6. IsFiniteSet(1 .. n) /\ Cardinality(1 .. n) = n
  BY <1>2, FS_Interval
<1>7. q \in Surjection(1 .. n, S)
  BY <1>1, <1>5, <1>6, FS_Injection
<1>8. \A x \in S : \E i \in 1 .. n : q[i] = x
  BY <1>7 DEF Surjection
<1>9. q \in Seq(S) /\ DOMAIN q = 1 .. n /\ Len(q) = n
  BY <1>2, <1>3
<1>10. q \in Seq(Ops)
  BY <1>2, <1>3
<1> HIDE DEF n
<1>11. LinesOf(q) = S
  BY <1>3, <1>8, <1>9 DEF LinesOf
<1>12. q = <<>> => S = {}
  BY <1>8, <1>9
<1> QED
  BY <1>10, <1>11, <1>12

(* What is ingested into a store is one.                                   *)
LEMMA StoreType ==
  ASSUME NEW m \in Stores, NEW E \in SUBSET Ops, NEW P \in SUBSET Ops, NEW n \in Ingested(m, E, P)
  PROVE  n \in Stores
<1>1. \A t : t \in Stores <=> DOMAIN t \subseteq Ops /\ t \in [DOMAIN t -> Record]
  BY DEF Stores
<1>2. \A t \in Stores : \A u \in Evicted(t) : u \in Stores
  <2> TAKE t \in Stores
  <2> TAKE u \in Evicted(t)
  <2>1. PICK S \in SUBSET DOMAIN t : u = [h \in S |-> t[h]]
    BY DEF Evicted
  <2>2. S \subseteq Ops /\ \A h \in S : t[h] \in Record
    BY <1>1
  <2>3. u \in [S -> Record]
    BY <2>1, <2>2
  <2> QED
    BY <2>2, <2>3 DEF Stores
<1>3. \A t \in Stores : EntryIngested(t, E) \in Stores
  <2> TAKE t \in Stores
  <2>1. EntryIngested(t, E) \in [DOMAIN t \cup E -> Record]
    BY <1>1 DEF EntryIngested, Record
  <2> QED
    BY <1>1, <2>1 DEF Stores
<1>4. \A t \in Stores : PostIngested(t, P) \in Stores
  <2> TAKE t \in Stores
  <2>1. PostIngested(t, P) \in [DOMAIN t \cup P -> Record]
    BY <1>1 DEF PostIngested, Record
  <2> QED
    BY <1>1, <2>1 DEF Stores
<1> QED
  BY <1>2, <1>3, <1>4 DEF Ingested

----------------------------------------------------------------------------
(* What is accounted for.                                                  *)

(* What is covered stays so: what has been read is filed, queued or lost,  *)
(* and operations are executed in new blocks only.                         *)
LEMMA CoveredStays ==
  ASSUME TypeOK, TypeOK', scanFrom <= scanFrom',
         \A k \in Kinds : Accounted(k) \subseteq Accounted(k)',
         \A h \in Ops : blockOf'[h] = blockOf[h] \/ (blockOf[h] = 0 /\ blockOf'[h] > head)
  PROVE  \A b \in Covered : b <= head => b \in Covered'
<1> SUFFICES ASSUME NEW b \in Covered, b <= head,
                    NEW k \in Kinds, NEW h \in Emitters(k)',
                    scanFrom' <= blockOf'[h], blockOf'[h] <= b
             PROVE  h \in Accounted(k)'
  BY DEF Covered, ReadUpTo
<1>1. /\ head \in Nat /\ scanFrom \in Nat /\ scanFrom' \in Nat /\ b \in Int
      /\ h \in Ops /\ blockOf[h] \in Nat /\ blockOf'[h] \in Nat
  BY DEF TypeOK, Covered, Emitters
<1>2. blockOf'[h] = blockOf[h]
  BY <1>1
<1>3. h \in Emitters(k)
  BY <1>2 DEF Emitters
<1>4. scanFrom <= blockOf[h] /\ blockOf[h] <= b
  BY <1>1, <1>2
<1> QED
  BY <1>3, <1>4 DEF Covered, ReadUpTo

(* No more than what the last scan is to read is asked for.                *)
LEMMA ScanStart ==
  ASSUME TypeOK, NEW b \in Int, b < scanFrom
  PROVE  b \in Covered
<1>1. \A h \in Ops : blockOf[h] \in Int /\ scanFrom \in Int
  BY DEF TypeOK
<1> QED
  BY <1>1 DEF Covered, ReadUpTo, Emitters

(* A step that forgets nothing of what was accounted for.                  *)
StillCovered == \A b \in Covered : b <= head => b \in Covered'

LEMMA ZeroCovered ==
  ASSUME TypeOK
  PROVE  0 \in Covered
<1>1. \A h \in Ops : blockOf[h] \in Nat
  BY DEF TypeOK
<1> QED
  BY <1>1 DEF Covered, ReadUpTo, Emitters

(* Positions that stay, are taken over from the file or are given up.      *)
LEMMA PositionsStay ==
  ASSUME TypeOK, TypeOK', PositionsOK, StillCovered, head <= head',
         lastProcessedBlock' \in {0, lastProcessedBlock, checkpoint},
         checkpoint' \in {0, checkpoint}
  PROVE  PositionsOK'
<1>1. /\ head \in Nat /\ head' \in Nat /\ lastProcessedBlock \in Nat /\ checkpoint \in Nat
  BY DEF TypeOK
<1>2. 0 \in Covered /\ 0 <= head
  BY <1>1, ZeroCovered
<1>3. \A b \in {0, lastProcessedBlock, checkpoint} : b <= head /\ b \in Covered
  BY <1>2 DEF PositionsOK
<1>4. \A b \in {0, lastProcessedBlock, checkpoint} : b <= head' /\ b \in Covered'
  BY <1>1, <1>3 DEF StillCovered
<1> QED
  BY <1>4 DEF PositionsOK

(* Syncs that stay or end.                                                 *)
LEMMA SyncStays ==
  ASSUME TypeOK, TypeOK', SyncsOK, StillCovered, head <= head',
         NEW s \in Syncs, sync'[s] = sync[s] \/ sync'[s] = Idle
  PROVE  /\ sync'[s].latest <= head'
         /\ sync'[s].at \in {"range", "traffic"} => sync'[s].from <= sync'[s].latest
         /\ sync'[s].at = "range" => sync'[s].from - 1 \in Covered'
         /\ sync'[s].at = "traffic" => To(s)' \in Covered'
<1>1. /\ head \in Nat /\ head' \in Nat
      /\ sync[s].at \in At /\ sync[s].from \in Nat /\ sync[s].latest \in Nat
  BY DEF TypeOK
<1>2. CASE sync'[s] = Idle
  BY <1>1, <1>2 DEF Idle
<1>3. CASE sync'[s] = sync[s]
  <2>1. To(s)' = To(s)
    BY <1>3 DEF To
  <2>2. sync[s].latest <= head'
    BY <1>1 DEF SyncsOK
  <2>3. sync[s].at \in {"range", "traffic"} => sync[s].from - 1 <= head /\ To(s) <= head
    BY <1>1, IndexerAssumption DEF SyncsOK, To, Lesser
  <2> QED
    BY <1>3, <2>1, <2>2, <2>3 DEF SyncsOK, StillCovered
<1> QED
  BY <1>2, <1>3

LEMMA SyncsStay ==
  ASSUME TypeOK, TypeOK', SyncsOK, StillCovered, head <= head',
         \A s \in Syncs : sync'[s] = sync[s] \/ sync'[s] = Idle
  PROVE  SyncsOK'
<1>1. \A s \in Syncs :
         /\ sync'[s].latest <= head'
         /\ sync'[s].at \in {"range", "traffic"} => sync'[s].from <= sync'[s].latest
         /\ sync'[s].at = "range" => sync'[s].from - 1 \in Covered'
         /\ sync'[s].at = "traffic" => To(s)' \in Covered'
  BY SyncStays
<1> QED
  BY <1>1 DEF SyncsOK

----------------------------------------------------------------------------
(* The steps.                                                              *)

LEMMA InitOK == Init => IInv
<1> SUFFICES ASSUME Init PROVE IInv
  OBVIOUS
<1>1. <<>> \in Stores
  BY DEF Stores
<1>2. /\ Idle \in [at : At, from : Nat, latest : Nat]
      /\ <<>> \in Seq(Ops \cup NoRecord) /\ <<>> \in Seq(Seq(Ops))
  BY DEF Idle, At
<1>3. TypeOK
  BY <1>1, <1>2, IndexerAssumption DEF Init, TypeOK
<1>4. BatchesOK
  BY DEF Init, BatchesOK
<1>5. PositionsOK
  BY <1>3, ZeroCovered DEF Init, PositionsOK
<1>6. SyncsOK
  BY DEF Init, SyncsOK, Idle
<1> QED
  BY <1>3, <1>4, <1>5, <1>6 DEF IInv

LEMMA NewBlockStep ==
  ASSUME IInv, NewBlock
  PROVE  IInv'
<1>1. TypeOK /\ head' = head + 1 /\ head \in Nat
  BY DEF IInv, TypeOK, NewBlock
<1>2. PICK S \in SUBSET {h \in Ops : blockOf[h] = 0} :
        blockOf' = [h \in Ops |-> IF h \in S THEN head' ELSE blockOf[h]]
  BY DEF NewBlock
<1>3. blockOf' \in [Ops -> 0 .. head']
  BY <1>1, <1>2 DEF TypeOK
<1>4. TypeOK'
  BY <1>1, <1>3 DEF TypeOK, NewBlock, memoryVars, diskVars, historyVars
<1>5. \A k \in Kinds : Accounted(k)' = Accounted(k)
  BY DEF NewBlock, memoryVars, diskVars, historyVars, Accounted, Filed, Queued
<1>6. scanFrom' = scanFrom /\ scanFrom \in Nat
  BY <1>1 DEF NewBlock, historyVars, TypeOK
<1>7. StillCovered
  BY <1>1, <1>2, <1>4, <1>5, <1>6, CoveredStays DEF StillCovered
<1>8. PositionsOK' /\ SyncsOK'
  BY <1>1, <1>4, <1>7, PositionsStay, SyncsStay
     DEF IInv, NewBlock, memoryVars, diskVars
<1>9. BatchesOK'
  BY DEF IInv, BatchesOK, NewBlock, memoryVars
<1> QED
  BY <1>4, <1>8, <1>9 DEF IInv

(* A step of the writer of one file: the batch is in the file or lost.     *)
LEMMA WriterStep ==
  ASSUME IInv, NEW k \in Kinds, Write(k) \/ WriteFails(k)
  PROVE  IInv' /\ \A j \in Kinds : Accounted(j) \subseteq Accounted(j)'
<1>0. TypeOK /\ BatchesOK /\ PositionsOK /\ SyncsOK
  BY DEF IInv
<1>1. /\ queue[k] \in Seq(Seq(Ops)) /\ queue[k] # <<>> /\ file[k] \in Seq(Line)
      /\ queue \in [Kinds -> Seq(Seq(Ops))] /\ file \in [Kinds -> Seq(Line)]
      /\ lost \in [Kinds -> SUBSET Ops] /\ flushing \in [Kinds -> Nat]
      /\ faults \in Nat /\ faults <= MaxFaults
  BY <1>0, IndexerAssumption DEF TypeOK, Line, Write, WriteFails
<1> DEFINE b == Head(queue[k])
<1>2. /\ b \in Seq(Ops) /\ b # <<>> /\ Tail(queue[k]) \in Seq(Seq(Ops))
      /\ \A i \in DOMAIN queue[k] :
           queue[k][i] = b \/ \E j \in DOMAIN Tail(queue[k]) : queue[k][i] = Tail(queue[k])[j]
      /\ \A j \in DOMAIN Tail(queue[k]) : Tail(queue[k])[j] # <<>>
  BY <1>0, <1>1, QueueTail DEF BatchesOK
<1>3. LinesOf(b) \subseteq Ops
  <2>1. \A i \in DOMAIN b : b[i] \in Ops
    BY <1>2
  <2> HIDE DEF b
  <2> QED
    BY <2>1 DEF LinesOf
<1> HIDE DEF b
<1>4. /\ UNCHANGED <<chainVars, process, sync, lastProcessedBlock, store, checkpoint,
                     scanFrom, crashes>>
      /\ queue' = [queue EXCEPT ![k] = Tail(queue[k])]
      /\ flushing' = [flushing EXCEPT ![k] = IF flushing[k] > 0 THEN flushing[k] - 1 ELSE 0]
  BY DEF Write, WriteFails, diskVars
<1>5. /\ file' \in [Kinds -> Seq(Line)]
      /\ \A j \in Kinds : Filed(j) \subseteq Filed(j)'
      /\ lost' \in [Kinds -> SUBSET Ops]
      /\ \A j \in Kinds : lost[j] \subseteq lost'[j]
      /\ LinesOf(b) \subseteq Filed(k)' \cup lost'[k]
      /\ faults' \in 0 .. MaxFaults
  <2>1. CASE Write(k)
    <3>1. /\ file' = [file EXCEPT ![k] = Appended(file[k], b)]
          /\ lost' = [lost EXCEPT ![k] = lost[k] \cup (LinesOf(b) \ LinesOf(file'[k]))]
          /\ faults' = faults
      BY <2>1 DEF Write, b
    <3>2. /\ Appended(file[k], b) \in Seq(Line)
          /\ LinesOf(file[k]) \cap Ops \subseteq LinesOf(Appended(file[k], b))
      BY <1>1, <1>2, AppendedKeeps
    <3>3. /\ file' \in [Kinds -> Seq(Line)]
          /\ \A j \in Kinds : LinesOf(file[j]) \cap Ops \subseteq LinesOf(file'[j])
      BY <1>1, <3>1, <3>2
    <3>4. /\ lost' \in [Kinds -> SUBSET Ops]
          /\ \A j \in Kinds : lost[j] \subseteq lost'[j]
          /\ LinesOf(b) \subseteq LinesOf(file'[k]) \cup lost'[k]
      BY <1>1, <1>3, <3>1
    <3> QED
      BY <1>1, <1>3, <3>1, <3>3, <3>4, IndexerAssumption DEF Filed
  <2>2. CASE WriteFails(k)
    <3>1. /\ file' = file
          /\ lost' = [lost EXCEPT ![k] = lost[k] \cup LinesOf(b)]
          /\ faults < MaxFaults /\ faults' = faults + 1
      BY <2>2 DEF WriteFails, b, diskVars
    <3> QED
      BY <1>1, <1>3, <3>1, IndexerAssumption DEF Filed
  <2> QED
    BY <2>1, <2>2
<1>6. queue' \in [Kinds -> Seq(Seq(Ops))] /\ flushing' \in [Kinds -> Nat]
  BY <1>1, <1>2, <1>4
<1>7. TypeOK'
  BY <1>0, <1>4, <1>5, <1>6 DEF TypeOK, chainVars, Line
<1>8. BatchesOK'
  BY <1>0, <1>1, <1>2, <1>4 DEF BatchesOK
<1>9. \A j \in Kinds : Queued(j) \subseteq Queued(j)' \cup (IF j = k THEN LinesOf(b) ELSE {})
  <2>1. queue'[k] = Tail(queue[k]) /\ \A j \in Kinds : j # k => queue'[j] = queue[j]
    BY <1>1, <1>4
  <2>2. \A j \in Kinds : j # k => Queued(j)' = Queued(j)
    BY <2>1 DEF Queued
  <2>3. ASSUME NEW i \in DOMAIN queue[k], NEW h \in LinesOf(queue[k][i]), h \notin LinesOf(b)
        PROVE  h \in Queued(k)'
    <3>1. PICK j \in DOMAIN queue'[k] : queue[k][i] = queue'[k][j]
      BY <1>2, <2>1, <2>3
    <3> QED
      BY <2>3, <3>1 DEF Queued
  <2>4. Queued(k) \subseteq Queued(k)' \cup LinesOf(b)
    BY <2>3 DEF Queued
  <2> QED
    BY <2>2, <2>4
<1>10. \A j \in Kinds : Accounted(j) \subseteq Accounted(j)'
  BY <1>5, <1>9 DEF Accounted
<1>11. StillCovered
  <2>1. scanFrom' = scanFrom /\ scanFrom \in Nat /\ blockOf' = blockOf
    BY <1>0, <1>4 DEF TypeOK, chainVars
  <2> QED
    BY <1>0, <1>7, <1>10, <2>1, CoveredStays DEF StillCovered
<1>12. head' = head /\ head \in Nat
  BY <1>0, <1>4 DEF TypeOK, chainVars
<1>13. PositionsOK' /\ SyncsOK'
  BY <1>0, <1>4, <1>7, <1>11, <1>12, PositionsStay, SyncsStay
<1> QED
  BY <1>7, <1>8, <1>10, <1>13 DEF IInv

(* Steps that touch neither files nor queues nor what is lost.             *)
LEMMA QuietStep ==
  ASSUME IInv, TypeOK', UNCHANGED <<chainVars, file, queue, lost>>, scanFrom <= scanFrom'
  PROVE  StillCovered /\ BatchesOK' /\ head' = head /\ head \in Nat
<1>1. \A k \in Kinds : Accounted(k) \subseteq Accounted(k)'
  BY DEF Accounted, Filed, Queued
<1>2. blockOf' = blockOf /\ head' = head /\ TypeOK /\ head \in Nat
  BY DEF chainVars, IInv, TypeOK
<1>3. BatchesOK'
  BY DEF BatchesOK, IInv
<1> QED
  BY <1>1, <1>2, <1>3, CoveredStays DEF StillCovered

LEMMA TailRecords ==
  ASSUME NEW f \in Seq(Line)
  PROVE  TailOf(f) \subseteq Ops
BY DEF TailOf

LEMMA ProcessStep ==
  ASSUME IInv, Boot \/ BootFails \/ Stop
  PROVE  IInv'
<1>0. TypeOK /\ PositionsOK /\ SyncsOK
  BY DEF IInv
<1>1. UNCHANGED <<chainVars, sync, queue, file, lost, scanFrom, checkpoint>>
  BY DEF Boot, BootFails, Stop, diskVars, historyVars
<1>2. lastProcessedBlock' \in {lastProcessedBlock, checkpoint}
  BY DEF Boot, BootFails, Stop
<1>3. TypeOK'
  <2>1. CASE Boot
    <3>1. store' \in Stores
      <4>1. <<>> \in Stores
        BY DEF Stores
      <4>2. TailOf(file["entry"]) \in SUBSET Ops /\ TailOf(file["post"]) \in SUBSET Ops
        BY DEF TailOf
      <4> QED
        BY <2>1, <4>1, <4>2, StoreType DEF Boot
    <3> QED
      BY <1>0, <1>1, <2>1, <3>1 DEF Boot, TypeOK, chainVars, diskVars, historyVars
  <2>2. CASE BootFails
    BY <1>0, <1>1, <2>2, IndexerAssumption DEF BootFails, TypeOK, chainVars, diskVars
  <2>3. CASE Stop
    <3>1. flushing' \in [Kinds -> Nat]
      BY <1>0, <2>3 DEF Stop, TypeOK
    <3> QED
      BY <1>0, <1>1, <2>3, <3>1 DEF Stop, TypeOK, chainVars, diskVars, historyVars
  <2> QED
    BY <2>1, <2>2, <2>3
<1>4. StillCovered /\ BatchesOK' /\ head' = head /\ head \in Nat
  <2>1. scanFrom <= scanFrom'
    BY <1>0, <1>1 DEF TypeOK
  <2> QED
    BY <1>1, <1>3, <2>1, QuietStep
<1>5. PositionsOK' /\ SyncsOK'
  BY <1>0, <1>1, <1>2, <1>3, <1>4, PositionsStay, SyncsStay
<1> QED
  BY <1>3, <1>4, <1>5 DEF IInv

(* A sync that starts, fails or learns what the last block is.             *)
LEMMA AwaitStep ==
  ASSUME IInv, NEW s \in Syncs, SyncStarts(s) \/ HeadRead(s) \/ SyncFails(s)
  PROVE  IInv'
<1>0. TypeOK /\ PositionsOK /\ SyncsOK
  BY DEF IInv
<1>1. /\ head \in Nat /\ lastProcessedBlock \in Nat /\ scanFrom \in Nat /\ faults \in 0 .. MaxFaults
      /\ sync \in [Syncs -> [at : At, from : Nat, latest : Nat]]
      /\ sync[s].latest \in Nat /\ sync[s].latest <= head
  BY <1>0 DEF TypeOK, SyncsOK
<1>2. UNCHANGED <<chainVars, process, lastProcessedBlock, store, queue, flushing, diskVars, lost, crashes>>
  BY DEF SyncStarts, HeadRead, SyncFails, historyVars
<1> DEFINE Awaits(r) ==
             /\ sync' = [sync EXCEPT ![s] = r]
             /\ scanFrom' \in Nat /\ scanFrom <= scanFrom' /\ faults' \in 0 .. MaxFaults
             /\ r.latest <= head /\ r.at # "traffic"
             /\ r.at = "range" => /\ r.from <= r.latest
                                  /\ r.from - 1 \in Covered \/ r.from <= scanFrom'
<1>3. \E r \in [at : At, from : Nat, latest : Nat] : Awaits(r)
  <2>1. CASE SyncStarts(s)
    <3> DEFINE n == [at |-> "head", from |-> 0, latest |-> head]
    <3>1. sync' = [sync EXCEPT ![s] = n] /\ scanFrom' = scanFrom /\ faults' = faults
      BY <2>1 DEF SyncStarts, historyVars
    <3>2. /\ n \in [at : At, from : Nat, latest : Nat]
          /\ n.latest <= head /\ n.at # "traffic" /\ n.at # "range"
      BY <1>1 DEF At
    <3>3. Awaits(n)
      BY <1>1, <3>1, <3>2
    <3> QED
      BY <3>2, <3>3
  <2>2. CASE HeadRead(s)
    <3> DEFINE from(latest) == IF lastProcessedBlock = 0 THEN Lookback(latest) ELSE lastProcessedBlock + 1
               next(latest) == IF Behind(from(latest), latest)
                               THEN [at |-> "range", from |-> from(latest), latest |-> latest] ELSE Idle
    <3>1. PICK latest \in sync[s].latest .. head :
            /\ sync' = [sync EXCEPT ![s] = next(latest)]
            /\ scanFrom' = IF lastProcessedBlock = 0 THEN Greater(scanFrom, from(latest)) ELSE scanFrom
      BY <2>2 DEF HeadRead
    <3>2. latest \in Nat /\ latest <= head
      BY <1>1, <3>1
    <3>3. from(latest) \in Nat
      BY <1>1, <3>2, IndexerAssumption DEF Lookback, Greater
    <3>4. /\ scanFrom' \in Nat /\ scanFrom <= scanFrom'
          /\ from(latest) - 1 \in Covered \/ from(latest) <= scanFrom'
      <4>1. CASE lastProcessedBlock = 0
        <5>1. scanFrom' = Greater(scanFrom, from(latest)) /\ from(latest) \in Nat
          BY <3>1, <3>3, <4>1
        <5> HIDE DEF from
        <5> QED
          BY <1>1, <5>1 DEF Greater
      <4>2. CASE lastProcessedBlock # 0
        <5>1. from(latest) - 1 = lastProcessedBlock /\ scanFrom' = scanFrom
          BY <1>1, <3>1, <4>2
        <5> HIDE DEF from
        <5> QED
          BY <1>0, <1>1, <5>1 DEF PositionsOK
      <4> QED
        BY <4>1, <4>2
    <3>5. faults' = faults
      BY <2>2 DEF HeadRead
    <3> HIDE DEF from
    <3>6. next(latest) \in [at : At, from : Nat, latest : Nat]
      BY <3>2, <3>3 DEF At, Idle
    <3>7. /\ next(latest).latest <= head /\ next(latest).at # "traffic"
          /\ next(latest).at = "range" => /\ next(latest).from = from(latest)
                                          /\ next(latest).from <= next(latest).latest
      BY <1>1, <3>2, <3>3 DEF Idle, Behind
    <3> HIDE DEF next
    <3>8. Awaits(next(latest))
      BY <1>1, <3>1, <3>4, <3>5, <3>7
    <3> QED
      BY <3>6, <3>8
  <2>3. CASE SyncFails(s)
    <3> DEFINE n == Idle
    <3>1. sync' = [sync EXCEPT ![s] = n] /\ scanFrom' = scanFrom /\ faults < MaxFaults /\ faults' = faults + 1
      BY <2>3 DEF SyncFails
    <3>2. /\ n \in [at : At, from : Nat, latest : Nat]
          /\ n.latest <= head /\ n.at # "traffic" /\ n.at # "range"
      BY <1>1 DEF At, Idle
    <3>3. faults' \in 0 .. MaxFaults
      BY <1>1, <3>1, IndexerAssumption
    <3>4. Awaits(n)
      BY <1>1, <3>1, <3>2, <3>3
    <3> QED
      BY <3>2, <3>4
  <2> QED
    BY <2>1, <2>2, <2>3
<1> SUFFICES ASSUME NEW r \in [at : At, from : Nat, latest : Nat], Awaits(r) PROVE IInv'
  BY <1>3
<1>4. TypeOK'
  <2>1. sync' \in [Syncs -> [at : At, from : Nat, latest : Nat]]
    BY <1>1
  <2> QED
    BY <1>0, <1>2, <2>1 DEF TypeOK, chainVars, diskVars
<1>5. StillCovered /\ BatchesOK' /\ head' = head /\ head \in Nat
  BY <1>2, <1>4, QuietStep DEF diskVars
<1>6. PositionsOK'
  BY <1>0, <1>2, <1>4, <1>5, PositionsStay DEF diskVars
<1>7. SyncsOK'
  <2> SUFFICES ASSUME NEW u \in Syncs
               PROVE  /\ sync'[u].latest <= head'
                      /\ sync'[u].at \in {"range", "traffic"} => sync'[u].from <= sync'[u].latest
                      /\ sync'[u].at = "range" => sync'[u].from - 1 \in Covered'
                      /\ sync'[u].at = "traffic" => To(u)' \in Covered'
    BY DEF SyncsOK
  <2>1. CASE u # s
    <3>1. sync'[u] = sync[u]
      BY <1>1, <2>1
    <3> QED
      BY <1>0, <1>4, <1>5, <3>1, SyncStays
  <2>2. CASE u = s
    <3>1. sync'[u] = r
      BY <1>1, <2>2
    <3>2. ASSUME r.at = "range" PROVE r.from - 1 \in Covered'
      <4>1. r.from \in Nat /\ r.latest \in Nat /\ r.from - 1 <= head /\ r.from - 1 \in Int
        BY <1>1, <3>2
      <4>2. CASE r.from - 1 \in Covered
        BY <1>5, <4>1, <4>2 DEF StillCovered
      <4>3. CASE r.from <= scanFrom'
        <5>1. r.from - 1 < scanFrom'
          BY <4>1, <4>3
        <5>2. \A h \in Ops : blockOf'[h] \in Int
          BY <1>4 DEF TypeOK
        <5> QED
          BY <4>1, <5>1, <5>2 DEF Covered, ReadUpTo, Emitters
      <4> QED
        BY <3>2, <4>2, <4>3
    <3> QED
      BY <1>5, <3>1, <3>2
  <2> QED
    BY <2>1, <2>2
<1> QED
  BY <1>4, <1>5, <1>6, <1>7 DEF IInv

(* The end of a range that is within the chain.                            *)
LEMMA RangeEnd ==
  ASSUME TypeOK, SyncsOK, NEW s \in Syncs, sync[s].at \in {"range", "traffic"}
  PROVE  /\ sync[s].from \in Nat /\ sync[s].latest \in Nat /\ head \in Nat
         /\ To(s) \in Nat /\ To(s) <= head /\ To(s) <= sync[s].latest
         /\ To(s) >= sync[s].from
<1>1. /\ sync[s].from \in Nat /\ sync[s].latest \in Nat /\ head \in Nat
      /\ sync[s].from <= sync[s].latest /\ sync[s].latest <= head
  BY DEF TypeOK, SyncsOK
<1> QED
  BY <1>1, IndexerAssumption DEF To, Lesser

(* The logs of a range have been read: it is covered, too.                 *)
LEMMA SyncRangeStep ==
  ASSUME IInv, NEW s \in Syncs, SyncRange(s)
  PROVE  /\ IInv'
         /\ \A k \in Kinds : Accounted(k) \subseteq Accounted(k)' /\ Logs(s, k) \subseteq Accounted(k)'
<1>0. TypeOK /\ BatchesOK /\ PositionsOK /\ SyncsOK
  BY DEF IInv
<1>1. /\ sync[s].at = "range"
      /\ sync' = [sync EXCEPT ![s].at = "traffic"]
      /\ UNCHANGED <<chainVars, process, lastProcessedBlock, flushing, diskVars, scanFrom, crashes>>
  BY DEF SyncRange
<1>2. PICK E \in SUBSET Logs(s, "entry"), P \in SUBSET Logs(s, "post") :
        LET unread == [k \in Kinds |-> Logs(s, k) \ (IF k = "entry" THEN E ELSE P)]
        IN  /\ faults' = faults + Cardinality(unread["entry"]) + Cardinality(unread["post"])
            /\ faults' <= MaxFaults
            /\ store' \in Ingested(store, E, P)
            /\ \E e \in Listings(E), p \in Listings(P) :
                 queue' = [k \in Kinds |-> Appends(queue[k], IF k = "entry" THEN e ELSE p)]
            /\ lost' = [k \in Kinds |-> lost[k] \cup unread[k]]
  BY DEF SyncRange
<1> DEFINE read(k) == IF k = "entry" THEN E ELSE P
           unread == [k \in Kinds |-> Logs(s, k) \ read(k)]
<1>3. /\ faults' = faults + Cardinality(unread["entry"]) + Cardinality(unread["post"])
      /\ faults' <= MaxFaults
      /\ store' \in Ingested(store, E, P)
      /\ lost' = [k \in Kinds |-> lost[k] \cup unread[k]]
  BY <1>2
<1>4. PICK e \in Listings(E), p \in Listings(P) :
        queue' = [k \in Kinds |-> Appends(queue[k], IF k = "entry" THEN e ELSE p)]
  BY <1>2
<1>5. \A k \in Kinds : Logs(s, k) \subseteq Ops /\ read(k) \subseteq Logs(s, k)
  BY DEF Logs, Emitters, Kinds
<1>6. E \subseteq Ops /\ P \subseteq Ops
  BY <1>5 DEF Kinds
<1> DEFINE batch(k) == IF k = "entry" THEN e ELSE p
<1>7. \A k \in Kinds :
        /\ batch(k) \in Seq(Ops) /\ LinesOf(batch(k)) = read(k)
        /\ batch(k) = <<>> => read(k) = {}
  BY <1>6, ListingHasAll
<1>8. queue' = [k \in Kinds |-> Appends(queue[k], batch(k))]
  BY <1>4
<1> HIDE DEF batch
<1>9. \A k \in Kinds :
        /\ queue'[k] \in Seq(Seq(Ops))
        /\ \A i \in DOMAIN queue'[k] : queue'[k][i] # <<>>
        /\ \A i \in DOMAIN queue[k] : \E j \in DOMAIN queue'[k] : queue'[k][j] = queue[k][i]
        /\ batch(k) # <<>> => \E j \in DOMAIN queue'[k] : queue'[k][j] = batch(k)
  <2> TAKE k \in Kinds
  <2>1. queue[k] \in Seq(Seq(Ops)) /\ \A i \in DOMAIN queue[k] : queue[k][i] # <<>>
    BY <1>0 DEF TypeOK, BatchesOK
  <2>2. queue'[k] = Appends(queue[k], batch(k)) /\ batch(k) \in Seq(Ops)
    BY <1>7, <1>8
  <2> DEFINE a == Appends(queue[k], batch(k))
  <2>3. /\ a \in Seq(Seq(Ops)) /\ \A i \in DOMAIN a : a[i] # <<>>
        /\ \A i \in DOMAIN queue[k] : \E j \in DOMAIN a : a[j] = queue[k][i]
        /\ batch(k) # <<>> => \E j \in DOMAIN a : a[j] = batch(k)
    BY <2>1, <2>2, QueueAppends
  <2> QED
    BY <2>2, <2>3
<1>10. TypeOK'
  <2>1. queue' \in [Kinds -> Seq(Seq(Ops))]
    BY <1>8, <1>9
  <2>2. store' \in Stores
    BY <1>0, <1>3, <1>6, StoreType DEF TypeOK
  <2>3. lost' \in [Kinds -> SUBSET Ops]
    BY <1>0, <1>3, <1>5 DEF TypeOK
  <2>4. faults' \in 0 .. MaxFaults
    <3>1. \A k \in Kinds : IsFiniteSet(unread[k])
      BY <1>5, IndexerAssumption, FS_Subset
    <3>2. Cardinality(unread["entry"]) \in Nat /\ Cardinality(unread["post"]) \in Nat
      BY <3>1, FS_CardinalityType DEF Kinds
    <3> HIDE DEF unread
    <3> QED
      BY <1>0, <1>3, <3>2, IndexerAssumption DEF TypeOK
  <2>5. sync' \in [Syncs -> [at : At, from : Nat, latest : Nat]]
    BY <1>0, <1>1 DEF TypeOK, At
  <2> QED
    BY <1>0, <1>1, <2>1, <2>2, <2>3, <2>4, <2>5 DEF TypeOK, chainVars, diskVars
<1>11. BatchesOK'
  BY <1>9 DEF BatchesOK
<1>12. \A k \in Kinds : Queued(k) \subseteq Queued(k)' /\ read(k) \subseteq Queued(k)'
  <2> TAKE k \in Kinds
  <2>1. Queued(k) \subseteq Queued(k)'
    BY <1>9 DEF Queued
  <2>2. read(k) \subseteq Queued(k)'
    <3>1. CASE batch(k) = <<>>
      BY <1>7, <3>1
    <3>2. CASE batch(k) # <<>>
      <4>1. PICK j \in DOMAIN queue'[k] : queue'[k][j] = batch(k)
        BY <1>9, <3>2
      <4>2. LinesOf(queue'[k][j]) = read(k)
        BY <1>7, <4>1
      <4> QED
        BY <4>2 DEF Queued
    <3> QED
      BY <3>1, <3>2
  <2> QED
    BY <2>1, <2>2
<1>13. \A k \in Kinds : lost[k] \subseteq lost'[k] /\ Filed(k)' = Filed(k)
  BY <1>1, <1>3 DEF Filed, diskVars
<1>14. \A k \in Kinds : Logs(s, k) \subseteq Accounted(k)'
  <2> TAKE k \in Kinds
  <2>1. Logs(s, k) \ read(k) \subseteq lost'[k]
    BY <1>3
  <2> QED
    BY <1>12, <2>1 DEF Accounted
<1>15. /\ scanFrom' = scanFrom /\ scanFrom \in Nat /\ blockOf' = blockOf
       /\ head' = head /\ head \in Nat
  BY <1>0, <1>1 DEF TypeOK, chainVars
<1>16. \A k \in Kinds : Accounted(k) \subseteq Accounted(k)'
  BY <1>12, <1>13 DEF Accounted
<1>17. StillCovered
  BY <1>0, <1>10, <1>15, <1>16, CoveredStays DEF StillCovered
<1>18. PositionsOK'
  BY <1>0, <1>1, <1>10, <1>15, <1>17, PositionsStay DEF diskVars
<1>19. SyncsOK'
  <2> SUFFICES ASSUME NEW u \in Syncs
               PROVE  /\ sync'[u].latest <= head'
                      /\ sync'[u].at \in {"range", "traffic"} => sync'[u].from <= sync'[u].latest
                      /\ sync'[u].at = "range" => sync'[u].from - 1 \in Covered'
                      /\ sync'[u].at = "traffic" => To(u)' \in Covered'
    BY DEF SyncsOK
  <2>1. CASE u # s
    <3>1. sync'[u] = sync[u]
      BY <1>0, <1>1, <2>1 DEF TypeOK
    <3> QED
      BY <1>0, <1>10, <1>15, <1>17, <3>1, SyncStays
  <2>2. CASE u = s
    <3>1. /\ sync'[s].at = "traffic" /\ sync'[s].from = sync[s].from
          /\ sync'[s].latest = sync[s].latest
      BY <1>0, <1>1 DEF TypeOK
    <3>2. To(s)' = To(s)
      BY <3>1 DEF To
    <3>3. /\ sync[s].from \in Nat /\ sync[s].latest <= head /\ sync[s].from <= sync[s].latest
          /\ To(s) \in Nat /\ To(s) <= head
      BY <1>0, <1>1, RangeEnd DEF SyncsOK
    <3>4. sync[s].from - 1 \in Covered'
      <4>1. sync[s].from - 1 \in Covered /\ sync[s].from - 1 <= head
        BY <1>0, <1>1, <1>15, <3>3 DEF SyncsOK, TypeOK
      <4> QED
        BY <1>17, <4>1 DEF StillCovered
    <3>5. To(s) \in Covered'
      <4> SUFFICES ASSUME NEW k \in Kinds, NEW h \in Emitters(k)',
                          scanFrom' <= blockOf'[h], blockOf'[h] <= To(s)
                   PROVE  h \in Accounted(k)'
        BY <3>3 DEF Covered, ReadUpTo
      <4>1. h \in Emitters(k) /\ blockOf[h] \in Nat
        BY <1>0, <1>15 DEF Emitters, TypeOK
      <4>2. CASE blockOf[h] <= sync[s].from - 1
        BY <1>15, <3>4, <4>2 DEF Covered, ReadUpTo
      <4>3. CASE sync[s].from <= blockOf[h]
        <5>1. h \in Logs(s, k)
          BY <1>15, <4>1, <4>3 DEF Logs
        <5> QED
          BY <1>14, <5>1
      <4> QED
        BY <3>3, <4>1, <4>2, <4>3
    <3> QED
      BY <1>15, <2>2, <3>1, <3>2, <3>3, <3>5
  <2> QED
    BY <2>1, <2>2
<1> QED
  BY <1>10, <1>11, <1>14, <1>16, <1>18, <1>19 DEF IInv

(* The range is over: the position and, unless the write fails, the        *)
(* checkpoint are at its end.                                              *)
LEMMA AdvanceStep ==
  ASSUME IInv, NEW s \in Syncs, Advance(s) \/ AdvanceUnsaved(s)
  PROVE  IInv'
<1>0. TypeOK /\ PositionsOK /\ SyncsOK
  BY DEF IInv
<1>1. /\ sync[s].at = "traffic" /\ lastProcessedBlock' = To(s)
      /\ checkpoint' \in {To(s), checkpoint, 0}
      /\ UNCHANGED <<chainVars, process, store, queue, flushing, file, lost, scanFrom, crashes>>
      /\ faults' = faults \/ (faults < MaxFaults /\ faults' = faults + 1)
      /\ \/ sync' = [sync EXCEPT ![s] = Idle]
         \/ To(s) + 1 <= sync[s].latest /\ sync' = [sync EXCEPT ![s] = NextRange(s)]
  BY DEF Advance, AdvanceUnsaved, Behind, historyVars
<1>2. /\ To(s) \in Nat /\ To(s) <= head /\ To(s) \in Covered /\ head \in Nat
      /\ sync[s].latest \in Nat /\ sync[s].latest <= head
  BY <1>0, <1>1, RangeEnd DEF SyncsOK
<1>3. /\ NextRange(s) \in [at : At, from : Nat, latest : Nat]
      /\ NextRange(s).at = "range" /\ NextRange(s).from = To(s) + 1
      /\ NextRange(s).latest = sync[s].latest
  <2>1. sync[s] \in [at : At, from : Nat, latest : Nat] /\ To(s) + 1 \in Nat /\ "range" \in At
    BY <1>0, <1>2 DEF TypeOK, At
  <2> QED
    BY <2>1 DEF NextRange
<1>4. TypeOK'
  <2>1. Idle \in [at : At, from : Nat, latest : Nat]
    BY DEF Idle, At
  <2>2. sync' \in [Syncs -> [at : At, from : Nat, latest : Nat]]
    BY <1>0, <1>1, <1>3, <2>1 DEF TypeOK
  <2>3. faults' \in 0 .. MaxFaults
    BY <1>0, <1>1, IndexerAssumption DEF TypeOK
  <2> QED
    BY <1>0, <1>1, <1>2, <2>2, <2>3 DEF TypeOK, chainVars
<1>5. StillCovered /\ BatchesOK' /\ head' = head
  <2>1. scanFrom <= scanFrom'
    BY <1>0, <1>1 DEF TypeOK
  <2> QED
    BY <1>1, <1>4, <2>1, QuietStep
<1>6. To(s) \in Covered' /\ checkpoint \in Covered' /\ 0 \in Covered'
  <2>1. 0 <= head /\ 0 \in Covered
    BY <1>0, <1>2, ZeroCovered
  <2> QED
    BY <1>0, <1>2, <1>5, <2>1 DEF StillCovered, PositionsOK
<1>7. PositionsOK'
  BY <1>0, <1>1, <1>2, <1>5, <1>6 DEF PositionsOK
<1>8. SyncsOK'
  <2> SUFFICES ASSUME NEW u \in Syncs
               PROVE  /\ sync'[u].latest <= head'
                      /\ sync'[u].at \in {"range", "traffic"} => sync'[u].from <= sync'[u].latest
                      /\ sync'[u].at = "range" => sync'[u].from - 1 \in Covered'
                      /\ sync'[u].at = "traffic" => To(u)' \in Covered'
    BY DEF SyncsOK
  <2>1. CASE u # s \/ sync' = [sync EXCEPT ![s] = Idle]
    <3>1. sync'[u] = sync[u] \/ sync'[u] = Idle
      BY <1>0, <1>1, <2>1 DEF TypeOK
    <3> QED
      BY <1>0, <1>2, <1>4, <1>5, <3>1, SyncStays
  <2>2. CASE u = s /\ To(s) + 1 <= sync[s].latest /\ sync' = [sync EXCEPT ![s] = NextRange(s)]
    <3>1. sync'[u] = NextRange(s)
      BY <1>0, <2>2 DEF TypeOK
    <3>2. sync'[u].from - 1 = To(s)
      BY <1>2, <1>3, <3>1
    <3> QED
      BY <1>2, <1>3, <1>5, <1>6, <2>2, <3>1, <3>2
  <2> QED
    BY <1>1, <2>1, <2>2
<1> QED
  BY <1>4, <1>5, <1>7, <1>8 DEF IInv

(* The process ends: what was queued is in the file or lost.               *)
LEMMA EndStep ==
  ASSUME IInv, Crash \/ CrashInCheckpoint \/ Exit
  PROVE  IInv' /\ \A k \in Kinds : Accounted(k) \subseteq Accounted(k)'
<1>0. TypeOK /\ BatchesOK /\ PositionsOK /\ SyncsOK
  BY DEF IInv
<1>1. ProcessEnds /\ checkpoint' \in {0, checkpoint}
  BY DEF Crash, CrashInCheckpoint, Exit
<1>2. /\ crashes < MaxCrashes /\ crashes' = crashes + 1
      /\ process' = "down" /\ sync' = [s \in Syncs |-> Idle]
      /\ lastProcessedBlock' = 0 /\ store' = <<>>
      /\ lost' = [k \in Kinds |-> lost[k] \cup (Queued(k) \ LinesOf(file'[k]))]
      /\ queue' = [k \in Kinds |-> <<>>] /\ flushing' = [k \in Kinds |-> 0]
      /\ UNCHANGED <<chainVars, scanFrom, faults>>
  BY <1>1 DEF ProcessEnds
<1>3. /\ file' = [k \in Kinds |-> file'[k]]
      /\ \A k \in Kinds : file'[k] \in Remains(file[k], queue[k])
  BY <1>1 DEF ProcessEnds, Kinds
<1>4. \A k \in Kinds : file'[k] \in Seq(Line) /\ LinesOf(file[k]) \cap Ops \subseteq LinesOf(file'[k])
  <2> TAKE k \in Kinds
  <2>1. /\ file[k] \in Seq(Line) /\ queue[k] \in Seq(Seq(Ops))
        /\ \A i \in DOMAIN queue[k] : queue[k][i] # <<>>
    BY <1>0 DEF TypeOK, BatchesOK, Line
  <2>2. file'[k] \in Remains(file[k], queue[k])
    BY <1>3
  <2> QED
    BY <2>1, <2>2, RemainsKeeps
<1>5. \A k \in Kinds : Queued(k) \subseteq Ops
  <2> SUFFICES ASSUME NEW k \in Kinds, NEW i \in DOMAIN queue[k], NEW j \in DOMAIN queue[k][i]
               PROVE  queue[k][i][j] \in Ops
    BY DEF Queued, LinesOf
  <2>1. queue[k] \in Seq(Seq(Ops))
    BY <1>0 DEF TypeOK
  <2>2. queue[k][i] \in Seq(Ops)
    BY <2>1
  <2> QED
    BY <2>2
<1>6. TypeOK'
  <2>1. file' \in [Kinds -> Seq(Line)]
    BY <1>3, <1>4
  <2>2. lost' \in [Kinds -> SUBSET Ops]
    BY <1>0, <1>2, <1>5 DEF TypeOK
  <2>3. <<>> \in Stores /\ Idle \in [at : At, from : Nat, latest : Nat] /\ <<>> \in Seq(Seq(Ops))
    <3>1. <<>> \in Stores
      BY DEF Stores
    <3>2. Idle \in [at : At, from : Nat, latest : Nat]
      BY DEF Idle, At
    <3> QED
      BY <3>1, <3>2
  <2>4. crashes' \in 0 .. MaxCrashes
    BY <1>0, <1>2, IndexerAssumption DEF TypeOK
  <2>5. /\ sync' \in [Syncs -> [at : At, from : Nat, latest : Nat]]
        /\ queue' \in [Kinds -> Seq(Seq(Ops))] /\ flushing' \in [Kinds -> Nat]
    BY <1>2, <2>3
  <2> QED
    BY <1>0, <1>1, <1>2, <2>1, <2>2, <2>3, <2>4, <2>5 DEF TypeOK, chainVars, Line
<1>7. BatchesOK'
  BY <1>2 DEF BatchesOK
<1>8. \A k \in Kinds : Accounted(k) \subseteq Accounted(k)'
  <2> TAKE k \in Kinds
  <2>1. Filed(k) \subseteq Filed(k)'
    BY <1>4 DEF Filed
  <2>2. lost[k] \subseteq lost'[k]
    BY <1>2
  <2>3. Queued(k) \subseteq lost'[k] \cup Filed(k)'
    BY <1>2, <1>5 DEF Filed
  <2> QED
    BY <2>1, <2>2, <2>3 DEF Accounted
<1>9. /\ scanFrom' = scanFrom /\ scanFrom \in Nat /\ blockOf' = blockOf
      /\ head' = head /\ head \in Nat
  BY <1>0, <1>2 DEF TypeOK, chainVars
<1>10. StillCovered
  BY <1>0, <1>6, <1>8, <1>9, CoveredStays DEF StillCovered
<1>11. PositionsOK'
  BY <1>0, <1>1, <1>2, <1>6, <1>9, <1>10, PositionsStay
<1>12. SyncsOK'
  BY <1>0, <1>2, <1>6, <1>9, <1>10, SyncsStay
<1> QED
  BY <1>6, <1>7, <1>8, <1>11, <1>12 DEF IInv

----------------------------------------------------------------------------
(* The indexer's inductive invariant holds in every run.                   *)
THEOREM IndexerInvariant == Spec => []IInv
<1>1. IInv /\ [Next]_vars => IInv'
  <2> SUFFICES ASSUME IInv, [Next]_vars PROVE IInv'
    OBVIOUS
  <2>1. ASSUME NEW s \in Syncs,
               SyncStarts(s) \/ SyncProceeds(s) \/ AdvanceUnsaved(s) \/ SyncFails(s)
        PROVE  IInv'
    BY <2>1, AwaitStep, SyncRangeStep, AdvanceStep DEF SyncProceeds
  <2>2. CASE UNCHANGED vars
    BY <2>2 DEF vars, chainVars, memoryVars, diskVars, historyVars, IInv, TypeOK, BatchesOK,
                PositionsOK, SyncsOK, Covered, ReadUpTo, Emitters, Accounted, Filed, Queued, To
  <2> QED
    BY <2>1, <2>2, NewBlockStep, ProcessStep, EndStep, WriterStep DEF Next
<1> QED
  BY <1>1, InitOK, PTL DEF Spec

(* The indexer's state has its types, whatever fails or crashes.           *)
THEOREM IndexerTypes == Spec => []TypeOK
<1>1. IInv => TypeOK
  BY DEF IInv
<1> QED
  BY <1>1, IndexerInvariant, PTL

(* No block is skipped, for any number of overlapping syncs, any ranges    *)
(* and retention, and any faults, crashes and restarts.                    *)
THEOREM NothingSkipped == Spec => []NoBlockSkipped
<1>1. IInv => NoBlockSkipped
  BY DEF IInv, PositionsOK, Covered, NoBlockSkipped, Greater
<1> QED
  BY <1>1, IndexerInvariant, PTL

----------------------------------------------------------------------------
(* Eviction.  A store is full of what is not older than a block.           *)
FullOf(m, b) ==
  Cardinality(DOMAIN m) = retentionMax /\ \A g \in DOMAIN m : blockOf[g] >= b

LEMMA FiniteOps ==
  ASSUME NEW S, S \subseteq Ops
  PROVE  /\ IsFiniteSet(S) /\ Cardinality(S) \in Nat
         /\ \A T \in SUBSET S : /\ Cardinality(T) \in Nat /\ Cardinality(T) <= Cardinality(S)
                                /\ Cardinality(T) = Cardinality(S) => T = S
<1>1. IsFiniteSet(S)
  BY IndexerAssumption, FS_Subset
<1>2. \A T \in SUBSET S : IsFiniteSet(T) /\ Cardinality(T) <= Cardinality(S)
                          /\ (Cardinality(T) = Cardinality(S) => T = S)
  BY <1>1, FS_Subset
<1> QED
  BY <1>1, <1>2, FS_CardinalityType

(* What is evicted is not newer than anything that is kept.                *)
LEMMA EvictedOld ==
  ASSUME NEW m, DOMAIN m \subseteq Ops, NEW u \in Evicted(m)
  PROVE  /\ DOMAIN u \subseteq DOMAIN m /\ \A h \in DOMAIN u : u[h] = m[h]
         /\ Kept(m, DOMAIN u)
         /\ \A h \in DOMAIN m \ DOMAIN u : FullOf(u, blockOf[h])
<1>1. PICK S \in SUBSET DOMAIN m : Kept(m, S) /\ u = [h \in S |-> m[h]]
  BY DEF Evicted
<1>2. DOMAIN u = S /\ \A h \in S : u[h] = m[h]
  BY <1>1
<1>3. ASSUME NEW h \in DOMAIN m \ S
      PROVE  FullOf(u, blockOf[h])
  <2>1. Cardinality(S) # Cardinality(DOMAIN m)
    BY <1>3, FiniteOps
  <2>2. Cardinality(S) = retentionMax
    BY <1>1, <2>1 DEF Kept, Lesser
  <2>3. \A g \in S : blockOf[h] <= blockOf[g]
    BY <1>1, <1>3 DEF Kept
  <2> QED
    BY <1>2, <2>2, <2>3 DEF FullOf
<1> QED
  BY <1>1, <1>2, <1>3

(* A full store that is added to and cut again is no older.                *)
LEMMA FullStays ==
  ASSUME TypeOK, NEW n, NEW b \in Nat, FullOf(n, b),
         NEW m, DOMAIN m \subseteq Ops, DOMAIN n \subseteq DOMAIN m, NEW u \in Evicted(m)
  PROVE  FullOf(u, b)
<1>1. DOMAIN u \subseteq DOMAIN m /\ Kept(m, DOMAIN u)
  BY EvictedOld
<1>2. Cardinality(DOMAIN n) = retentionMax /\ Cardinality(DOMAIN n) <= Cardinality(DOMAIN m)
  BY FiniteOps DEF FullOf
<1>3. Cardinality(DOMAIN u) = retentionMax
  <2>1. Cardinality(DOMAIN m) \in Nat /\ retentionMax \in Nat
    BY FiniteOps, IndexerAssumption
  <2> QED
    BY <1>1, <1>2, <2>1 DEF Kept, Lesser
<1>4. ASSUME NEW g \in DOMAIN u
      PROVE  blockOf[g] >= b
  <2>1. CASE g \in DOMAIN n
    BY <2>1 DEF FullOf
  <2>2. CASE g \notin DOMAIN n
    <3>1. PICK x \in DOMAIN n : x \notin DOMAIN u
      <4>1. DOMAIN u \subseteq Ops
        BY <1>1
      <4>2. DOMAIN n \subseteq DOMAIN u => DOMAIN n = DOMAIN u
        BY <1>2, <1>3, <4>1, FiniteOps
      <4> QED
        BY <1>4, <2>2, <4>2
    <3>2. x \in DOMAIN m \ DOMAIN u
      BY <3>1
    <3>3. blockOf[x] <= blockOf[g]
      BY <1>1, <1>4, <3>2 DEF Kept
    <3>4. blockOf[x] >= b
      BY <3>1 DEF FullOf
    <3>5. blockOf[x] \in Nat /\ blockOf[g] \in Nat
      BY <1>1, <1>4, <3>2 DEF TypeOK
    <3> QED
      BY <3>3, <3>4, <3>5
  <2> QED
    BY <2>1, <2>2
<1> QED
  BY <1>3, <1>4 DEF FullOf

(* What the two ingestions of a sync, or of a restart, leave in the store. *)
LEMMA IngestedIs ==
  ASSUME TypeOK, NEW m \in Stores, NEW E \in SUBSET Ops, NEW P \in SUBSET Ops,
         NEW u \in Ingested(m, E, P)
  PROVE  /\ DOMAIN u \subseteq DOMAIN m \cup E \cup P
         /\ \A b \in Nat : FullOf(m, b) => FullOf(u, b)
         /\ \A h \in (DOMAIN m \cup E \cup P) \ DOMAIN u : FullOf(u, blockOf[h])
         /\ \A h \in DOMAIN u :
              ~u[h].entry => \/ h \in DOMAIN m /\ ~m[h].entry
                             \/ h \in P \ E \/ FullOf(u, blockOf[h])
<1> DEFINE m1 == EntryIngested(m, E)
<1>1. PICK n \in Evicted(m1) : u \in Evicted(PostIngested(n, P))
  BY DEF Ingested
<1> DEFINE n1 == PostIngested(n, P)
<1>2. /\ DOMAIN m \subseteq Ops /\ \A h \in Ops : blockOf[h] \in Nat
  BY DEF Stores, TypeOK
<1>3. DOMAIN m1 = DOMAIN m \cup E /\ DOMAIN n1 = DOMAIN n \cup P
  BY DEF EntryIngested, PostIngested
<1>4. \A h \in DOMAIN m1 : m1[h] = IF h \in DOMAIN m THEN m[h] ELSE [entry |-> TRUE, fee |-> FALSE]
  BY DEF EntryIngested
<1>5. \A h \in DOMAIN n1 :
        n1[h] = IF h \in P THEN [entry |-> h \in DOMAIN n /\ n[h].entry, fee |-> TRUE] ELSE n[h]
  BY DEF PostIngested
<1>6. u \in Evicted(n1)
  BY <1>1
<1> HIDE DEF m1, n1
<1>7. DOMAIN m1 \subseteq Ops
  BY <1>2, <1>3
<1>8. /\ DOMAIN n \subseteq DOMAIN m1 /\ \A h \in DOMAIN n : n[h] = m1[h]
      /\ \A h \in DOMAIN m1 \ DOMAIN n : FullOf(n, blockOf[h])
  BY <1>1, <1>7, EvictedOld
<1>9. DOMAIN n1 \subseteq Ops
  BY <1>3, <1>7, <1>8
<1>10. /\ DOMAIN u \subseteq DOMAIN n1 /\ \A h \in DOMAIN u : u[h] = n1[h]
       /\ \A h \in DOMAIN n1 \ DOMAIN u : FullOf(u, blockOf[h])
  BY <1>6, <1>9, EvictedOld
<1>11. \A b \in Nat : FullOf(m, b) => FullOf(n, b)
  BY <1>1, <1>3, <1>7, FullStays
<1>12. \A b \in Nat : FullOf(n, b) => FullOf(u, b)
  BY <1>3, <1>6, <1>9, FullStays
<1>13. \A h \in DOMAIN m1 \ DOMAIN n : FullOf(u, blockOf[h])
  BY <1>2, <1>7, <1>8, <1>12
<1>14. ASSUME NEW h \in DOMAIN u, ~u[h].entry,
              h \in DOMAIN m => m[h].entry, h \notin P \ E, ~FullOf(u, blockOf[h])
       PROVE  FALSE
  <2>1. h \in DOMAIN n1 /\ u[h] = n1[h]
    BY <1>10
  <2>2. CASE h \in P
    <3>1. h \in DOMAIN n
      BY <1>3, <1>13, <1>14, <2>2
    <3>2. n[h].entry
      BY <1>3, <1>4, <1>8, <1>14, <3>1
    <3> DEFINE entry == h \in DOMAIN n /\ n[h].entry
    <3>3. u[h] = [entry |-> entry, fee |-> TRUE]
      BY <1>5, <2>1, <2>2, Zenon
    <3>4. entry
      BY <3>1, <3>2
    <3> HIDE DEF entry
    <3>5. u[h].entry = entry
      BY <3>3
    <3> QED
      BY <1>14, <3>4, <3>5, Zenon
  <2>3. CASE h \notin P
    <3>1. h \in DOMAIN n /\ u[h] = n[h]
      BY <1>3, <1>5, <2>1, <2>3
    <3>2. u[h].entry
      BY <1>3, <1>4, <1>8, <1>14, <3>1
    <3> QED
      BY <1>14, <3>2
  <2> QED
    BY <2>2, <2>3
<1>15. DOMAIN u \subseteq DOMAIN m \cup E \cup P
  BY <1>3, <1>8, <1>10
<1>16. \A h \in (DOMAIN m \cup E \cup P) \ DOMAIN u : FullOf(u, blockOf[h])
  BY <1>3, <1>10, <1>13
<1> QED
  BY <1>11, <1>12, <1>14, <1>15, <1>16

----------------------------------------------------------------------------
(* The lines of a file after a step, and those at its end.                 *)

LEMMA AppendedAdds ==
  ASSUME NEW f \in Seq(Line), NEW batch \in Seq(Ops), batch # <<>>
  PROVE  /\ Len(Appended(f, batch)) >= Len(f)
         /\ LinesOf(Appended(f, batch)) \cap Ops \subseteq LinesOf(f) \cup LinesOf(batch)
         /\ TailOf(Appended(f, batch)) \subseteq TailOf(f) \cup LinesOf(batch)
<1> DEFINE a == Appended(f, batch)
           OfEither(i) == (i \in DOMAIN f /\ a[i] = f[i]) \/ a[i] \in LinesOf(batch)
<1>1. /\ batch \in Seq(Line) /\ Tail(batch) \in Seq(Line) /\ Len(f) \in Nat
      /\ Len(batch) \in Nat \ {0} /\ Len(Tail(batch)) = Len(batch) - 1
      /\ \A j \in 1 .. Len(batch) - 1 : Tail(batch)[j] = batch[j + 1]
  BY DEF Line
<1>2. \A j \in 1 .. Len(batch) : batch[j] \in LinesOf(batch)
  BY DEF LinesOf
<1>3. a \in Seq(Line) /\ Len(a) >= Len(f) /\ \A i \in DOMAIN a : a[i] \in Ops => OfEither(i)
  <2>1. CASE ~EndsTorn(f)
    <3>1. a = f \o batch
      BY <2>1 DEF Appended
    <3>2. /\ f \o batch \in Seq(Line) /\ Len(f \o batch) = Len(f) + Len(batch)
          /\ \A i \in 1 .. Len(f) + Len(batch) :
               (f \o batch)[i] = IF i <= Len(f) THEN f[i] ELSE batch[i - Len(f)]
      BY <1>1
    <3> HIDE DEF a
    <3>3. ASSUME NEW i \in DOMAIN a
          PROVE  OfEither(i)
      <4>1. i \in 1 .. Len(f) + Len(batch) /\ DOMAIN f = 1 .. Len(f)
        BY <3>1, <3>2, <3>3
      <4>2. CASE i <= Len(f)
        BY <3>1, <3>2, <4>1, <4>2
      <4>3. CASE i > Len(f)
        <5>1. i - Len(f) \in 1 .. Len(batch) /\ a[i] = batch[i - Len(f)]
          BY <1>1, <3>1, <3>2, <4>1, <4>3
        <5> QED
          BY <1>2, <5>1
      <4> QED
        BY <1>1, <4>1, <4>2, <4>3
    <3> QED
      BY <1>1, <3>1, <3>2, <3>3
  <2>2. CASE EndsTorn(f)
    <3> DEFINE g == [f EXCEPT ![Len(f)] = "bad"]
               t == Tail(batch)
    <3>1. g \in Seq(Line) /\ Len(g) = Len(f) /\ DOMAIN g = 1 .. Len(f)
          /\ \A i \in 1 .. Len(f) : g[i] = f[i] \/ g[i] = "bad"
      <4>1. f \in [1 .. Len(f) -> Line] /\ "bad" \in Line
        BY DEF Line, NoRecord
      <4>2. g \in [1 .. Len(f) -> Line] /\ \A i \in 1 .. Len(f) : g[i] = f[i] \/ g[i] = "bad"
        BY <4>1
      <4> QED
        BY <1>1, <4>2
    <3>2. a = g \o t
      BY <2>2 DEF Appended
    <3>3. t \in Seq(Line) /\ Len(t) = Len(batch) - 1 /\ \A j \in 1 .. Len(t) : t[j] = batch[j + 1]
      BY <1>1
    <3> HIDE DEF a, g, t
    <3>4. /\ g \o t \in Seq(Line) /\ Len(g \o t) = Len(f) + Len(t)
          /\ \A i \in 1 .. Len(f) + Len(t) :
               (g \o t)[i] = IF i <= Len(f) THEN g[i] ELSE t[i - Len(f)]
      BY <3>1, <3>3
    <3>5. ASSUME NEW i \in DOMAIN a, a[i] \in Ops
          PROVE  OfEither(i)
      <4>1. i \in 1 .. Len(f) + Len(t) /\ DOMAIN f = 1 .. Len(f)
        BY <3>2, <3>4, <3>5
      <4>2. CASE i <= Len(f)
        <5>1. a[i] # "bad"
          BY <3>5, IndexerAssumption
        <5> QED
          BY <1>1, <3>1, <3>2, <3>4, <4>1, <4>2, <5>1
      <4>3. CASE i > Len(f)
        <5>1. i - Len(f) \in 1 .. Len(t) /\ a[i] = t[i - Len(f)]
          BY <1>1, <3>2, <3>3, <3>4, <4>1, <4>3
        <5>2. i - Len(f) + 1 \in 1 .. Len(batch) /\ a[i] = batch[i - Len(f) + 1]
          BY <1>1, <3>3, <5>1
        <5> QED
          BY <1>2, <5>2
      <4> QED
        BY <1>1, <4>1, <4>2, <4>3
    <3> QED
      BY <1>1, <3>2, <3>3, <3>4, <3>5
  <2> QED
    BY <2>1, <2>2
<1> HIDE DEF a
<1>4. LinesOf(a) \cap Ops \subseteq LinesOf(f) \cup LinesOf(batch)
  BY <1>3 DEF LinesOf
<1>5. TailOf(a) \subseteq TailOf(f) \cup LinesOf(batch)
  <2> SUFFICES ASSUME NEW i \in DOMAIN a, i > Len(a) - Lesser(retentionMax, TailLines),
                      a[i] \in Ops, a[i] \notin LinesOf(batch)
               PROVE  a[i] \in TailOf(f)
    BY DEF TailOf
  <2>1. i \in DOMAIN f /\ a[i] = f[i]
    BY <1>3
  <2>2. Lesser(retentionMax, TailLines) \in Nat /\ Len(a) \in Nat /\ i \in Nat
    BY <1>1, <1>3, <2>1, IndexerAssumption DEF Lesser
  <2>3. i > Len(f) - Lesser(retentionMax, TailLines)
    BY <1>1, <1>3, <2>2
  <2> QED
    BY <2>1, <2>3 DEF TailOf
<1> QED
  BY <1>3, <1>4, <1>5 DEF a

(* The end of the process files nothing but what was queued.               *)
LEMMA RemainsAdds ==
  ASSUME NEW f \in Seq(Line), NEW q \in Seq(Seq(Ops)), NEW g \in Remains(f, q)
  PROVE  LinesOf(g) \cap Ops \subseteq LinesOf(f) \cup UNION {LinesOf(q[i]) : i \in DOMAIN q}
<1>1. CASE q = <<>>
  BY <1>1 DEF Remains
<1>2. CASE q # <<>>
  <2>1. q[1] \in Seq(Ops) /\ 1 \in DOMAIN q /\ Len(q[1]) \in Nat
    BY <1>2
  <2>2. ASSUME NEW n \in 0 .. Len(q[1])
        PROVE  /\ Whole(f, q[1], n) \in Seq(Line)
               /\ LinesOf(Whole(f, q[1], n)) \cap Ops \subseteq LinesOf(f) \cup LinesOf(q[1])
    <3>1. CASE n = 0
      BY <3>1 DEF Whole
    <3>2. CASE n # 0
      <4> DEFINE b == SubSeq(q[1], 1, n)
      <4>1. b \in Seq(Ops) /\ Len(b) = n /\ \A j \in 1 .. n : b[j] = q[1][j]
        BY <2>1
      <4>2. b # <<>> /\ Whole(f, q[1], n) = Appended(f, b)
        BY <3>2, <4>1 DEF Whole
      <4> HIDE DEF b
      <4>3. LinesOf(b) \subseteq LinesOf(q[1])
        <5>1. DOMAIN b = 1 .. n /\ 1 .. n \subseteq DOMAIN q[1]
          BY <2>1, <2>2, <4>1
        <5> QED
          BY <4>1, <5>1 DEF LinesOf
      <4>4. Appended(f, b) \in Seq(Line)
        BY <4>1, <4>2, AppendedKeeps
      <4>5. LinesOf(Appended(f, b)) \cap Ops \subseteq LinesOf(f) \cup LinesOf(b)
        BY <4>1, <4>2, AppendedAdds
      <4> QED
        BY <4>2, <4>3, <4>4, <4>5
    <3> QED
      BY <3>1, <3>2
  <2>3. \A w \in Seq(Line) : LinesOf(Torn(w)) \cap Ops \subseteq LinesOf(w)
    <3> TAKE w \in Seq(Line)
    <3>1. CASE EndsTorn(w)
      BY <3>1 DEF Torn
    <3>2. CASE ~EndsTorn(w)
      <4>1. Torn(w) = Append(w, "torn")
        BY <3>2 DEF Torn
      <4>2. \A i \in DOMAIN Append(w, "torn") :
              Append(w, "torn")[i] = "torn" \/ (i \in DOMAIN w /\ Append(w, "torn")[i] = w[i])
        OBVIOUS
      <4> QED
        BY <4>1, <4>2, IndexerAssumption DEF LinesOf
    <3> QED
      BY <3>1, <3>2
  <2>4. PICK n \in 0 .. Len(q[1]) : g = Whole(f, q[1], n) \/ g = Torn(Whole(f, q[1], n))
    BY <1>2, <2>1 DEF Remains
  <2>5. LinesOf(g) \cap Ops \subseteq LinesOf(f) \cup LinesOf(q[1])
    <3>1. LinesOf(g) \cap Ops \subseteq LinesOf(Whole(f, q[1], n))
      BY <2>2, <2>3, <2>4
    <3> QED
      BY <2>2, <3>1
  <2> QED
    BY <2>1, <2>5
<1> QED
  BY <1>1, <1>2

----------------------------------------------------------------------------
(* Memory and files.                                                       *)

Executed == {h \in Ops : blockOf[h] # 0}
Known(k) == Filed(k) \cup Queued(k)

(* What the process knows of has been executed, and an event of the        *)
(* paymaster that is filed or queued has its EntryPoint event accounted    *)
(* for, since both are read in one range.                                  *)
RecordsOK ==
  /\ DOMAIN store \subseteq Executed
  /\ \A k \in Kinds : Known(k) \subseteq Executed /\ Known(k) \subseteq Accounted("entry")

(* Without an indexer nothing is under way, and before the first end of    *)
(* the process nothing has been filed.                                     *)
RestOK ==
  process \notin {"up", "stopping"} =>
    /\ \A s \in Syncs : sync[s] = Idle
    /\ \A k \in Kinds : queue[k] = <<>> /\ (crashes = 0 => file[k] = <<>>)

MemoryInv == RecordsOK /\ RestOK /\ StoreMatchesFiles /\ PartialMeansLost

LEMMA MemoryInit == Init => MemoryInv
<1> SUFFICES ASSUME Init PROVE MemoryInv
  OBVIOUS
<1>1. DOMAIN store = {} /\ \A k \in Kinds : DOMAIN file[k] = {} /\ DOMAIN queue[k] = {}
  BY DEF Init
<1>2. \A k \in Kinds : Known(k) = {}
  BY <1>1 DEF Known, Filed, Queued, LinesOf
<1> QED
  BY <1>1, <1>2 DEF Init, MemoryInv, RecordsOK, RestOK, StoreMatchesFiles, PartialMeansLost

(* Time passes in the chain: what is known keeps its block.                *)
ChainGrows == \A h \in Ops : blockOf'[h] = blockOf[h] \/ (blockOf[h] = 0 /\ blockOf'[h] \in Nat)

LEMMA FullSinceStays ==
  ASSUME TypeOK, RecordsOK, UNCHANGED store, ChainGrows, NEW h \in Executed
  PROVE  blockOf'[h] = blockOf[h] /\ (FullSince(blockOf[h]) => FullSince(blockOf[h])')
<1>1. blockOf'[h] = blockOf[h] /\ blockOf[h] \in Nat
  BY DEF ChainGrows, Executed, TypeOK
<1>2. \A g \in DOMAIN store : blockOf'[g] = blockOf[g]
  BY DEF ChainGrows, RecordsOK, Executed
<1> QED
  BY <1>1, <1>2 DEF FullSince

(* Steps that leave the store alone.                                       *)
LEMMA StoreRests ==
  ASSUME TypeOK, TypeOK', MemoryInv, UNCHANGED <<store, crashes>>, ChainGrows,
         process' \in {"up", "stopping"} => process \in {"up", "stopping"},
         Len(file["entry"]) <= Len(file'["entry"]), lost["entry"] \subseteq lost'["entry"],
         Accounted("entry") \subseteq Accounted("entry")',
         \A k \in Kinds : Known(k)' \subseteq Known(k) /\ Remembered(k)' \subseteq Remembered(k)
  PROVE  RecordsOK' /\ StoreMatchesFiles' /\ PartialMeansLost'
<1> USE DEF MemoryInv
<1>1. Executed \subseteq Executed'
  BY DEF Executed, ChainGrows
<1>2. RecordsOK'
  <2>1. DOMAIN store' \subseteq Executed'
    BY <1>1 DEF RecordsOK
  <2>2. \A k \in Kinds : Known(k)' \subseteq Executed' /\ Known(k)' \subseteq Accounted("entry")'
    BY <1>1 DEF RecordsOK
  <2> QED
    BY <2>1, <2>2 DEF RecordsOK
<1>3. \A k \in Kinds : Remembered(k) \subseteq Executed
  <2> TAKE k \in Kinds
  <2>1. TailOf(file[k]) \subseteq Filed(k)
    BY DEF TailOf, Filed, LinesOf
  <2> QED
    BY <2>1 DEF RecordsOK, Known, Remembered
<1>4. StoreMatchesFiles'
  <2> SUFFICES ASSUME process' \in {"up", "stopping"}, NEW k \in Kinds,
                      NEW h \in Remembered(k)', h \notin DOMAIN store'
               PROVE  FullSince(blockOf[h])'
    BY DEF StoreMatchesFiles
  <2>1. h \in Remembered(k) /\ h \notin DOMAIN store /\ h \in Executed
    BY <1>3
  <2>2. FullSince(blockOf[h])
    BY <2>1 DEF StoreMatchesFiles
  <2> QED
    BY <2>1, <2>2, FullSinceStays
<1>5. PartialMeansLost'
  <2>1. Uncut' => Uncut
    <3>1. Len(file["entry"]) \in Nat /\ Len(file'["entry"]) \in Nat
      <4>1. file["entry"] \in Seq(Ops \cup NoRecord) /\ file'["entry"] \in Seq(Ops \cup NoRecord)
        BY DEF TypeOK, Kinds
      <4> QED
        BY <4>1
    <3>2. Lesser(retentionMax, TailLines) \in Nat
      BY IndexerAssumption DEF Lesser
    <3> QED
      BY <3>1, <3>2 DEF Uncut
  <2> SUFFICES ASSUME Uncut, NEW h \in DOMAIN store, ~store[h].entry
               PROVE  h \in lost'["entry"] \/ FullSince(blockOf[h])'
    BY <2>1 DEF PartialMeansLost
  <2>2. h \in Executed
    BY DEF RecordsOK
  <2>3. h \in lost["entry"] \/ FullSince(blockOf[h])
    BY DEF PartialMeansLost
  <2> QED
    BY <2>2, <2>3, FullSinceStays
<1> QED
  BY <1>2, <1>4, <1>5

(* Steps that change neither store, files nor queues.                      *)
LEMMA QuietMemory ==
  ASSUME IInv, IInv', MemoryInv,
         NewBlock \/ BootFails \/ Stop
           \/ (\E s \in Syncs : SyncStarts(s) \/ HeadRead(s) \/ Advance(s) \/ AdvanceUnsaved(s) \/ SyncFails(s))
           \/ UNCHANGED vars
  PROVE  MemoryInv'
<1> USE DEF MemoryInv
<1>1. UNCHANGED <<store, file, queue, lost, crashes>>
  BY DEF NewBlock, BootFails, Stop, SyncStarts, HeadRead, Advance, AdvanceUnsaved, SyncFails, vars,
         chainVars, memoryVars, diskVars, historyVars
<1>2. ChainGrows
  <2>1. CASE NewBlock
    <3>1. PICK S \in SUBSET {h \in Ops : blockOf[h] = 0} :
            blockOf' = [h \in Ops |-> IF h \in S THEN head' ELSE blockOf[h]]
      BY <2>1 DEF NewBlock
    <3>2. head' \in Nat
      BY DEF IInv, TypeOK
    <3> QED
      BY <3>1, <3>2 DEF ChainGrows
  <2>2. CASE UNCHANGED blockOf
    BY <2>2 DEF ChainGrows
  <2>3. NewBlock \/ UNCHANGED blockOf
    BY DEF BootFails, Stop, SyncStarts, HeadRead, Advance, AdvanceUnsaved, SyncFails, vars, chainVars
  <2> QED
    BY <2>1, <2>2, <2>3
<1>3. /\ process' \in {"up", "stopping"} => process \in {"up", "stopping"}
      /\ RestOK'
  <2>1. CASE BootFails \/ Stop
    BY <1>1, <2>1 DEF BootFails, Stop, RestOK
  <2>2. CASE NewBlock \/ UNCHANGED vars
    BY <1>1, <2>2 DEF NewBlock, vars, memoryVars, RestOK
  <2>3. ASSUME NEW s \in Syncs,
               SyncStarts(s) \/ HeadRead(s) \/ Advance(s) \/ AdvanceUnsaved(s) \/ SyncFails(s)
        PROVE  process' = process /\ process \in {"up", "stopping"}
    <3>1. process' = process
      BY <2>3 DEF SyncStarts, HeadRead, Advance, AdvanceUnsaved, SyncFails
    <3>2. process = "up" \/ sync[s].at # "idle"
      BY <2>3 DEF SyncStarts, HeadRead, Advance, AdvanceUnsaved, SyncFails
    <3> QED
      BY <3>1, <3>2 DEF RestOK, Idle
  <2> QED
    BY <2>1, <2>2, <2>3 DEF RestOK
<1>4. \A k \in Kinds : Known(k)' = Known(k) /\ Remembered(k)' = Remembered(k)
                       /\ Accounted(k)' = Accounted(k)
  BY <1>1 DEF Known, Remembered, Accounted, Filed, Queued
<1>5. Len(file["entry"]) <= Len(file'["entry"])
  <2>1. Len(file["entry"]) \in Nat
    BY DEF IInv, TypeOK, Kinds
  <2> QED
    BY <1>1, <2>1
<1>6. RecordsOK' /\ StoreMatchesFiles' /\ PartialMeansLost'
  BY <1>1, <1>2, <1>3, <1>4, <1>5, StoreRests DEF IInv, Kinds
<1> QED
  BY <1>3, <1>6

(* An append that ends, or fails: its lines were remembered before.        *)
LEMMA WriterMemory ==
  ASSUME IInv, IInv', MemoryInv, NEW k \in Kinds, Write(k) \/ WriteFails(k)
  PROVE  MemoryInv'
<1> USE DEF MemoryInv
<1>1. /\ queue[k] \in Seq(Seq(Ops)) /\ queue[k] # <<>> /\ \A j \in Kinds : file[j] \in Seq(Line)
      /\ queue \in [Kinds -> Seq(Seq(Ops))] /\ file \in [Kinds -> Seq(Line)]
      /\ lost \in [Kinds -> SUBSET Ops]
  BY DEF IInv, TypeOK, Line, Write, WriteFails
<1> DEFINE b == Head(queue[k])
<1>2. /\ b \in Seq(Ops) /\ b # <<>> /\ b = queue[k][1] /\ 1 \in DOMAIN queue[k]
      /\ \A j \in DOMAIN Tail(queue[k]) : \E i \in DOMAIN queue[k] : queue[k][i] = Tail(queue[k])[j]
  BY <1>1, QueueTail DEF IInv, BatchesOK
<1>3. LinesOf(b) \subseteq Queued(k)
  BY <1>2 DEF Queued
<1> HIDE DEF b
<1>4. /\ UNCHANGED <<chainVars, process, sync, store, crashes>>
      /\ queue' = [queue EXCEPT ![k] = Tail(queue[k])]
  BY DEF Write, WriteFails
<1>5. \A j \in Kinds : Queued(j)' \subseteq Queued(j)
  <2>1. queue'[k] = Tail(queue[k]) /\ \A j \in Kinds : j # k => queue'[j] = queue[j]
    BY <1>1, <1>4
  <2>2. \A j \in Kinds : j # k => Queued(j)' = Queued(j)
    BY <2>1 DEF Queued
  <2>3. Queued(k)' \subseteq Queued(k)
    BY <1>2, <2>1 DEF Queued
  <2> QED
    BY <2>2, <2>3
<1>6. /\ \A j \in Kinds : Len(file[j]) <= Len(file'[j]) /\ lost[j] \subseteq lost'[j]
      /\ \A j \in Kinds : Filed(j)' \subseteq Filed(j) \cup Queued(j)
      /\ \A j \in Kinds : TailOf(file'[j]) \subseteq TailOf(file[j]) \cup Queued(j)
  <2>0. \A j \in Kinds : Len(file[j]) \in Nat
    BY <1>1
  <2>1. CASE Write(k)
    <3>1. /\ file' = [file EXCEPT ![k] = Appended(file[k], b)]
          /\ lost' = [lost EXCEPT ![k] = lost[k] \cup (LinesOf(b) \ LinesOf(file'[k]))]
      BY <2>1 DEF Write, b
    <3>2. /\ Len(Appended(file[k], b)) >= Len(file[k])
          /\ LinesOf(Appended(file[k], b)) \cap Ops \subseteq LinesOf(file[k]) \cup LinesOf(b)
          /\ TailOf(Appended(file[k], b)) \subseteq TailOf(file[k]) \cup LinesOf(b)
      BY <1>1, <1>2, AppendedAdds
    <3>3. file'[k] = Appended(file[k], b) /\ \A j \in Kinds : j # k => file'[j] = file[j]
      BY <1>1, <3>1
    <3>4. \A j \in Kinds : lost[j] \subseteq lost'[j]
      BY <1>1, <3>1
    <3>5. Filed(k)' \subseteq Filed(k) \cup Queued(k) /\ \A j \in Kinds : j # k => Filed(j)' = Filed(j)
      BY <1>3, <3>2, <3>3 DEF Filed
    <3>6. TailOf(file'[k]) \subseteq TailOf(file[k]) \cup Queued(k)
      BY <1>3, <3>2, <3>3
    <3>7. \A j \in Kinds : Len(file[j]) <= Len(file'[j])
      <4> TAKE j \in Kinds
      <4>1. CASE j = k
        BY <3>2, <3>3, <4>1
      <4>2. CASE j # k
        BY <2>0, <3>3, <4>2
      <4> QED
        BY <4>1, <4>2
    <3> QED
      BY <3>3, <3>4, <3>5, <3>6, <3>7
  <2>2. CASE WriteFails(k)
    <3>1. file' = file /\ lost' = [lost EXCEPT ![k] = lost[k] \cup LinesOf(b)]
      BY <2>2 DEF WriteFails, b, diskVars
    <3>2. \A j \in Kinds : lost[j] \subseteq lost'[j]
      BY <1>1, <3>1
    <3> QED
      BY <2>0, <3>1, <3>2 DEF Filed
  <2> QED
    BY <2>1, <2>2
<1>7. \A j \in Kinds : Known(j)' \subseteq Known(j) /\ Remembered(j)' \subseteq Remembered(j)
  BY <1>4, <1>5, <1>6 DEF Known, Remembered
<1>8. Accounted("entry") \subseteq Accounted("entry")'
  BY WriterStep DEF Kinds
<1>9. RestOK' /\ process' = process
  BY <1>1, <1>4 DEF RestOK
<1>10. ChainGrows
  BY <1>4 DEF ChainGrows, chainVars
<1>11. RecordsOK' /\ StoreMatchesFiles' /\ PartialMeansLost'
  BY <1>4, <1>6, <1>7, <1>8, <1>9, <1>10, StoreRests DEF IInv, Kinds
<1> QED
  BY <1>9, <1>11

(* A batch adds nothing but its lines.                                     *)
LEMMA QueueAppendsOnly ==
  ASSUME NEW q \in Seq(Seq(Ops)), NEW b \in Seq(Ops), NEW i \in DOMAIN Appends(q, b)
  PROVE  Appends(q, b)[i] = b \/ \E j \in DOMAIN q : q[j] = Appends(q, b)[i]
<1>1. CASE b = <<>>
  BY <1>1 DEF Appends
<1>2. CASE b # <<>>
  <2>1. Appends(q, b) = Append(q, b)
    BY <1>2 DEF Appends
  <2>2. /\ DOMAIN Append(q, b) = 1 .. Len(q) + 1 /\ DOMAIN q = 1 .. Len(q) /\ Len(q) \in Nat
        /\ \A j \in 1 .. Len(q) : Append(q, b)[j] = q[j]
        /\ Append(q, b)[Len(q) + 1] = b
    OBVIOUS
  <2>3. i \in 1 .. Len(q) \/ i = Len(q) + 1
    BY <2>1, <2>2
  <2> QED
    BY <2>1, <2>2, <2>3
<1> QED
  BY <1>1, <1>2

(* A range is read: its events are in the store and on their way to the    *)
(* files, or lost.                                                         *)
LEMMA SyncRangeMemory ==
  ASSUME IInv, IInv', MemoryInv, NEW s \in Syncs, SyncRange(s)
  PROVE  MemoryInv'
<1> USE DEF MemoryInv
<1>0. TypeOK /\ BatchesOK
  BY DEF IInv
<1>1. UNCHANGED <<blockOf, process, file, crashes>>
  BY DEF SyncRange, chainVars, diskVars
<1>2. PICK E \in SUBSET Logs(s, "entry"), P \in SUBSET Logs(s, "post") :
        LET unread == [k \in Kinds |-> Logs(s, k) \ (IF k = "entry" THEN E ELSE P)]
        IN  /\ store' \in Ingested(store, E, P)
            /\ \E e \in Listings(E), p \in Listings(P) :
                 queue' = [k \in Kinds |-> Appends(queue[k], IF k = "entry" THEN e ELSE p)]
            /\ lost' = [k \in Kinds |-> lost[k] \cup unread[k]]
  BY DEF SyncRange
<1>3. /\ Logs(s, "post") \subseteq Logs(s, "entry")
      /\ Logs(s, "entry") \subseteq Executed
  BY DEF Logs, Emitters, Executed
<1>4. /\ E \subseteq Executed /\ P \subseteq Executed /\ E \in SUBSET Ops /\ P \in SUBSET Ops
      /\ P \subseteq Logs(s, "entry") /\ E \subseteq Logs(s, "entry")
  BY <1>3 DEF Executed
<1>5. /\ Logs(s, "entry") \ E \subseteq lost'["entry"] /\ lost["entry"] \subseteq lost'["entry"]
      /\ store' \in Ingested(store, E, P)
  BY <1>2 DEF Kinds
<1>6. /\ Logs(s, "entry") \subseteq Accounted("entry")'
      /\ Accounted("entry") \subseteq Accounted("entry")'
  BY SyncRangeStep DEF Kinds
<1>7. \A k \in Kinds : Queued(k)' \subseteq Queued(k) \cup E \cup P
  <2> TAKE k \in Kinds
  <2>1. PICK e \in Listings(E), p \in Listings(P) :
          queue' = [j \in Kinds |-> Appends(queue[j], IF j = "entry" THEN e ELSE p)]
    BY <1>2
  <2> DEFINE b == IF k = "entry" THEN e ELSE p
  <2>2. e \in Seq(Ops) /\ LinesOf(e) = E /\ p \in Seq(Ops) /\ LinesOf(p) = P
    BY <1>4, ListingHasAll
  <2>3. b \in Seq(Ops) /\ LinesOf(b) \subseteq E \cup P
    BY <2>2
  <2>4. queue'[k] = Appends(queue[k], b) /\ queue[k] \in Seq(Seq(Ops))
    BY <1>0, <2>1 DEF TypeOK
  <2> HIDE DEF b
  <2>5. \A i \in DOMAIN queue'[k] : queue'[k][i] = b \/ \E j \in DOMAIN queue[k] : queue[k][j] = queue'[k][i]
    BY <2>3, <2>4, QueueAppendsOnly
  <2> QED
    BY <2>3, <2>5 DEF Queued
<1>8. \A k \in Kinds : /\ Known(k)' \subseteq Known(k) \cup E \cup P
                       /\ Remembered(k)' \subseteq Remembered(k) \cup E \cup P
  BY <1>1, <1>7 DEF Known, Remembered, Filed
<1>9. /\ DOMAIN store' \subseteq DOMAIN store \cup E \cup P
      /\ \A b \in Nat : FullOf(store, b) => FullOf(store', b)
      /\ \A h \in (DOMAIN store \cup E \cup P) \ DOMAIN store' : FullOf(store', blockOf[h])
      /\ \A h \in DOMAIN store' :
           ~store'[h].entry => \/ h \in DOMAIN store /\ ~store[h].entry
                               \/ h \in P \ E \/ FullOf(store', blockOf[h])
  <2>1. store \in Stores
    BY <1>0 DEF TypeOK
  <2> QED
    BY <1>0, <1>4, <1>5, <2>1, IngestedIs
<1>10. \A b : FullSince(b) <=> FullOf(store, b)
  BY DEF FullSince, FullOf
<1>11. \A h : FullSince(blockOf[h])' <=> FullOf(store', blockOf[h])
  BY <1>1 DEF FullSince, FullOf
<1>12. RecordsOK'
  <2>1. Executed' = Executed
    BY <1>1 DEF Executed
  <2>2. DOMAIN store' \subseteq Executed'
    BY <1>4, <1>9, <2>1 DEF RecordsOK
  <2>3. \A k \in Kinds : Known(k)' \subseteq Executed' /\ Known(k)' \subseteq Accounted("entry")'
    BY <1>4, <1>6, <1>8, <2>1 DEF RecordsOK
  <2> QED
    BY <2>2, <2>3 DEF RecordsOK
<1>13. process \in {"up", "stopping"} /\ RestOK'
  <2>1. process \in {"up", "stopping"}
    BY DEF SyncRange, RestOK, Idle
  <2> QED
    BY <1>1, <2>1 DEF RestOK
<1>14. StoreMatchesFiles'
  <2> SUFFICES ASSUME NEW k \in Kinds, NEW h \in Remembered(k)', h \notin DOMAIN store'
               PROVE  FullSince(blockOf[h])'
    BY DEF StoreMatchesFiles
  <2>1. CASE h \in DOMAIN store \cup E \cup P
    BY <1>9, <1>11, <2>1
  <2>2. CASE h \notin DOMAIN store \cup E \cup P
    <3>1. h \in Remembered(k) /\ h \notin DOMAIN store
      BY <1>8, <2>2
    <3>2. FullOf(store, blockOf[h])
      BY <1>10, <1>13, <3>1 DEF StoreMatchesFiles
    <3>3. blockOf[h] \in Nat
      <4>1. h \in Ops
        <5>1. TailOf(file[k]) \subseteq Ops
          BY DEF TailOf
        <5> QED
          BY <3>1, <5>1 DEF Remembered, RecordsOK, Known, Executed
      <4> QED
        BY <1>0, <4>1 DEF TypeOK
    <3> QED
      BY <1>9, <1>11, <3>2, <3>3
  <2> QED
    BY <2>1, <2>2
<1>15. PartialMeansLost'
  <2> SUFFICES ASSUME Uncut', NEW h \in DOMAIN store', ~store'[h].entry
               PROVE  h \in lost'["entry"] \/ FullSince(blockOf[h])'
    BY DEF PartialMeansLost
  <2>1. CASE h \in DOMAIN store /\ ~store[h].entry
    <3>1. Uncut
      BY <1>1 DEF Uncut
    <3>2. h \in lost["entry"] \/ FullOf(store, blockOf[h])
      BY <1>10, <2>1, <3>1 DEF PartialMeansLost
    <3>3. blockOf[h] \in Nat
      BY <1>0, <2>1 DEF RecordsOK, Executed, TypeOK
    <3> QED
      BY <1>5, <1>9, <1>11, <3>2, <3>3
  <2>2. CASE h \in P \ E
    BY <1>4, <1>5, <2>2
  <2>3. CASE FullOf(store', blockOf[h])
    BY <1>11, <2>3
  <2> QED
    BY <1>9, <2>1, <2>2, <2>3
<1> QED
  BY <1>12, <1>13, <1>14, <1>15

(* A start: what the ends of the files hold is in the store.               *)
LEMMA BootMemory ==
  ASSUME IInv, IInv', MemoryInv, Boot
  PROVE  MemoryInv'
<1> USE DEF MemoryInv
<1> DEFINE E == TailOf(file["entry"])
           P == TailOf(file["post"])
<1>1. /\ UNCHANGED <<blockOf, file, queue, lost, crashes>>
      /\ process = "down" /\ process' = "up" /\ store' \in Ingested(<<>>, E, P)
  BY DEF Boot, chainVars, diskVars, historyVars
<1>2. \A k \in Kinds : Queued(k) = {} /\ (crashes = 0 => Filed(k) = {} /\ TailOf(file[k]) = {})
  <2> TAKE k \in Kinds
  <2>1. queue[k] = <<>> /\ (crashes = 0 => file[k] = <<>>)
    BY <1>1 DEF RestOK
  <2> QED
    BY <2>1 DEF Queued, Filed, TailOf, LinesOf
<1>3. \A k \in Kinds : TailOf(file[k]) \subseteq Filed(k) /\ TailOf(file[k]) \subseteq Ops
  BY DEF TailOf, Filed, LinesOf
<1>4. E \in SUBSET Ops /\ P \in SUBSET Ops
  BY <1>3 DEF Kinds
<1>5. E \subseteq Filed("entry") /\ P \subseteq Filed("post")
  BY <1>3 DEF Kinds
<1>6. <<>> \in Stores /\ DOMAIN <<>> = {}
  BY DEF Stores
<1> HIDE DEF E, P
<1>7. /\ DOMAIN store' \subseteq E \cup P
      /\ \A h \in (E \cup P) \ DOMAIN store' : FullOf(store', blockOf[h])
      /\ \A h \in DOMAIN store' : ~store'[h].entry => h \in P \ E \/ FullOf(store', blockOf[h])
  <2> DEFINE m == <<>>
  <2>1. TypeOK /\ store' \in Ingested(m, E, P) /\ m \in Stores /\ DOMAIN m = {}
    BY <1>1, <1>6 DEF IInv
  <2> HIDE DEF m
  <2>2. /\ DOMAIN store' \subseteq DOMAIN m \cup E \cup P
        /\ \A h \in (DOMAIN m \cup E \cup P) \ DOMAIN store' : FullOf(store', blockOf[h])
        /\ \A h \in DOMAIN store' :
             ~store'[h].entry => \/ h \in DOMAIN m /\ ~m[h].entry
                                \/ h \in P \ E \/ FullOf(store', blockOf[h])
    BY <1>4, <2>1, IngestedIs
  <2> QED
    BY <2>1, <2>2
<1>8. \A h : FullSince(blockOf[h])' <=> FullOf(store', blockOf[h])
  BY <1>1 DEF FullSince, FullOf
<1>9. \A k \in Kinds : Known(k)' = Known(k) /\ Accounted(k)' = Accounted(k)
  BY <1>1 DEF Known, Accounted, Filed, Queued
<1>10. RecordsOK'
  <2>1. Executed' = Executed
    BY <1>1 DEF Executed
  <2>2. DOMAIN store' \subseteq Executed
    BY <1>5, <1>7 DEF RecordsOK, Known, Kinds
  <2>3. \A k \in Kinds : Known(k)' \subseteq Executed' /\ Known(k)' \subseteq Accounted("entry")'
    BY <1>9, <2>1 DEF RecordsOK, Kinds
  <2> QED
    BY <2>1, <2>2, <2>3 DEF RecordsOK
<1>11. RestOK'
  BY <1>1 DEF RestOK
<1>12. StoreMatchesFiles'
  <2> SUFFICES ASSUME NEW k \in Kinds, NEW h \in Remembered(k)', h \notin DOMAIN store'
               PROVE  FullSince(blockOf[h])'
    BY DEF StoreMatchesFiles
  <2>1. Remembered(k)' = Remembered(k)
    BY <1>1 DEF Remembered, Filed, Queued
  <2>2. h \in TailOf(file[k])
    BY <1>2, <2>1 DEF Remembered
  <2>3. h \in E \cup P
    BY <2>2 DEF Kinds, E, P
  <2> QED
    BY <1>7, <1>8, <2>3
<1>13. PartialMeansLost'
  <2> SUFFICES ASSUME Uncut', NEW h \in DOMAIN store', ~store'[h].entry,
                      ~FullSince(blockOf[h])'
               PROVE  h \in lost'["entry"]
    BY DEF PartialMeansLost
  <2>1. h \in P /\ h \notin E
    BY <1>7, <1>8
  <2>2. h \in Accounted("entry") /\ "entry" \in Kinds /\ "post" \in Kinds
    BY <1>5, <2>1 DEF RecordsOK, Known, Kinds
  <2>3. crashes # 0
    BY <1>2, <1>5, <2>1, <2>2
  <2>4. Filed("entry") \subseteq E
    <3>1. Len(file["entry"]) <= Lesser(retentionMax, TailLines)
      BY <1>1, <2>3 DEF Uncut
    <3>2. file["entry"] \in Seq(Line)
      BY <2>2 DEF IInv, TypeOK, Line
    <3>3. \A j \in DOMAIN file["entry"] : j > Len(file["entry"]) - Lesser(retentionMax, TailLines)
      <4>1. Len(file["entry"]) \in Nat /\ DOMAIN file["entry"] = 1 .. Len(file["entry"])
        BY <3>2
      <4>2. Lesser(retentionMax, TailLines) \in Nat
        BY IndexerAssumption DEF Lesser
      <4> QED
        BY <3>1, <4>1, <4>2
    <3> QED
      BY <3>3 DEF Filed, LinesOf, TailOf, E
  <2> QED
    BY <1>1, <1>2, <2>1, <2>2, <2>4 DEF Accounted
<1> QED
  BY <1>10, <1>11, <1>12, <1>13

(* The end of the process: the store is gone, the files have no more than  *)
(* what was queued.                                                        *)
LEMMA EndMemory ==
  ASSUME IInv, IInv', MemoryInv, Crash \/ CrashInCheckpoint \/ Exit
  PROVE  MemoryInv'
<1> USE DEF MemoryInv
<1>1. ProcessEnds
  BY DEF Crash, CrashInCheckpoint, Exit
<1>2. /\ crashes' = crashes + 1 /\ crashes \in Nat
      /\ process' = "down" /\ sync' = [s \in Syncs |-> Idle] /\ store' = <<>>
      /\ queue' = [k \in Kinds |-> <<>>] /\ UNCHANGED blockOf
  BY <1>1, IndexerAssumption DEF ProcessEnds, chainVars, IInv, TypeOK
<1>3. \A k \in Kinds : file'[k] \in Remains(file[k], queue[k])
  BY <1>1 DEF ProcessEnds, Kinds
<1>4. \A k \in Kinds : Known(k)' \subseteq Known(k)
  <2> TAKE k \in Kinds
  <2>1. file[k] \in Seq(Line) /\ queue[k] \in Seq(Seq(Ops))
    BY DEF IInv, TypeOK, Line
  <2>2. Filed(k)' \subseteq Known(k)
    BY <1>3, <2>1, RemainsAdds DEF Filed, Known, Queued
  <2>3. Queued(k)' = {}
    BY <1>2 DEF Queued
  <2> QED
    BY <2>2, <2>3 DEF Known
<1>5. Accounted("entry") \subseteq Accounted("entry")'
  BY EndStep DEF Kinds
<1>6. RecordsOK'
  <2>1. Executed' = Executed /\ DOMAIN store' = {}
    BY <1>2 DEF Executed
  <2> QED
    BY <1>4, <1>5, <2>1 DEF RecordsOK
<1>7. RestOK'
  BY <1>2 DEF RestOK
<1>8. StoreMatchesFiles' /\ PartialMeansLost'
  BY <1>2 DEF StoreMatchesFiles, PartialMeansLost
<1> QED
  BY <1>6, <1>7, <1>8

(* MemoryInv is inductive, relative to IInv.                               *)
THEOREM MemoryInvariant == Spec => []MemoryInv
<1>1. IInv /\ IInv' /\ MemoryInv /\ [Next]_vars => MemoryInv'
  <2> SUFFICES ASSUME IInv, IInv', MemoryInv, [Next]_vars PROVE MemoryInv'
    OBVIOUS
  <2>1. ASSUME NEW s \in Syncs,
               SyncStarts(s) \/ SyncProceeds(s) \/ AdvanceUnsaved(s) \/ SyncFails(s)
        PROVE  MemoryInv'
    BY <2>1, QuietMemory, SyncRangeMemory DEF SyncProceeds
  <2> QED
    BY <2>1, QuietMemory, BootMemory, EndMemory, WriterMemory DEF Next
<1> QED
  BY <1>1, MemoryInit, IndexerInvariant, PTL DEF Spec

(* For any retention, ranges, syncs, faults and ends of the process: what  *)
(* the process has read or reloaded is in memory, but for what is not      *)
(* newer than anything in a full store.                                    *)
THEOREM MemoryMatchesFiles == Spec => []StoreMatchesFiles
<1>1. MemoryInv => StoreMatchesFiles
  BY DEF MemoryInv
<1> QED
  BY <1>1, MemoryInvariant, PTL

(* Nor is an event reported missing that was not lost, but for the oldest  *)
(* records of a full store, or after a restart that reads a part of a      *)
(* file.                                                                   *)
THEOREM PartialsAreLosses == Spec => []PartialMeansLost
<1>1. MemoryInv => PartialMeansLost
  BY DEF MemoryInv
<1> QED
  BY <1>1, MemoryInvariant, PTL

----------------------------------------------------------------------------
(* The soak test.  What it has collected is of the store of that moment,   *)
(* which loses nothing as long as all operations fit and no process ends.  *)

FailedOf(S) == {h \in S : ~Op[h].success}
Roomy == Cardinality(Ops) <= Lesser(MaxListed, retentionMax)

SoakOK ==
  /\ soak.at = "summary" => soak.summary.failed \in Nat
  /\ soak.at = "judged" => soak.summary.failed \in Nat /\ soak.report.userOpFailures \in Nat
  /\ soak.at = "summary" /\ crashes = 0 => process # "down"
  /\ soak.at = "summary" /\ Roomy /\ crashes = 0 =>
       soak.summary.failed <= Cardinality(FailedOf(DOMAIN store))

(* Nothing is evicted from a store that has room for all operations.       *)
LEMMA RoomForAll ==
  ASSUME TypeOK, Roomy, NEW E \in SUBSET Ops, NEW P \in SUBSET Ops, store' \in Ingested(store, E, P)
  PROVE  DOMAIN store \subseteq DOMAIN store'
<1>1. ASSUME NEW m, DOMAIN m \subseteq Ops, NEW u \in Evicted(m)
      PROVE  DOMAIN u = DOMAIN m
  <2>1. DOMAIN u \subseteq DOMAIN m /\ Kept(m, DOMAIN u)
    BY <1>1, EvictedOld
  <2>2. /\ Cardinality(DOMAIN m) \in Nat /\ Cardinality(Ops) \in Nat
        /\ Cardinality(DOMAIN m) <= Cardinality(Ops)
    BY <1>1, FiniteOps
  <2>3. Cardinality(Ops) <= retentionMax
    BY <2>2, IndexerAssumption, ReportsAssumption DEF Roomy, Lesser
  <2>4. Cardinality(DOMAIN u) = Cardinality(DOMAIN m)
    BY <2>1, <2>2, <2>3, IndexerAssumption DEF Kept, Lesser
  <2> QED
    BY <1>1, <2>1, <2>4, FiniteOps
<1>2. PICK n \in Evicted(EntryIngested(store, E)) : store' \in Evicted(PostIngested(n, P))
  BY DEF Ingested
<1>3. DOMAIN EntryIngested(store, E) = DOMAIN store \cup E /\ DOMAIN PostIngested(n, P) = DOMAIN n \cup P
  BY DEF EntryIngested, PostIngested
<1>4. DOMAIN store \subseteq Ops
  BY DEF TypeOK, Stores
<1>5. DOMAIN n = DOMAIN store \cup E
  BY <1>1, <1>2, <1>3, <1>4
<1>6. DOMAIN store' = DOMAIN n \cup P
  BY <1>1, <1>2, <1>3, <1>4, <1>5
<1> QED
  BY <1>5, <1>6

(* While no process ends, a store with room keeps what it has.             *)
LEMMA StoreGrows ==
  ASSUME IInv, Roomy, [Next]_vars, process # "down", crashes' = 0
  PROVE  DOMAIN store \subseteq DOMAIN store' /\ process' # "down" /\ crashes = 0
<1>0. crashes \in Nat /\ TypeOK
  BY IndexerAssumption DEF IInv, TypeOK
<1>1. ASSUME Crash \/ CrashInCheckpoint \/ Exit PROVE FALSE
  BY <1>0, <1>1 DEF Crash, CrashInCheckpoint, Exit, ProcessEnds
<1>2. ~Boot /\ ~BootFails
  BY DEF Boot, BootFails
<1>3. ASSUME NEW s \in Syncs, SyncRange(s)
      PROVE  DOMAIN store \subseteq DOMAIN store' /\ process' = process /\ crashes' = crashes
  <2>1. \E E \in SUBSET Logs(s, "entry"), P \in SUBSET Logs(s, "post") : store' \in Ingested(store, E, P)
    BY <1>3 DEF SyncRange
  <2>2. Logs(s, "entry") \subseteq Ops /\ Logs(s, "post") \subseteq Ops
    BY DEF Logs, Emitters
  <2>3. PICK E \in SUBSET Ops, P \in SUBSET Ops : store' \in Ingested(store, E, P)
    BY <2>1, <2>2
  <2> QED
    BY <1>0, <1>3, <2>3, RoomForAll DEF SyncRange
<1>4. ASSUME NewBlock \/ Stop
             \/ (\E s \in Syncs : SyncStarts(s) \/ HeadRead(s) \/ Advance(s) \/ AdvanceUnsaved(s) \/ SyncFails(s))
             \/ (\E k \in Kinds : Write(k) \/ WriteFails(k)) \/ UNCHANGED vars
      PROVE  store' = store /\ process' \in {process, "stopping"} /\ crashes' = crashes
  BY <1>4 DEF NewBlock, Stop, SyncStarts, HeadRead, Advance, AdvanceUnsaved, SyncFails, Write, WriteFails,
              vars, memoryVars, historyVars
<1> QED
  BY <1>1, <1>2, <1>3, <1>4 DEF Next, SyncProceeds

LEMMA FailedIs ==
  ASSUME NEW S, S \subseteq DOMAIN store, DOMAIN store \subseteq Ops
  PROVE  /\ Totals(S).failed = Cardinality(FailedOf(S))
         /\ metricsSummary.failed = Cardinality(FailedOf(DOMAIN store))
         /\ \A summary : analyzeSoakRun(summary, S, 0).userOpFailures = Cardinality(FailedOf(S))
<1>1. ASSUME NEW T, T \subseteq DOMAIN store
      PROVE  Totals(T).failed = Cardinality(FailedOf(T)) /\ "failed" \in DOMAIN Totals(T)
  <2>1. ASSUME NEW h \in T PROVE UserOpSummary(h).success = Op[h].success
    BY DEF UserOpSummary
  <2>2. {h \in T : ~UserOpSummary(h).success} = FailedOf(T)
    BY <2>1, Zenon DEF FailedOf
  <2>3. Totals(T).failed = Cardinality({h \in T : ~UserOpSummary(h).success}) /\ "failed" \in DOMAIN Totals(T)
    BY DEF Totals
  <2> QED
    BY <2>2, <2>3
<1>2. metricsSummary.failed = Totals(DOMAIN store).failed
  <2> DEFINE t == Totals(DOMAIN store)
  <2>1. "failed" \in DOMAIN t
    BY <1>1
  <2> HIDE DEF t
  <2>2. With(t, "uniqueSenders", Cardinality(Senders)).failed = t.failed
    BY <2>1 DEF With
  <2> QED
    BY <2>2 DEF metricsSummary, t
<1>3. \A summary : analyzeSoakRun(summary, S, 0).userOpFailures = Cardinality(FailedOf(S))
  BY DEF analyzeSoakRun, FailedOf
<1> QED
  BY <1>1, <1>2, <1>3

(* A bound on what failed holds on, and the soak test is judged by the     *)
(* records it was given.                                                   *)
LEMMA FailedGrows ==
  ASSUME NEW S, S \subseteq Ops, NEW T \in SUBSET S
  PROVE  /\ Cardinality(FailedOf(T)) \in Nat /\ Cardinality(FailedOf(S)) \in Nat
         /\ Cardinality(FailedOf(T)) <= Cardinality(FailedOf(S))
<1>1. FailedOf(S) \subseteq Ops /\ FailedOf(T) \subseteq FailedOf(S)
  BY DEF FailedOf
<1> QED
  BY <1>1, FiniteOps

(* The list has every operation of the store, if it has room.              *)
LEMMA ListedIs ==
  ASSUME TypeOK, NEW listed \in listUserOps(10000, Unfiltered)
  PROVE  listed \subseteq DOMAIN store /\ (Roomy => listed = DOMAIN store)
<1> DEFINE size == Lesser(Cardinality(DOMAIN store), Greater(1, Lesser(10000, MaxListed)))
<1>1. ASSUME NEW matches, NEW S \in listUserOps(10000, matches),
             {h \in DOMAIN store : UserOpSummary(h) \in matches} = DOMAIN store
      PROVE  S \subseteq DOMAIN store /\ Cardinality(S) = size
  <2> DEFINE matching == {h \in DOMAIN store : UserOpSummary(h) \in matches}
  <2>1. listUserOps(10000, matches) =
          {U \in SUBSET matching :
             /\ Cardinality(U) = Lesser(Cardinality(matching), Greater(1, Lesser(10000, MaxListed)))
             /\ \A g \in U, h \in matching \ U : blockOf[h] <= blockOf[g]}
    BY DEF listUserOps
  <2>2. matching = DOMAIN store
    BY <1>1
  <2> HIDE DEF matching
  <2>3. S \in SUBSET matching /\ Cardinality(S) = Lesser(Cardinality(matching), Greater(1, Lesser(10000, MaxListed)))
    BY <2>1
  <2> QED
    BY <2>2, <2>3
<1>2. listed \subseteq DOMAIN store /\ Cardinality(listed) = size
  <2>1. {h \in DOMAIN store : UserOpSummary(h) \in Unfiltered} = DOMAIN store
    BY DEF Unfiltered
  <2> QED
    BY <1>1, <2>1
<1>3. ASSUME Roomy PROVE listed = DOMAIN store
  <2>1. DOMAIN store \subseteq Ops
    BY DEF TypeOK, Stores
  <2>2. /\ Cardinality(DOMAIN store) \in Nat /\ Cardinality(Ops) \in Nat
        /\ Cardinality(DOMAIN store) <= Cardinality(Ops)
    BY <2>1, FiniteOps
  <2>3. Cardinality(DOMAIN store) <= MaxListed
    BY <1>3, <2>2, IndexerAssumption, ReportsAssumption DEF Roomy, Lesser
  <2>4. size = Cardinality(DOMAIN store)
    BY <2>2, <2>3, ReportsAssumption DEF Lesser, Greater
  <2> QED
    BY <1>2, <2>1, <2>4, FiniteOps
<1> QED
  BY <1>2, <1>3

(* What has been executed stays so.                                        *)
LEMMA ExecutedStays ==
  ASSUME TypeOK, [Next]_vars
  PROVE  Executed \subseteq Executed'
<1>1. CASE NewBlock
  BY <1>1 DEF NewBlock, Executed, TypeOK
<1>2. CASE UNCHANGED blockOf
  BY <1>2 DEF Executed
<1>3. NewBlock \/ UNCHANGED blockOf
  BY DEF Next, SyncProceeds, Boot, BootFails, Stop, Crash, CrashInCheckpoint, Exit, ProcessEnds,
         SyncStarts, HeadRead, SyncRange, Advance, AdvanceUnsaved, SyncFails, Write, WriteFails,
         vars, chainVars
<1> QED
  BY <1>1, <1>2, <1>3

SoakInv == SoakOK /\ SoakIsJust

LEMMA JustIs ==
  /\ SoakIsJust <=>
       (soak.at = "judged" =>
          /\ soak.report.userOpFailures <= Cardinality(FailedOf(Executed))
          /\ Roomy /\ crashes = 0 => soak.report.userOpFailures >= soak.summary.failed)
  /\ SoakIsJust' <=>
       (soak'.at = "judged" =>
          /\ soak'.report.userOpFailures <= Cardinality(FailedOf(Executed'))
          /\ Roomy /\ crashes' = 0 => soak'.report.userOpFailures >= soak'.summary.failed)
<1>1. {h \in Ops : blockOf[h] # 0 /\ ~Op[h].success} = FailedOf(Executed)
      /\ {h \in Ops : blockOf'[h] # 0 /\ ~Op[h].success} = FailedOf(Executed')
  BY DEF FailedOf, Executed
<1> QED
  BY <1>1 DEF SoakIsJust, Roomy

(* The indexer's steps do not touch what was collected.                    *)
LEMMA IndexerSoak ==
  ASSUME IInv, IInv', SoakInv, [Next]_vars, UNCHANGED soak
  PROVE  SoakInv'
<1>0. TypeOK /\ TypeOK' /\ crashes \in Nat /\ crashes' \in Nat
  BY IndexerAssumption DEF IInv, TypeOK
<1>1. crashes' = 0 => crashes = 0 /\ (process # "down" => process' # "down")
  <2>1. crashes <= crashes'
    BY <1>0 DEF Next, SyncProceeds, NewBlock, Boot, BootFails, Stop, Crash, CrashInCheckpoint, Exit,
           ProcessEnds, SyncStarts, HeadRead, SyncRange, Advance, AdvanceUnsaved, SyncFails, Write,
           WriteFails, vars, historyVars
  <2>2. ASSUME crashes' = crashes, process # "down" PROVE process' # "down"
    BY <1>0, <2>2 DEF Next, SyncProceeds, NewBlock, Boot, BootFails, Stop, Crash, CrashInCheckpoint,
           Exit, ProcessEnds, SyncStarts, HeadRead, SyncRange, Advance, AdvanceUnsaved, SyncFails,
           Write, WriteFails, vars, memoryVars, historyVars
  <2> QED
    BY <1>0, <2>1, <2>2
<1>2. ASSUME soak.at = "summary", Roomy, crashes' = 0
      PROVE  soak.summary.failed <= Cardinality(FailedOf(DOMAIN store'))
  <2>1. DOMAIN store \subseteq DOMAIN store'
    BY <1>1, <1>2, StoreGrows DEF SoakInv, SoakOK
  <2>2. DOMAIN store' \subseteq Ops
    BY <1>0 DEF TypeOK, Stores
  <2> QED
    <3>1. soak.summary.failed \in Nat /\ soak.summary.failed <= Cardinality(FailedOf(DOMAIN store))
      BY <1>1, <1>2 DEF SoakInv, SoakOK
    <3> QED
      BY <2>1, <2>2, <3>1, FailedGrows
<1>3. SoakOK'
  BY <1>1, <1>2 DEF SoakInv, SoakOK, Roomy, FailedOf
<1>4. ASSUME soak.at = "judged"
      PROVE  /\ soak.report.userOpFailures <= Cardinality(FailedOf(Executed'))
             /\ Roomy /\ crashes' = 0 => soak.report.userOpFailures >= soak.summary.failed
  <2>1. Executed \subseteq Executed' /\ Executed' \subseteq Ops
    BY <1>0, ExecutedStays DEF Executed
  <2>2. /\ soak.report.userOpFailures \in Nat
        /\ soak.report.userOpFailures <= Cardinality(FailedOf(Executed))
        /\ Roomy /\ crashes = 0 => soak.report.userOpFailures >= soak.summary.failed
    BY <1>4, JustIs DEF SoakInv, SoakOK
  <2>3. /\ Cardinality(FailedOf(Executed)) \in Nat /\ Cardinality(FailedOf(Executed')) \in Nat
        /\ Cardinality(FailedOf(Executed)) <= Cardinality(FailedOf(Executed'))
    BY <2>1, FailedGrows
  <2> QED
    BY <1>1, <2>2, <2>3
<1>5. SoakIsJust'
  BY <1>4, JustIs
<1> QED
  BY <1>3, <1>5 DEF SoakInv

(* Nothing is collected from a monitor that is down, and the list is read  *)
(* from a store that has all the summary knew of.                          *)
LEMMA SoakSteps ==
  ASSUME IInv, RecordsOK, SoakInv, SoakStep
  PROVE  SoakInv'
<1>0. DOMAIN store \subseteq Executed /\ Executed \subseteq Ops /\ TypeOK
  BY DEF IInv, RecordsOK, Executed
<1>1. UNCHANGED <<process, crashes, store, blockOf>> /\ Executed' = Executed
  BY DEF SoakStep, vars, chainVars, memoryVars, historyVars, Executed
<1>2. CASE CollectSummary
  <2>1. soak'.at = "summary" /\ soak'.summary = metricsSummary /\ process # "down"
    BY <1>2 DEF CollectSummary
  <2>2. metricsSummary.failed = Cardinality(FailedOf(DOMAIN store))
        /\ Cardinality(FailedOf(DOMAIN store)) \in Nat
    BY <1>0, FailedIs, FailedGrows
  <2>3. SoakOK'
    BY <1>1, <2>1, <2>2 DEF SoakOK, FailedOf
  <2>4. SoakIsJust'
    BY <2>1 DEF SoakIsJust
  <2> QED
    BY <2>3, <2>4 DEF SoakInv
<1>3. CASE CollectUserOps
  <2>1. PICK listed \in listUserOps(10000, Unfiltered) :
          soak' = [at |-> "judged", summary |-> soak.summary,
                   report |-> analyzeSoakRun(soak.summary, listed, 0)]
    BY <1>3 DEF CollectUserOps
  <2>2. listed \subseteq DOMAIN store /\ (Roomy => listed = DOMAIN store)
    BY <1>0, ListedIs
  <2> DEFINE report == analyzeSoakRun(soak.summary, listed, 0)
  <2>3. report.userOpFailures = Cardinality(FailedOf(listed))
    BY <1>0, <2>2, FailedIs
  <2>4. Cardinality(FailedOf(listed)) \in Nat
        /\ Cardinality(FailedOf(listed)) <= Cardinality(FailedOf(Executed))
    BY <1>0, <2>2, FailedGrows
  <2>5. soak.summary.failed \in Nat
        /\ (Roomy /\ crashes = 0 => soak.summary.failed <= Cardinality(FailedOf(DOMAIN store)))
    BY <1>3 DEF SoakInv, SoakOK, CollectUserOps
  <2> HIDE DEF report
  <2>6. soak'.at = "judged" /\ soak'.summary = soak.summary
        /\ soak'.report.userOpFailures = Cardinality(FailedOf(listed))
    BY <2>1, <2>3 DEF report
  <2>7. SoakOK'
    BY <2>4, <2>5, <2>6 DEF SoakOK
  <2>8. SoakIsJust'
    BY <1>1, <2>2, <2>4, <2>5, <2>6, JustIs
  <2> QED
    BY <2>7, <2>8 DEF SoakInv
<1>4. CASE SoakAborts
  <2>1. soak'.at = "aborted"
    BY <1>4 DEF SoakAborts
  <2> QED
    BY <2>1 DEF SoakInv, SoakOK, SoakIsJust
<1> QED
  BY <1>2, <1>3, <1>4 DEF SoakStep

(* The soak test only reads: what holds of the indexer holds with it.      *)
THEOREM ReportsOnlyRead == ReportsSpec => Spec
<1>1. ReportsInit => Init
  BY DEF ReportsInit
<1>2. [ReportsNext]_<<vars, soak>> => [Next]_vars
  BY DEF ReportsNext, IndexerStep, SoakStep
<1> QED
  BY <1>1, <1>2, PTL DEF ReportsSpec, Spec

(* Whatever is lost, evicted or reloaded, a soak run is never failed for   *)
(* more than failed on chain; and with room for all operations and no end  *)
(* of the process, for no less than its own summary.                       *)
THEOREM SoaksAreJust == ReportsSpec => []SoakIsJust
<1>1. ReportsInit => SoakInv
  BY DEF ReportsInit, SoakInv, SoakOK, SoakIsJust
<1>2. IInv /\ IInv' /\ MemoryInv /\ SoakInv /\ [ReportsNext]_<<vars, soak>> => SoakInv'
  <2> SUFFICES ASSUME IInv, IInv', MemoryInv, SoakInv, [ReportsNext]_<<vars, soak>>
               PROVE  SoakInv'
    OBVIOUS
  <2>1. CASE SoakStep
    BY <2>1, SoakSteps DEF MemoryInv
  <2>2. CASE IndexerStep \/ UNCHANGED <<vars, soak>>
    BY <2>2, IndexerSoak DEF IndexerStep
  <2> QED
    BY <2>1, <2>2 DEF ReportsNext
<1>3. SoakInv => SoakIsJust
  BY DEF SoakInv
<1> QED
  BY <1>1, <1>2, <1>3, ReportsOnlyRead, IndexerInvariant, MemoryInvariant, PTL DEF ReportsSpec
----------------------------------------------------------------------------
(* The reports.  What is summed is a column of the table of operations.    *)

Column(f) == [h \in DOMAIN store |-> IF f = "total" THEN 1 ELSE UserOpSummary(h)[f]]

LEMMA Columns ==
  ASSUME DOMAIN store \subseteq Ops, TypeOK, NEW f \in Fields
  PROVE  IsFiniteSet(DOMAIN store) /\ Naturals(Column(f), DOMAIN store)
<1>1. IsFiniteSet(DOMAIN store)
  BY FiniteOps
<1>2. ASSUME NEW h \in DOMAIN store
      PROVE  UserOpSummary(h).gas \in Nat /\ UserOpSummary(h).fee \in Nat
  <2>1. h \in Ops /\ Op[h].fee \in Nat /\ Op[h].entryGas \in Nat /\ Op[h].postGas \in Nat
    BY ReportsAssumption
  <2> QED
    BY <2>1 DEF UserOpSummary
<1>3. \A h \in DOMAIN store : Column(f)[h] \in Nat
  BY <1>2 DEF Column, Fields
<1> QED
  BY <1>1, <1>3 DEF Naturals

LEMMA TotalsAre ==
  ASSUME DOMAIN store \subseteq Ops, TypeOK, NEW S \in SUBSET DOMAIN store, NEW f \in Fields
  PROVE  Totals(S)[f] = SumFunctionOnSet(Column(f), S)
<1>1. IsFiniteSet(S) /\ Naturals(Column(f), S)
  BY Columns, FS_Subset DEF Naturals
<1>2. CASE f = "total"
  <2>1. \A h \in S : Column(f)[h] = 1
    BY <1>2 DEF Column
  <2>2. Totals(S)[f] = Cardinality(S)
    BY <1>2 DEF Totals
  <2> QED
    BY <1>1, <2>1, <2>2, SumOfOnes
<1>3. CASE f = "gas" \/ f = "fee"
  <2> DEFINE g == [h \in S |-> UserOpSummary(h)[f]]
  <2>1. DOMAIN g = S /\ \A h \in S : Column(f)[h] = g[h]
    BY <1>3 DEF Column
  <2>2. Totals(S)[f] = SumFunction(g)
    BY <1>3 DEF Totals
  <2> HIDE DEF g
  <2>3. SumFunction(g) = SumFunctionOnSet(g, S)
    BY <2>1, Zenon DEF SumFunction
  <2>4. SumFunctionOnSet(Column(f), S) = SumFunctionOnSet(g, S)
    BY <1>1, <2>1, SumsEqual
  <2> QED
    BY <2>2, <2>3, <2>4
<1> QED
  BY <1>2, <1>3 DEF Fields

(* The parts of a table, one for each value of a key, add up to the whole. *)
PartsOf(parts, K, k) ==
  /\ DOMAIN parts = K
  /\ \A h \in DOMAIN store : k[h] \in K
  /\ \A c \in K, f \in Fields : parts[c][f] = Totals(Class(DOMAIN store, k, c))[f]

LEMMA PartsAddUp ==
  ASSUME DOMAIN store \subseteq Ops, TypeOK, NEW K, IsFiniteSet(K), NEW k,
         NEW parts, PartsOf(parts, K, k),
         NEW whole, \A f \in Fields : whole[f] = Totals(DOMAIN store)[f]
  PROVE  AddsUp(parts, whole)
<1> SUFFICES ASSUME NEW f \in Fields
             PROVE  whole[f] = SumFunction([p \in DOMAIN parts |-> parts[p][f]])
  BY DEF AddsUp
<1> DEFINE S == DOMAIN store
           c == Column(f)
           g == [p \in DOMAIN parts |-> parts[p][f]]
<1>1. IsFiniteSet(S) /\ Naturals(c, S)
  BY Columns
<1>2. DOMAIN g = K /\ \A p \in K : g[p] = parts[p][f]
  BY DEF PartsOf
<1> HIDE DEF g
<1>3. ASSUME NEW p \in K PROVE g[p] = SumFunctionOnSet(c, Class(S, k, p))
  <2>1. Class(S, k, p) \in SUBSET S
    BY DEF Class
  <2>2. Totals(Class(S, k, p))[f] = SumFunctionOnSet(c, Class(S, k, p))
    BY <2>1, TotalsAre
  <2> QED
    BY <1>2, <2>2 DEF PartsOf
<1>4. \A h \in S : k[h] \in K
  BY DEF PartsOf
<1> HIDE DEF c
<1>5. SumFunctionOnSet(g, K) = SumFunctionOnSet(c, S)
  <2> HIDE DEF S
  <2> QED
    BY <1>1, <1>3, <1>4, SumOfClasses
<1>6. whole[f] = SumFunctionOnSet(c, S)
  BY TotalsAre DEF c
<1>7. SumFunction(g) = SumFunctionOnSet(g, K)
  BY <1>2, Zenon DEF SumFunction
<1> QED
  BY <1>5, <1>6, <1>7, Zenon DEF g

LEMMA WithKeeps ==
  ASSUME NEW r, NEW field, NEW value, NEW f \in DOMAIN r, f # field
  PROVE  With(r, field, value)[f] = r[f]
BY DEF With

LEMMA TotalsHave ==
  ASSUME NEW S
  PROVE  /\ \A f \in Fields : f \in DOMAIN Totals(S) /\ f \notin {"uniqueSenders", "lastOpTs"}
         /\ Totals(S).failed = Cardinality({h \in S : ~UserOpSummary(h).success})
<1>1. DOMAIN Totals(S) = {"total", "succeeded", "failed", "gas", "fee"}
  BY DEF Totals
<1>2. Totals(S).failed = Cardinality({h \in S : ~UserOpSummary(h).success})
  BY DEF Totals
<1> QED
  BY <1>1, <1>2 DEF Fields

LEMMA SummaryIs ==
  /\ \A f \in Fields : metricsSummary[f] = Totals(DOMAIN store)[f]
  /\ metricsSummary.failed = Cardinality({h \in DOMAIN store : ~UserOpSummary(h).success})
<1> DEFINE t == Totals(DOMAIN store)
<1>1. (\A f \in Fields : f \in DOMAIN t /\ f # "uniqueSenders") /\ "failed" \in DOMAIN t
  <2>1. "failed" \in DOMAIN t
    BY DEF Totals
  <2> HIDE DEF t
  <2> QED
    BY <2>1, TotalsHave DEF t
<1>2. t.failed = Cardinality({h \in DOMAIN store : ~UserOpSummary(h).success})
  BY TotalsHave
<1> HIDE DEF t
<1>3. metricsSummary = With(t, "uniqueSenders", Cardinality(Senders))
  BY DEF metricsSummary, t
<1>4. "failed" # "uniqueSenders"
  OBVIOUS
<1>5. \A f \in Fields : metricsSummary[f] = t[f]
  BY <1>1, <1>3, WithKeeps, Zenon
<1>6. metricsSummary["failed"] = t["failed"]
  BY <1>1, <1>3, <1>4, WithKeeps, Zenon
<1> QED
  BY <1>2, <1>5, <1>6 DEF t
LEMMA ImageFinite ==
  ASSUME NEW S, IsFiniteSet(S), NEW k
  PROVE  IsFiniteSet({k[x] : x \in S})
<1> DEFINE T == {k[x] : x \in S}
           m == [x \in S |-> k[x]]
<1>1. m \in Surjection(S, T)
  BY DEF Surjection
<1> HIDE DEF m, T
<1>2. IsFiniteSet(T)
  BY <1>1, FS_Surjection
<1> QED
  BY <1>2 DEF T

(* Each sender's numbers are those of its operations.                      *)
LEMMA SendersAddUp ==
  ASSUME DOMAIN store \subseteq Ops, TypeOK
  PROVE  AddsUp(perSenderMetrics, metricsSummary)
<1> DEFINE S == DOMAIN store
           k == [h \in S |-> UserOpSummary(h).sender]
           Own(s) == {h \in S : UserOpSummary(h).sender = s}
           parts == [s \in Senders |->
                      With(Totals(Own(s)), "lastOpTs", Max({UserOpSummary(h).ts : h \in Own(s)}))]
<1>1. perSenderMetrics = parts
  BY DEF perSenderMetrics
<1>2. IsFiniteSet(Senders)
  <2>1. IsFiniteSet(S)
    BY FiniteOps
  <2>2. Senders = {k[h] : h \in S}
    BY DEF Senders
  <2> HIDE DEF S, k
  <2>3. IsFiniteSet({k[h] : h \in S})
    BY <2>1, ImageFinite
  <2> QED
    BY <2>2, <2>3
<1>3. \A h \in S : k[h] \in Senders
  BY DEF Senders
<1>4. ASSUME NEW s \in Senders, NEW f \in Fields
      PROVE  parts[s][f] = Totals(Class(S, k, s))[f]
  <2>1. Class(S, k, s) = Own(s)
    BY DEF Class
  <2> DEFINE t == Totals(Own(s))
             last == Max({UserOpSummary(h).ts : h \in Own(s)})
  <2>2. parts[s] = With(t, "lastOpTs", last)
    BY Zenon
  <2>3. f \in DOMAIN t /\ f # "lastOpTs"
    BY TotalsHave
  <2> HIDE DEF parts, t, last
  <2>4. With(t, "lastOpTs", last)[f] = t[f]
    BY <2>3, WithKeeps
  <2> QED
    BY <2>1, <2>2, <2>4, Zenon DEF t
<1>5. DOMAIN parts = Senders
  OBVIOUS
<1> HIDE DEF parts, k
<1>6. PartsOf(parts, Senders, k)
  BY <1>3, <1>4, <1>5 DEF PartsOf
<1>7. AddsUp(parts, metricsSummary)
  BY <1>2, <1>6, SummaryIs, PartsAddUp
<1> QED
  BY <1>1, <1>7

(* Every time of a window is in one bucket, which begins within it.        *)
LEMMA BucketOf ==
  ASSUME NEW start \in Int, NEW now \in Int, NEW bucket \in Nat \ {0}, NEW ts \in start .. now
  PROVE  start + ((ts - start) \div bucket) * bucket \in Buckets(start, now, bucket)
<1> DEFINE m == ts - start
           i == m \div bucket
           p == i * bucket
<1>1. m \in 0 .. now - start
  OBVIOUS
<1>2. i \in Nat /\ p \in Nat /\ p <= m /\ i <= p
  <2>1. m \in Nat
    BY <1>1
  <2> HIDE DEF m
  <2>2. i \in Nat
    BY <2>1
  <2>3. p <= m
    BY <2>1
  <2> HIDE DEF i
  <2>4. i <= p /\ p \in Nat
    BY <2>2
  <2> QED
    BY <2>2, <2>3, <2>4
<1>3. i \in 0 .. now - start /\ start + p \in start .. now
  BY <1>1, <1>2
<1> HIDE DEF i
<1>4. start + i * bucket \in Buckets(start, now, bucket)
  BY <1>3 DEF Buckets
<1> QED
  BY <1>4 DEF i

LEMMA SeriesAddsUp ==
  ASSUME DOMAIN store \subseteq Executed, TypeOK, head <= MaxWindow, NEW bucketSec \in Nat
  PROVE  AddsUp(timeseries(head, head, bucketSec), metricsSummary)
<1> DEFINE S == DOMAIN store
           window == Greater(MinWindow, Lesser(head, MaxWindow))
           bucket == Greater(MinWindow, Lesser(bucketSec, window))
           start == head - window
           Start(ts) == start + ((ts - start) \div bucket) * bucket
           K == Buckets(start, head, bucket)
           k == [h \in S |-> Start(UserOpSummary(h).ts)]
           parts == [t \in K |->
                      Totals({h \in S : UserOpSummary(h).ts >= start /\ Start(UserOpSummary(h).ts) = t})]
<1>1. timeseries(head, head, bucketSec) = parts
  BY DEF timeseries
<1>2. start \in Int /\ head \in Nat /\ start <= 0 /\ bucket \in Nat \ {0}
  BY ReportsAssumption DEF TypeOK, Greater, Lesser
<1>3. S \subseteq Ops
  BY DEF Executed
<1> HIDE DEF window, bucket, start
<1>4. ASSUME NEW h \in S
      PROVE  UserOpSummary(h).ts \in start .. head /\ UserOpSummary(h).ts >= start
  <2>1. blockOf[h] \in 0 .. head
    BY <1>3 DEF TypeOK
  <2>2. UserOpSummary(h).ts = blockOf[h]
    BY DEF UserOpSummary
  <2> QED
    BY <1>2, <2>1, <2>2
<1>5. ASSUME NEW h \in S PROVE k[h] \in K
  <2> DEFINE ts == UserOpSummary(h).ts
  <2>1. ts \in start .. head /\ start \in Int /\ head \in Int /\ k[h] = Start(ts)
    BY <1>2, <1>4
  <2> HIDE DEF k, ts, K
  <2>2. start + ((ts - start) \div bucket) * bucket \in Buckets(start, head, bucket)
    BY <1>2, <2>1, BucketOf
  <2> QED
    BY <2>1, <2>2, Zenon DEF K
<1>6. IsFiniteSet(K)
  <2>1. K \subseteq start .. head
    BY DEF Buckets
  <2>2. IsFiniteSet(start .. head)
    BY <1>2, FS_Interval
  <2> QED
    BY <2>1, <2>2, FS_Subset
<1>7. ASSUME NEW t \in K PROVE parts[t] = Totals(Class(S, k, t))
  <2>1. {h \in S : UserOpSummary(h).ts >= start /\ Start(UserOpSummary(h).ts) = t} = Class(S, k, t)
    <3> HIDE DEF Start
    <3> QED
      BY <1>4 DEF Class
  <2> QED
    BY <2>1, Zenon
<1>8. DOMAIN parts = K
  OBVIOUS
<1> HIDE DEF parts, k, K
<1>9. PartsOf(parts, K, k)
  BY <1>5, <1>7, <1>8 DEF PartsOf
<1>10. AddsUp(parts, metricsSummary)
  BY <1>3, <1>6, <1>9, SummaryIs, PartsAddUp
<1> QED
  BY <1>1, <1>10, Zenon

(* Every failure has one reason.                                           *)
LEMMA FailuresAddUp ==
  ASSUME DOMAIN store \subseteq Ops
  PROVE  metricsSummary.failed = SumFunction(getFailureMetrics)
<1> DEFINE S == {h \in DOMAIN store : ~UserOpSummary(h).success}
           k == [h \in S |-> UserOpSummary(h).reason]
           K == {k[h] : h \in S}
           ones == [h \in S |-> 1]
           g == [r \in K |-> Cardinality({h \in S : UserOpSummary(h).reason = r})]
<1>1. getFailureMetrics = g
  <2>1. K = {UserOpSummary(h).reason : h \in S}
    OBVIOUS
  <2> HIDE DEF K
  <2> QED
    BY <2>1, Zenon DEF getFailureMetrics
<1>2. IsFiniteSet(S)
  BY FiniteOps
<1>3. (\A h \in S : k[h] \in K) /\ \A h \in S : ones[h] = 1
  OBVIOUS
<1>4. ASSUME NEW r \in K PROVE {h \in S : UserOpSummary(h).reason = r} = Class(S, k, r)
  <2> HIDE DEF K
  <2> QED
    BY DEF Class
<1>5. DOMAIN g = K /\ \A r \in K : g[r] = Cardinality(Class(S, k, r))
  <2>1. \A r \in K : g[r] = Cardinality({h \in S : UserOpSummary(h).reason = r})
    BY Zenon
  <2>2. DOMAIN g = K
    OBVIOUS
  <2> HIDE DEF g
  <2> QED
    BY <1>4, <2>1, <2>2, Zenon
<1> HIDE DEF g, ones
<1>6. IsFiniteSet(K)
  <2> HIDE DEF S, k
  <2> QED
    BY <1>2, ImageFinite
<1> HIDE DEF k, K, S
<1>7. \A r \in K : IsFiniteSet(Class(S, k, r)) /\ \A h \in Class(S, k, r) : ones[h] = 1
  BY <1>2, <1>3, FS_Subset DEF Class
<1>8. \A r \in K : g[r] = SumFunctionOnSet(ones, Class(S, k, r))
  BY <1>5, <1>7, SumOfOnes
<1>9. Naturals(ones, S)
  BY <1>3 DEF Naturals
<1>10. SumFunctionOnSet(g, K) = SumFunctionOnSet(ones, S)
  BY <1>2, <1>3, <1>6, <1>8, <1>9, SumOfClasses
<1>11. SumFunctionOnSet(ones, S) = Cardinality(S)
  BY <1>2, <1>3, SumOfOnes
<1>12. metricsSummary.failed = Cardinality(S)
  BY SummaryIs, Zenon DEF S
<1>13. SumFunction(g) = SumFunctionOnSet(g, K)
  BY <1>5, Zenon DEF SumFunction
<1> QED
  BY <1>1, <1>10, <1>11, <1>12, <1>13, Zenon

(* No column holds more than what was earned or paid on chain.             *)
LEMMA NoMoreThanChain ==
  ASSUME DOMAIN store \subseteq Executed, TypeOK, NEW f \in Fields,
         NEW g, DOMAIN g = Executed, \A h \in Executed : g[h] \in Nat,
         \A h \in DOMAIN store : Column(f)[h] <= g[h]
  PROVE  metricsSummary[f] <= SumFunction(g)
<1> DEFINE S == DOMAIN store
           c == Column(f)
<1>1. S \subseteq Ops /\ IsFiniteSet(Executed)
  BY FiniteOps DEF Executed
<1>2. IsFiniteSet(S) /\ Naturals(c, S)
  BY <1>1, Columns
<1>3. metricsSummary[f] = SumFunctionOnSet(c, S)
  BY <1>1, SummaryIs, TotalsAre
<1>4. SumFunction(g) = SumFunctionOnSet(g, Executed)
  BY Zenon DEF SumFunction
<1>5. \A h \in S : c[h] <= g[h]
  OBVIOUS
<1> HIDE DEF c, S
<1>6. /\ Naturals(g, Executed) /\ Naturals(g, S) /\ Naturals(g, Executed \ S)
      /\ S \in SUBSET Executed /\ IsFiniteSet(Executed \ S)
  BY <1>1, FS_Subset DEF Naturals, S
<1>7. SumFunctionOnSet(c, S) <= SumFunctionOnSet(g, S)
  BY <1>2, <1>5, <1>6, SumsCompare
<1>8. SumFunctionOnSet(g, Executed) = SumFunctionOnSet(g, S) + SumFunctionOnSet(g, Executed \ S)
  BY <1>1, <1>6, SumOfParts
<1>9. /\ SumFunctionOnSet(g, S) \in Nat /\ SumFunctionOnSet(g, Executed \ S) \in Nat
      /\ SumFunctionOnSet(c, S) \in Nat
  BY <1>2, <1>6, SumType
<1> QED
  BY <1>3, <1>4, <1>7, <1>8, <1>9

LEMMA EarnedAndPaid ==
  ASSUME DOMAIN store \subseteq Executed, TypeOK
  PROVE  /\ metricsSummary.fee <= SumFunction([h \in Executed |-> Op[h].fee])
         /\ metricsSummary.gas <= SumFunction([h \in Executed |-> Op[h].entryGas])
<1> DEFINE fees == [h \in Executed |-> Op[h].fee]
           gas == [h \in Executed |-> Op[h].entryGas]
<1>1. \A h \in Executed : /\ fees[h] = Op[h].fee /\ gas[h] = Op[h].entryGas
                          /\ Op[h].fee \in Nat /\ Op[h].entryGas \in Nat
                          /\ Op[h].postGas \in 0 .. Op[h].entryGas
  BY ReportsAssumption DEF Executed
<1>2. DOMAIN fees = Executed /\ DOMAIN gas = Executed
  OBVIOUS
<1>3. "fee" \in Fields /\ "gas" \in Fields
  BY DEF Fields
<1> HIDE DEF fees, gas
<1>4. ASSUME NEW h \in DOMAIN store
      PROVE  Column("fee")[h] <= fees[h] /\ Column("gas")[h] <= gas[h]
  <2>1. h \in Executed
    OBVIOUS
  <2>2. Column("fee")[h] = UserOpSummary(h).fee /\ Column("gas")[h] = UserOpSummary(h).gas
    BY DEF Column
  <2>3. UserOpSummary(h).fee \in {0, Op[h].fee} /\ UserOpSummary(h).gas \in {Op[h].entryGas, Op[h].postGas}
    BY DEF UserOpSummary
  <2> QED
    BY <1>1, <2>1, <2>2, <2>3
<1>5. metricsSummary["fee"] <= SumFunction(fees)
  BY <1>1, <1>2, <1>3, <1>4, NoMoreThanChain
<1>6. metricsSummary["gas"] <= SumFunction(gas)
  BY <1>1, <1>2, <1>3, <1>4, NoMoreThanChain
<1> QED
  BY <1>5, <1>6 DEF fees, gas

(* In every state the numbers of the senders, of the buckets of a series   *)
(* that reaches back far enough and of the reasons add up to the summary,  *)
(* whose fees and gas are no more than what was earned and paid on chain   *)
(* (UserOpAnalyticsStore.ts:93-222).                                       *)
THEOREM ReportsAlwaysAgree == ReportsSpec => []ReportsAgree
<1>1. IInv /\ MemoryInv => ReportsAgree
  <2> SUFFICES ASSUME IInv, MemoryInv PROVE ReportsAgree
    OBVIOUS
  <2>1. TypeOK /\ DOMAIN store \subseteq Executed /\ DOMAIN store \subseteq Ops
    BY DEF IInv, MemoryInv, RecordsOK, Executed
  <2>2. AddsUp(perSenderMetrics, metricsSummary)
    BY <2>1, SendersAddUp
  <2>3. head <= MaxWindow => \A bucket \in 1 .. 2 : AddsUp(timeseries(head, head, bucket), metricsSummary)
    BY <2>1, SeriesAddsUp
  <2>4. metricsSummary.failed = SumFunction(getFailureMetrics)
    BY <2>1, FailuresAddUp
  <2>5. /\ metricsSummary.fee <= SumFunction([h \in Executed |-> Op[h].fee])
        /\ metricsSummary.gas <= SumFunction([h \in Executed |-> Op[h].entryGas])
    BY <2>1, EarnedAndPaid
  <2> QED
    BY <2>2, <2>3, <2>4, <2>5, Zenon DEF ReportsAgree, Executed
<1> QED
  BY <1>1, ReportsOnlyRead, IndexerInvariant, MemoryInvariant, PTL
============================================================================
