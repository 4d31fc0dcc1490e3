------------------------------ MODULE Indexer ------------------------------
(***************************************************************************)
(* The chain indexer of the monitor: OnChainIndexer, its two NDJSON files, *)
(* its checkpoint file, and the UserOpAnalyticsStore it fills.             *)
(*                                                                         *)
(* A sync runs from await to await; nothing keeps the timer from starting  *)
(* one while others run.  Records are appended to the files by a queue per *)
(* file that nobody waits for, while the checkpoint is written at once.    *)
(* An operation stands for its events, a block for its timestamp, and one  *)
(* file for the files of all days.                                         *)
(***************************************************************************)
EXTENDS Integers, Sequences, FiniteSets

CONSTANTS
  Ops,             \* operations that may be executed on chain
  HasPostOp,       \* those of them for which the paymaster emits PostOpHandled
  lookbackBlocks,  \* blocks to look back when there is no checkpoint
  maxBlockRange,   \* blocks per request at most
  retentionMax,    \* operations kept in memory, records reloaded per file
  TailLines,       \* lines in the part of a file that is reloaded (512 kB)
  Syncs,           \* syncs that may run at a time (bounds the model)
  MaxHead,         \* last block (bounds the model)
  MaxLines,        \* lines read in all, per file (bounds the model)
  MaxFaults,       \* failing requests and writes (bounds the model)
  MaxCrashes,      \* ends of the process (bounds the model)
  MaxMishaps       \* both together (bounds the model)

ASSUME IndexerAssumption ==
  /\ IsFiniteSet(Ops) /\ HasPostOp \subseteq Ops /\ Ops \cap {"torn", "bad"} = {}
  /\ lookbackBlocks \in Nat
  /\ maxBlockRange \in Nat \ {0} /\ retentionMax \in Nat \ {0} /\ TailLines \in Nat
  /\ MaxHead \in Nat /\ MaxLines \in Nat /\ MaxFaults \in Nat /\ MaxCrashes \in Nat
  /\ MaxMishaps \in Nat

(* The two events of an operation, of EntryPoint and of paymaster, each    *)
(* with a file of its own.  A line of a file may be no record: torn by the *)
(* end of the process and still open, or ended by the next one.            *)
Kinds == {"entry", "post"}
NoRecord == {"torn", "bad"}

VARIABLES
  head,       \* last block of the chain
  blockOf,    \* the block that executed an operation, or 0
  process,    \* the monitor: "down", "up", "unindexed" (without indexer) or "stopping"
  sync,       \* the syncs: where one awaits, and its local variables
  lastProcessedBlock,
  checkpoint, \* lastProcessedBlock of indexer_state.json, 0 if unreadable
  store,      \* byHash: whether an operation's record has either event
  file,       \* the lines of the NDJSON file of each kind
  queue,      \* its appends that are not finished, in order
  flushing,   \* how many of them stop() waits for
  lost,       \* events read from a block, or not, that no file will have
  scanFrom,   \* where the last scan without a checkpoint began
  faults,
  crashes

chainVars == <<head, blockOf>>
memoryVars == <<process, sync, lastProcessedBlock, store, queue, flushing>>
diskVars == <<checkpoint, file>>
historyVars == <<lost, scanFrom, faults, crashes>>
vars == <<chainVars, memoryVars, diskVars, historyVars>>

At == {"idle", "head", "range", "traffic"}
Record == [entry : BOOLEAN, fee : BOOLEAN]
Stores == UNION {[S -> Record] : S \in SUBSET Ops}

TypeOK ==
  /\ head \in Nat /\ blockOf \in [Ops -> 0 .. head]
  /\ process \in {"down", "up", "unindexed", "stopping"}
  /\ sync \in [Syncs -> [at : At, from : Nat, latest : Nat]]
  /\ lastProcessedBlock \in Nat /\ checkpoint \in Nat
  /\ store \in Stores
  /\ file \in [Kinds -> Seq(Ops \cup NoRecord)]
  /\ queue \in [Kinds -> Seq(Seq(Ops))]
  /\ flushing \in [Kinds -> Nat]
  /\ lost \in [Kinds -> SUBSET Ops]
  /\ scanFrom \in Nat /\ faults \in 0 .. MaxFaults /\ crashes \in 0 .. MaxCrashes

Lesser(m, n) == IF m <= n THEN m ELSE n
Greater(m, n) == IF m >= n THEN m ELSE n
LinesOf(f) == {f[i] : i \in DOMAIN f}
Filed(k) == LinesOf(file[k]) \cap Ops
Queued(k) == UNION {LinesOf(queue[k][i]) : i \in DOMAIN queue[k]}
Emitters(k) == {h \in Ops : blockOf[h] # 0 /\ (k = "post" => h \in HasPostOp)}

Idle == [at |-> "idle", from |-> 0, latest |-> 0]

Mishap == faults + crashes < MaxMishaps

----------------------------------------------------------------------------
(* The chain.                                                              *)

NewBlock ==
  /\ head < MaxHead
  /\ head' = head + 1
  /\ \E S \in SUBSET {h \in Ops : blockOf[h] = 0} :
       blockOf' = [h \in Ops |-> IF h \in S THEN head' ELSE blockOf[h]]
  /\ UNCHANGED <<memoryVars, diskVars, historyVars>>

----------------------------------------------------------------------------
(* UserOpAnalyticsStore.                                                   *)

(* Variant: the newest are evicted.                                        *)
KeptOldest(m, S) ==
  /\ S \subseteq DOMAIN m
  /\ Cardinality(S) = Lesser(Cardinality(DOMAIN m), retentionMax)
  /\ \A g \in S, h \in DOMAIN m \ S : blockOf[h] >= blockOf[g]

(* Eviction keeps the newest; the order of equal times is left open.       *)
Kept(m, S) ==
  /\ S \subseteq DOMAIN m
  /\ Cardinality(S) = Lesser(Cardinality(DOMAIN m), retentionMax)
  /\ \A g \in S, h \in DOMAIN m \ S : blockOf[h] <= blockOf[g]
Evicted(m) == {[h \in S |-> m[h]] : S \in {T \in SUBSET DOMAIN m : Kept(m, T)}}

(* An operation that has a record of the same transaction, of either       *)
(* event, is left as it is.                                                *)
EntryIngested(m, S) ==
  [h \in DOMAIN m \cup S |-> IF h \in DOMAIN m THEN m[h] ELSE [entry |-> TRUE, fee |-> FALSE]]

PostIngested(m, S) ==
  [h \in DOMAIN m \cup S |->
    IF h \in S THEN [entry |-> h \in DOMAIN m /\ m[h].entry, fee |-> TRUE] ELSE m[h]]

(* Variant: the paymaster's events first.                                  *)
IngestedPostFirst(m, E, P) ==
  UNION {Evicted(EntryIngested(n, E)) : n \in Evicted(PostIngested(m, P))}
Ingested(m, E, P) == UNION {Evicted(PostIngested(n, P)) : n \in Evicted(EntryIngested(m, E))}

----------------------------------------------------------------------------
(* NdjsonDailyWriter.                                                      *)

(* Text after a torn line goes on with that line.                          *)
EndsTorn(f) == f # <<>> /\ f[Len(f)] = "torn"
Appended(f, batch) ==
  IF EndsTorn(f) THEN [f EXCEPT ![Len(f)] = "bad"] \o Tail(batch) ELSE f \o batch

Write(k) ==
  /\ queue[k] # <<>>
  /\ file' = [file EXCEPT ![k] = Appended(@, Head(queue[k]))]
  /\ lost' = [lost EXCEPT ![k] = @ \cup (LinesOf(Head(queue[k])) \ LinesOf(file'[k]))]
  /\ queue' = [queue EXCEPT ![k] = Tail(@)]
  /\ flushing' = [flushing EXCEPT ![k] = IF @ > 0 THEN @ - 1 ELSE 0]
  /\ UNCHANGED <<chainVars, process, sync, lastProcessedBlock, store, checkpoint,
                 scanFrom, faults, crashes>>

(* A failing write is logged and forgotten.                                *)
WriteFails(k) ==
  /\ queue[k] # <<>>
  /\ faults < MaxFaults /\ faults' = faults + 1 /\ Mishap
  /\ lost' = [lost EXCEPT ![k] = @ \cup LinesOf(Head(queue[k]))]
  /\ queue' = [queue EXCEPT ![k] = Tail(@)]
  /\ flushing' = [flushing EXCEPT ![k] = IF @ > 0 THEN @ - 1 ELSE 0]
  /\ UNCHANGED <<chainVars, process, sync, lastProcessedBlock, store, diskVars,
                 scanFrom, crashes>>

(* loadRecent.                                                             *)
TailOf(f) ==
  {f[i] : i \in {j \in DOMAIN f : j > Len(f) - Lesser(retentionMax, TailLines)}} \cap Ops

----------------------------------------------------------------------------
(* OnChainIndexer.                                                         *)

(* The monitor starts: records are reloaded, EntryPoint's first, and the   *)
(* checkpoint is read.                                                     *)
Boot ==
  /\ process = "down"
  /\ process' = "up"
  /\ store' \in Ingested(<<>>, TailOf(file["entry"]), TailOf(file["post"]))
  /\ lastProcessedBlock' = checkpoint
  /\ UNCHANGED <<chainVars, sync, queue, flushing, diskVars, historyVars>>

(* The deployments cannot be read, or the node is not there yet: nothing   *)
(* is reloaded, and the monitor serves without an indexer until it ends.   *)
BootFails ==
  /\ process = "down"
  /\ faults < MaxFaults /\ faults' = faults + 1 /\ Mishap
  /\ process' = "unindexed"
  /\ UNCHANGED <<chainVars, sync, lastProcessedBlock, store, queue, flushing, diskVars,
                 lost, scanFrom, crashes>>

(* The timer, or the first sync of start(); the block number is requested. *)
SyncStarts(s) ==
  /\ process = "up" /\ sync[s].at = "idle"
  /\ sync' = [sync EXCEPT ![s] = [at |-> "head", from |-> 0, latest |-> head]]
  /\ UNCHANGED <<chainVars, process, lastProcessedBlock, store, queue, flushing,
                 diskVars, historyVars>>

Lookback(latest) == Greater(0, latest - lookbackBlocks)

(* Variant: the last block is not read.                                    *)
BehindStrictly(from, latest) == from < latest
Behind(from, latest) == from <= latest

(* What the last block was when the node answered.                         *)
HeadRead(s) ==
  /\ sync[s].at = "head"
  /\ \E latest \in sync[s].latest .. head :
       LET from == IF lastProcessedBlock = 0 THEN Lookback(latest) ELSE lastProcessedBlock + 1
       IN /\ sync' = [sync EXCEPT ![s] =
                       IF Behind(from, latest) THEN [at |-> "range", from |-> from, latest |-> latest]
                                         ELSE Idle]
          /\ scanFrom' = IF lastProcessedBlock = 0 THEN Greater(scanFrom, from) ELSE scanFrom
  /\ UNCHANGED <<chainVars, process, lastProcessedBlock, store, queue, flushing, diskVars,
                 lost, faults, crashes>>

To(s) == Lesser(sync[s].latest, sync[s].from + maxBlockRange - 1)
Logs(s, k) == {h \in Emitters(k) : sync[s].from <= blockOf[h] /\ blockOf[h] <= To(s)}

(* The records of some operations in the order of their blocks.            *)
Listings(S) ==
  {q \in [1 .. Cardinality(S) -> S] :
     \A i, j \in DOMAIN q : i < j => q[i] # q[j] /\ blockOf[q[i]] <= blockOf[q[j]]}

Appends(q, batch) == IF batch = <<>> THEN q ELSE Append(q, batch)

Lines(k) == Len(file[k]) + Cardinality(Queued(k))

(* The logs of the range have been requested, and the block and the        *)
(* transaction of each; a log for which that fails is left out.  The rest  *)
(* goes into the store and the queues.                                     *)
SyncRange(s) ==
  /\ sync[s].at = "range"
  /\ \E E \in SUBSET Logs(s, "entry"), P \in SUBSET Logs(s, "post") :
       LET unread == [k \in Kinds |-> Logs(s, k) \ (IF k = "entry" THEN E ELSE P)]
       IN /\ faults' = faults + Cardinality(unread["entry"]) + Cardinality(unread["post"])
          /\ faults' <= MaxFaults /\ faults' + crashes <= MaxMishaps
          /\ Lines("entry") + Cardinality(E) <= MaxLines
          /\ Lines("post") + Cardinality(P) <= MaxLines
          /\ store' \in Ingested(store, E, P)
          /\ \E e \in Listings(E), p \in Listings(P) :
               queue' = [k \in Kinds |-> Appends(queue[k], IF k = "entry" THEN e ELSE p)]
          /\ lost' = [k \in Kinds |-> lost[k] \cup unread[k]]
  /\ sync' = [sync EXCEPT ![s].at = "traffic"]
  /\ UNCHANGED <<chainVars, process, lastProcessedBlock, flushing, diskVars, scanFrom, crashes>>

(* The wallets of the range's blocks have been looked up, whatever failed  *)
(* of it; on to the next range.                                            *)
(* Variant: the next range begins one block late.                          *)
NextRangeLate(s) == [sync[s] EXCEPT !.at = "range", !.from = To(s) + 2]
NextRange(s) == [sync[s] EXCEPT !.at = "range", !.from = To(s) + 1]
Advance(s) ==
  /\ sync[s].at = "traffic"
  /\ lastProcessedBlock' = To(s)
  /\ checkpoint' = To(s)
  /\ sync' = [sync EXCEPT ![s] = IF Behind(To(s) + 1, sync[s].latest) THEN NextRange(s) ELSE Idle]
  /\ UNCHANGED <<chainVars, process, store, queue, flushing, file, historyVars>>

(* The checkpoint cannot be written, the one there was being gone or not:  *)
(* the sync ends.                                                          *)
AdvanceUnsaved(s) ==
  /\ sync[s].at = "traffic"
  /\ faults < MaxFaults /\ faults' = faults + 1 /\ Mishap
  /\ lastProcessedBlock' = To(s)
  /\ checkpoint' \in {checkpoint, 0}
  /\ sync' = [sync EXCEPT ![s] = Idle]
  /\ UNCHANGED <<chainVars, process, store, queue, flushing, file, lost, scanFrom, crashes>>

(* A request for the block number or for logs fails.                       *)
SyncFails(s) ==
  /\ sync[s].at \in {"head", "range"}
  /\ faults < MaxFaults /\ faults' = faults + 1 /\ Mishap
  /\ sync' = [sync EXCEPT ![s] = Idle]
  /\ UNCHANGED <<chainVars, process, lastProcessedBlock, store, queue, flushing, diskVars,
                 lost, scanFrom, crashes>>

----------------------------------------------------------------------------
(* The end of the process.                                                 *)

(* stop(): no further sync begins; it waits for the appends there are.     *)
Stop ==
  /\ process = "up"
  /\ process' = "stopping"
  /\ flushing' = [k \in Kinds |-> Len(queue[k])]
  /\ UNCHANGED <<chainVars, sync, lastProcessedBlock, store, queue, diskVars, historyVars>>

(* What the first append of the queue may leave behind: some whole lines   *)
(* and, of the next one, a part.                                           *)
Whole(f, batch, n) == IF n = 0 THEN f ELSE Appended(f, SubSeq(batch, 1, n))
Torn(f) == IF EndsTorn(f) THEN f ELSE Append(f, "torn")
Remains(f, q) ==
  IF q = <<>> THEN {f}
  ELSE {Whole(f, q[1], n) : n \in 0 .. Len(q[1])}
         \cup {Torn(Whole(f, q[1], n)) : n \in 0 .. Len(q[1]) - 1}

ProcessEnds ==
  /\ crashes < MaxCrashes /\ crashes' = crashes + 1 /\ Mishap
  /\ process' = "down"
  /\ sync' = [s \in Syncs |-> Idle]
  /\ lastProcessedBlock' = 0
  /\ store' = <<>>
  /\ \E e \in Remains(file["entry"], queue["entry"]), p \in Remains(file["post"], queue["post"]) :
       file' = [k \in Kinds |-> IF k = "entry" THEN e ELSE p]
  /\ lost' = [k \in Kinds |-> lost[k] \cup (Queued(k) \ LinesOf(file'[k]))]
  /\ queue' = [k \in Kinds |-> <<>>]
  /\ flushing' = [k \in Kinds |-> 0]
  /\ UNCHANGED <<chainVars, scanFrom, faults>>

Crash == process # "down" /\ ProcessEnds /\ UNCHANGED checkpoint

(* ... while the checkpoint is written: it is left unreadable.             *)
CrashInCheckpoint ==
  /\ \E s \in Syncs : sync[s].at = "traffic"
  /\ ProcessEnds
  /\ checkpoint' = 0

(* stop() goes on; without an indexer there is nothing to wait for.        *)
Exit ==
  /\ process \in {"stopping", "unindexed"}
  /\ \A k \in Kinds : flushing[k] = 0
  /\ ProcessEnds
  /\ UNCHANGED checkpoint

----------------------------------------------------------------------------
Init ==
  /\ head = 1 /\ blockOf = [h \in Ops |-> 0]
  /\ process = "down"
  /\ sync = [s \in Syncs |-> Idle]
  /\ lastProcessedBlock = 0 /\ checkpoint = 0
  /\ store = <<>>
  /\ file = [k \in Kinds |-> <<>>] /\ queue = [k \in Kinds |-> <<>>]
  /\ flushing = [k \in Kinds |-> 0]
  /\ lost = [k \in Kinds |-> {}]
  /\ scanFrom = 0 /\ faults = 0 /\ crashes = 0

SyncProceeds(s) == HeadRead(s) \/ SyncRange(s) \/ Advance(s)

Next ==
  \/ NewBlock
  \/ Boot \/ BootFails \/ Stop \/ Crash \/ CrashInCheckpoint \/ Exit
  \/ \E s \in Syncs : SyncStarts(s) \/ SyncProceeds(s) \/ AdvanceUnsaved(s) \/ SyncFails(s)
  \/ \E k \in Kinds : Write(k) \/ WriteFails(k)

Spec == Init /\ [][Next]_vars

(* Requests settle, the timer repeats, the file system answers, and the    *)
(* monitor is started again.                                               *)
Fairness ==
  /\ WF_vars(Boot)
  /\ \A s \in Syncs : WF_vars(SyncStarts(s)) /\ WF_vars(SyncProceeds(s))
  /\ \A k \in Kinds : WF_vars(Write(k))

FairSpec == Spec /\ Fairness

----------------------------------------------------------------------------
(* Properties.                                                             *)

(* No block is skipped: what happened up to where the indexer or its       *)
(* checkpoint stands, from the block of the last start without checkpoint, *)
(* is on disk, on its way there, or lost by an unreadable log, a failed    *)
(* write or the end of the process.  Overlapping syncs may set the position*)
(* back, and restarts may, but never past what was not read.               *)
Accounted(k) == Filed(k) \cup Queued(k) \cup lost[k]
ReadUpTo(b) ==
  \A k \in Kinds : \A h \in Emitters(k) :
    scanFrom <= blockOf[h] /\ blockOf[h] <= b => h \in Accounted(k)
NoBlockSkipped == ReadUpTo(Greater(lastProcessedBlock, checkpoint))

(* The store is what the process has read and reloaded, newest first: of   *)
(* what it queued or filed, or, once it was restarted, what the last lines *)
(* of a file hold, an operation is only missing if the store is full of    *)
(* ones that are not older, or the indexer has failed to start.            *)
FullSince(b) ==
  Cardinality(DOMAIN store) = retentionMax /\ \A g \in DOMAIN store : blockOf[g] >= b
Remembered(k) == Queued(k) \cup (IF crashes = 0 THEN Filed(k) ELSE TailOf(file[k]))
StoreMatchesFiles ==
  process \in {"up", "stopping"} =>
    \A k \in Kinds : \A h \in Remembered(k) \ DOMAIN store : FullSince(blockOf[h])

(* A record without EntryPoint event is one whose event was lost, although *)
(* the files are written one apart from the other and syncs overlap; but   *)
(* for two cases: it is among the oldest of a full store, from which it    *)
(* has been evicted between its two events, or a restart has reloaded a    *)
(* file of more lines than are read.                                       *)
Uncut == crashes = 0 \/ Len(file["entry"]) <= Lesser(retentionMax, TailLines)
PartialMeansLost ==
  Uncut =>
    \A h \in DOMAIN store : ~store[h].entry => h \in lost["entry"] \/ FullSince(blockOf[h])

(* An executed operation ends up in its files: requests and writes that    *)
(* fail are made up for by the next sync unless they lose its event; only  *)
(* a failed start is not.                                                  *)
EveryOpIsFiled ==
  \A h \in Ops :
    blockOf[h] # 0 ~> \/ h \in Filed("entry") \cup lost["entry"]
                      \/ blockOf[h] < scanFrom \/ process \in {"stopping", "unindexed"}

----------------------------------------------------------------------------
(* A claim of the documentation that the code does not keep (see           *)
(* README.md).                                                             *)

(* server/PLAN.md:156: on start "recent events are reloaded from disk".    *)
IndexedIsOnDisk ==
  process = "down" =>
    \A h \in Emitters("entry") :
      scanFrom <= blockOf[h] /\ blockOf[h] <= checkpoint => h \in Filed("entry")
============================================================================
