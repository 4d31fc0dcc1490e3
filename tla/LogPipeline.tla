---------------------------- MODULE LogPipeline ----------------------------
(* The way of a log event from a service to the monitor's memory and disk. *)
(* A service posts each event once and forgets it; a bundler the monitor   *)
(* spawned also prints it, and the monitor reads what it prints.  The      *)
(* monitor keeps the newest events in memory, appends them to one file a   *)
(* day through a chain of writes, and reads the files' tails when it       *)
(* starts.  Writes fail or stop half-way, the process dies or is stopped,  *)
(* and requests are lost.                                                  *)
EXTENDS SequencesExt, Integers, FiniteSets

CONSTANTS
  Body,       \* the posts: for each, the sequence of events in its body
  Invalid,    \* an element of a body that is no LogEvent
  Raw,        \* plain lines a spawned bundler prints
  Printed,    \* posted events that a spawned bundler prints as well
  Day,        \* the day of each event's own timestamp: 1 .. LastDay
  LastDay,
  logRetentionMax,
  TailLines,  \* lines in the part of a file that is reloaded (512 kB)
  MaxFaults,  \* bound: failing writes
  MaxStops    \* bound: crashes and stops of the monitor

Posts == DOMAIN Body
Days == 1 .. LastDay
Nobody == "nobody"    \* the write of an event that no request waits for
Torn == "torn"        \* a line of a file that is no event any more

VARIABLES
  process,   \* "up", "flushing" and "closing" while it stops, "down"
  logs,      \* LogStore.logs
  file,      \* the lines of each day's file
  open,      \* days whose file does not end with a newline
  queue,     \* NdjsonLogWriter.queue: batches still to be written
  flushLeft, \* batches that stop() waits for
  posts,     \* what became of each post
  unread,    \* lines in the pipe of the spawned bundler
  tail,      \* somebody holds /api/logs/stream open
  ingested,  \* history: every event recorded, in order
  damaged,   \* history: events whose write failed or was glued to a torn line
  owed,      \* history: events still to be written when stop() was called
  faults, stops

monitorVars == <<process, logs, queue, flushLeft, tail>>
diskVars == <<file, open>>
historyVars == <<ingested, damaged, owed>>
bounds == <<faults, stops>>
vars == <<process, logs, file, open, queue, flushLeft, posts, unread, tail,
          ingested, damaged, owed, faults, stops>>

(* The elements at some places of a sequence, in their order.              *)
Place(I, i) == Cardinality({j \in I : j <= i})
At(s, I) == [k \in 1 .. Cardinality(I) |-> s[CHOOSE i \in I : Place(I, i) = k]]

Valid(events) == At(events, {i \in DOMAIN events : events[i] # Invalid})
Newest(s, n) == SubSeq(s, Len(s) - (IF n < Len(s) THEN n ELSE Len(s)) + 1, Len(s))
Filed == (UNION {ToSet(file[d]) : d \in Days}) \ {Torn}
Event == ((UNION {ToSet(Body[p]) : p \in Posts}) \cup Raw) \ {Invalid}

ASSUME LogAssumption ==
  /\ \A p \in Posts : Body[p] \in Seq(Event \cup {Invalid})
  /\ Invalid \notin Raw /\ Torn \notin Event /\ Nobody \notin Posts
  /\ LastDay \in Nat /\ Day \in [Event -> Days]
  /\ logRetentionMax \in Nat /\ TailLines \in Nat /\ MaxFaults \in Nat /\ MaxStops \in Nat

Queued ==
  UNION {UNION {ToSet(queue[i].tasks[n].lines) : n \in DOMAIN queue[i].tasks} : i \in DOMAIN queue}

TypeOK ==
  /\ process \in {"up", "flushing", "closing", "down"}
  /\ logs \in Seq(Event) /\ Len(logs) <= logRetentionMax
  /\ \A d \in Days : file[d] \in Seq(Event \cup {Torn})
  /\ open \subseteq Days
  /\ \A i \in DOMAIN queue : queue[i].post \in Posts \cup {Nobody} /\ queue[i].tasks # <<>>
  /\ flushLeft \in 0 .. Len(queue)
  /\ posts \in [Posts -> {"idle", "waiting", "answered", "refused", "lost"}]
  /\ unread \subseteq Printed \cup Raw
  /\ tail \in BOOLEAN

----------------------------------------------------------------------------
(* The writer. *)

(* One append per file, in the order in which the days first appear.       *)
Firsts(events) ==
  {i \in DOMAIN events : \A j \in 1 .. i - 1 : Day[events[j]] # Day[events[i]]}
OfDay(events, d) == {i \in DOMAIN events : Day[events[i]] = d}
Tasks(events) ==
  LET first == At(events, Firsts(events))
  IN [k \in DOMAIN first |->
        [day |-> Day[first[k]], lines |-> At(events, OfDay(events, Day[first[k]]))]]

(* What an append of lines leaves in the file of day d: after a torn line  *)
(* the first of them becomes part of it.                                   *)
Glued(d, lines) == IF d \in open /\ lines # <<>> THEN {Head(lines)} ELSE {}
AppendTo(d, lines) ==
  file[d] \o (IF d \in open /\ lines # <<>> THEN Tail(lines) ELSE lines)

(* The first k lines of the append reach the file, and perhaps a piece of  *)
(* the next one.                                                           *)
Prefix(t, k, torn) ==
  /\ torn => k < Len(t.lines)
  /\ file' = [file EXCEPT ![t.day] =
       LET whole == AppendTo(t.day, SubSeq(t.lines, 1, k))
       IN IF torn /\ (k > 0 \/ t.day \notin open) THEN Append(whole, Torn) ELSE whole]
  /\ open' = IF torn THEN open \cup {t.day} ELSE IF k > 0 THEN open \ {t.day} ELSE open

TaskAt(i) == Head(queue[i].tasks)
RestOf(i) == Tail(queue[i].tasks)

(* The batch is over: whoever awaits it goes on, whatever happened to it.  *)
BatchOver(i) ==
  /\ queue' = RemoveAt(queue, i)
  /\ flushLeft' = IF i <= flushLeft THEN flushLeft - 1 ELSE flushLeft
  /\ posts' = IF queue[i].post \in Posts THEN [posts EXCEPT ![queue[i].post] = "answered"] ELSE posts

(* The writes are a chain: only the first batch of the queue is under way. *)
UnchainedUnderWay == DOMAIN queue
UnderWay == IF queue = <<>> THEN {} ELSE {1}

Write ==
  \E i \in UnderWay :
    /\ Prefix(TaskAt(i), Len(TaskAt(i).lines), FALSE)
    /\ damaged' = damaged \cup Glued(TaskAt(i).day, TaskAt(i).lines)
    /\ IF RestOf(i) = <<>> THEN BatchOver(i)
       ELSE /\ queue' = [queue EXCEPT ![i].tasks = RestOf(i)]
            /\ UNCHANGED <<flushLeft, posts>>
    /\ UNCHANGED <<process, logs, unread, tail, ingested, owed, bounds>>

(* Without the catch the chain stays rejected and nobody is answered.      *)
UncaughtWriteFails ==
  \E i \in UnderWay, k \in 0 .. 1 :
    /\ faults < MaxFaults /\ faults' = faults + 1
    /\ k < Len(TaskAt(i).lines) /\ Prefix(TaskAt(i), k, FALSE)
    /\ damaged' = damaged \cup Queued
    /\ queue' = <<>>
    /\ flushLeft' = 0
    /\ UNCHANGED <<process, logs, posts, unread, tail, ingested, owed, stops>>

(* appendFile rejects: the rest of the batch is dropped and the error is   *)
(* swallowed.                                                              *)
WriteFails ==
  \E i \in UnderWay, torn \in BOOLEAN : \E k \in 0 .. Len(TaskAt(i).lines) - 1 :
    /\ faults < MaxFaults /\ faults' = faults + 1
    /\ Prefix(TaskAt(i), k, torn)
    /\ damaged' = damaged \cup Glued(TaskAt(i).day, TaskAt(i).lines)
         \cup ToSet(SubSeq(TaskAt(i).lines, k + 1, Len(TaskAt(i).lines)))
         \cup UNION {ToSet(RestOf(i)[n].lines) : n \in DOMAIN RestOf(i)}
    /\ BatchOver(i)
    /\ UNCHANGED <<process, logs, unread, tail, ingested, owed, stops>>

----------------------------------------------------------------------------
(* Recording. *)

Record(events, post) ==
  /\ logs' = Newest(logs \o events, logRetentionMax)
  /\ queue' = Append(queue, [tasks |-> Tasks(events), post |-> post])
  /\ ingested' = ingested \o events

UnawaitedIngest(p) ==
  /\ process \in {"up", "flushing"} /\ posts[p] = "idle"
  /\ IF Valid(Body[p]) = <<>>
     THEN posts' = [posts EXCEPT ![p] = "refused"] /\ UNCHANGED <<logs, queue, ingested>>
     ELSE posts' = [posts EXCEPT ![p] = "answered"] /\ Record(Valid(Body[p]), Nobody)
  /\ UNCHANGED <<process, diskVars, flushLeft, unread, tail, damaged, owed, bounds>>

(* POST /api/logs/ingest: a body without a single event is refused, the    *)
(* answer to any other waits for the write.                                *)
Ingest(p) ==
  /\ process \in {"up", "flushing"} /\ posts[p] = "idle"
  /\ IF Valid(Body[p]) = <<>>
     THEN posts' = [posts EXCEPT ![p] = "refused"] /\ UNCHANGED <<logs, queue, ingested>>
     ELSE posts' = [posts EXCEPT ![p] = "waiting"] /\ Record(Valid(Body[p]), p)
  /\ UNCHANGED <<process, diskVars, flushLeft, unread, tail, damaged, owed, bounds>>

(* The request does not get through; the service swallows the error.       *)
PostLost(p) ==
  /\ posts[p] = "idle"
  /\ posts' = [posts EXCEPT ![p] = "lost"]
  /\ UNCHANGED <<monitorVars, diskVars, unread, historyVars, bounds>>

(* A line of the spawned bundler's output: an event that it also posts is  *)
(* skipped, anything else is recorded and not waited for.                  *)
IngestLine(e) ==
  /\ process # "down" /\ e \in unread
  /\ unread' = unread \ {e}
  /\ IF e \in Printed THEN UNCHANGED <<logs, queue, ingested>> ELSE Record(<<e>>, Nobody)
  /\ UNCHANGED <<process, diskVars, flushLeft, posts, tail, damaged, owed, bounds>>

(* GET /api/logs/stream, and the end of its connection.                    *)
Stream ==
  /\ process \in {"up", "flushing"} /\ ~tail /\ tail' = TRUE
  /\ UNCHANGED <<process, logs, queue, flushLeft, diskVars, posts, unread, historyVars, bounds>>

StreamCloses ==
  /\ tail /\ tail' = FALSE
  /\ UNCHANGED <<process, logs, queue, flushLeft, diskVars, posts, unread, historyVars, bounds>>

----------------------------------------------------------------------------
(* Starting and stopping. *)

(* The events among some lines of a file.                                  *)
Events(lines) == At(lines, {i \in DOMAIN lines : lines[i] # Torn})

(* Of a long file only the end is read, without the line it begins in.     *)
FileTail(d) == Newest(file[d], TailLines)

(* Variant: the first lines of the part that was read.                     *)
HeadPicked(d, n) ==
  LET lines == FileTail(d) IN Events(SubSeq(lines, 1, IF n < Len(lines) THEN n ELSE Len(lines)))

Picked(d, n) == Events(Newest(FileTail(d), n))

(* loadRecent: the newest file first, an older one for what is missing,    *)
(* also for what the newer one holds before its tail.                      *)
Older(d, later) == Picked(d, logRetentionMax - Len(later)) \o later
LoadRecent ==
  LET load[k \in 0 .. LastDay] == IF k = 0 THEN <<>> ELSE Older((LastDay - k) + 1, load[k - 1])
  IN load[LastDay]

Start ==
  /\ process = "down"
  /\ process' = "up"
  /\ logs' = LoadRecent
  /\ UNCHANGED <<queue, flushLeft, tail, diskVars, posts, unread, historyVars, bounds>>

(* The process ends: what is only in memory is gone, the append under way  *)
(* stops anywhere, and connections and pipes break.                        *)
End ==
  /\ process' = "down"
  /\ logs' = <<>> /\ queue' = <<>> /\ flushLeft' = 0 /\ tail' = FALSE /\ unread' = {}
  /\ posts' = [p \in Posts |-> IF posts[p] = "waiting" THEN "lost" ELSE posts[p]]
  /\ IF queue = <<>> THEN UNCHANGED <<diskVars, damaged>>
     ELSE \E k \in 0 .. Len(TaskAt(1).lines), torn \in BOOLEAN :
            /\ Prefix(TaskAt(1), k, torn)
            /\ damaged' = damaged \cup Glued(TaskAt(1).day, SubSeq(TaskAt(1).lines, 1, k))
  /\ UNCHANGED <<ingested, owed, faults>>

Crash == process # "down" /\ stops < MaxStops /\ stops' = stops + 1 /\ End

(* stop(): flush() waits for the batches queued now.                       *)
Stop ==
  /\ process = "up" /\ stops < MaxStops
  /\ process' = "flushing" /\ stops' = stops + 1
  /\ flushLeft' = Len(queue)
  /\ owed' = Queued
  /\ UNCHANGED <<logs, queue, tail, diskVars, posts, unread, ingested, damaged, faults>>

(* The server takes no more connections.                                   *)
Close ==
  /\ process = "flushing" /\ flushLeft = 0 /\ process' = "closing"
  /\ UNCHANGED <<logs, queue, flushLeft, tail, diskVars, posts, unread, historyVars, bounds>>

(* ... waits for those it has, and the command ends the process.           *)
Exit ==
  /\ process = "closing" /\ ~tail /\ (\A p \in Posts : posts[p] # "waiting")
  /\ End /\ UNCHANGED stops

----------------------------------------------------------------------------
Init ==
  /\ process = "up" /\ logs = <<>> /\ queue = <<>> /\ flushLeft = 0 /\ tail = FALSE
  /\ file = [d \in Days |-> <<>>] /\ open = {}
  /\ posts = [p \in Posts |-> "idle"]
  /\ unread = Printed \cup Raw
  /\ ingested = <<>> /\ damaged = {} /\ owed = {}
  /\ faults = 0 /\ stops = 0

Next ==
  \/ \E p \in Posts : Ingest(p) \/ PostLost(p)
  \/ \E e \in Printed \cup Raw : IngestLine(e)
  \/ Write \/ WriteFails
  \/ Stream \/ StreamCloses
  \/ Start \/ Crash \/ Stop \/ Close \/ Exit

Spec == Init /\ [][Next]_vars

(* The disk answers, and stop() goes on when what it awaits is over.       *)
FairSpec == Spec /\ WF_vars(Write \/ WriteFails) /\ WF_vars(Close) /\ WF_vars(Exit)

----------------------------------------------------------------------------
(* A service that got its answer can rely on the event: it is on disk, or  *)
(* its write is one that failed.                                           *)
AnsweredIsFiled ==
  \A p \in Posts : posts[p] = "answered" => ToSet(Valid(Body[p])) \subseteq Filed \cup damaged

(* Posts and lines that arrive while others are being written end up in    *)
(* each day's file in the order in which they were recorded.               *)
FiledInOrder ==
  \A d \in Days : \A i, j \in DOMAIN file[d] :
    i < j /\ file[d][i] # Torn /\ file[d][j] # Torn =>
      \E m, n \in DOMAIN ingested : m < n /\ ingested[m] = file[d][i] /\ ingested[n] = file[d][j]

(* After a restart the memory holds the newest events of the files' tails, *)
(* as if they were one file: all that is newest, as long as no day's file  *)
(* is longer than a tail, and unless a torn line takes the place of one.   *)
Tails == [d \in Days |-> FileTail(d)]
RestoreIsNewest ==
  [][Start =>
       LET all == FlattenSeq(Tails)
       IN Torn \notin ToSet(all) => logs' = Newest(all, logRetentionMax)]_vars

(* A stop comes to its end, unless somebody holds the log stream open.     *)
StopEnds == process \in {"flushing", "closing"} ~> (process = "down" \/ tail)
============================================================================
