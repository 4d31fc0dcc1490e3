------------------------- MODULE BundlerSupervisor -------------------------
(***************************************************************************)
(* The monitor's registry of bundlers: the routes that register, spawn,    *)
(* stop and unregister them, the health checks, and the processes of the   *)
(* operating system that were spawned.                                     *)
(*                                                                         *)
(* The monitor is single threaded, so an action is the code from one await *)
(* to the next: a route runs beside the health checks only where one of    *)
(* them awaits, a port test or an answer of a bundler.                     *)
(***************************************************************************)
EXTENDS Integers, FiniteSets, Sequences, SequencesExt, TLC

CONSTANTS
  Ids,       \* instance ids, in the order of the registry's list
  Ports,     \* bundlerPortRange, from start to end
  Foreign,   \* ports that other programs hold
  Loops      \* runs of _runHealthChecks at one time (bounds the model)

ASSUME SupervisorAssumption ==
  /\ Ids \subseteq Nat /\ IsFiniteSet(Ids)
  /\ Ports \subseteq Nat \ {0} /\ IsFiniteSet(Ports) /\ Foreign \subseteq Ports
  /\ Loops \subseteq Nat /\ IsFiniteSet(Loops)

VARIABLES
  status,     \* registry: the status of an instance, "none" if it has none
  port,       \* port an instance was given, or 0 (registered, not spawned)
  spawning,   \* the port a spawn request tests, or 0, and the answer to come
  proc,       \* the process of an instance
  signalled,  \* instances whose process has been sent SIGTERM
  check,      \* each run of _runHealthChecks: what it has left, what it awaits
  phase,      \* of the monitor: "up", or "stopping" from stop() to exit()
  together,   \* history: pairs of spawn requests that overlapped
  late        \* history: spawn requests not over when stop() had killed

registryVars == <<status, port, spawning>>
historyVars == <<together, late>>
vars == <<registryVars, proc, signalled, check, phase, historyVars>>

Status == {"none", "UP", "DOWN", "STOPPED"}
Process == {"none", "starting", "listening", "dead", "reaped"}

Registered == {i \in Ids : status[i] # "none"}
Fresh == {i \in Ids : status[i] = "none" /\ proc[i] = "none" /\ spawning[i].port = 0}
Testing == {i \in Ids : spawning[i].port # 0}
Alive(i) == proc[i] \in {"starting", "listening"}
Listeners(p) == {i \in Ids : proc[i] = "listening" /\ port[i] = p}
Occupied(p) == p \in Foreign \/ Listeners(p) # {}

NoSpawn == [port |-> 0, free |-> FALSE]
NoCheck == [todo |-> <<>>, answer |-> "DOWN"]

TypeOK ==
  /\ status \in [Ids -> Status]
  /\ port \in [Ids -> Ports \cup {0}]
  /\ spawning \in [Ids -> [port : Ports \cup {0}, free : BOOLEAN]]
  /\ proc \in [Ids -> Process]
  /\ signalled \subseteq Ids
  /\ \A c \in Loops : check[c].todo \in Seq(Ids) /\ check[c].answer \in {"UP", "DOWN"}
  /\ phase \in {"up", "stopping"}
  /\ late \subseteq Ids

----------------------------------------------------------------------------
(* The routes.                                                             *)

(* An endpoint run by somebody else is listed too; it has no port here.    *)
Register(i) ==
  /\ i \in Fresh
  /\ status' = [status EXCEPT ![i] = "DOWN"]
  /\ UNCHANGED <<port, spawning, proc, signalled, check, phase, historyVars>>

(* Variant: only the operating system is asked for a free port.            *)
UnlistedPortsByTest(p) == {q \in Ports : q > p}

(* The ports after p that no registered instance has.                      *)
UnlistedPorts(p) == {q \in Ports : q > p /\ \A i \in Registered : port[i] # q}

(* The next such port is tested by listening on it, which is awaited.      *)
Test(i, p) ==
  \E q \in UnlistedPorts(p) :
    /\ \A r \in UnlistedPorts(p) : q <= r
    /\ spawning' = [spawning EXCEPT ![i] = [port |-> q, free |-> ~Occupied(q)]]

Spawn(i) ==
  /\ i \in Fresh
  /\ Test(i, 0)
  /\ together' = together \cup {{i, j} : j \in Testing}
  /\ late' = IF phase = "up" THEN late ELSE late \cup {i}
  /\ UNCHANGED <<status, port, proc, signalled, check, phase>>

(* The port is free: the process is started and registered at once.  This  *)
(* also happens when the monitor has been told to stop meanwhile.          *)
Started(i) ==
  /\ spawning[i].port # 0 /\ spawning[i].free
  /\ port' = [port EXCEPT ![i] = spawning[i].port]
  /\ proc' = [proc EXCEPT ![i] = "starting"]
  /\ status' = [status EXCEPT ![i] = "DOWN"]
  /\ spawning' = [spawning EXCEPT ![i] = NoSpawn]
  /\ UNCHANGED <<signalled, check, phase, historyVars>>

(* It is not: the next one is tested, if there is one.                     *)
TestNext(i) ==
  /\ spawning[i].port # 0 /\ ~spawning[i].free
  /\ IF UnlistedPorts(spawning[i].port) = {}
     THEN spawning' = [spawning EXCEPT ![i] = NoSpawn]
     ELSE Test(i, spawning[i].port)
  /\ UNCHANGED <<status, port, proc, signalled, check, phase, historyVars>>

(* Only a process the monitor has spawned can be stopped.                  *)
StopBundler(i) ==
  /\ i \in Registered /\ proc[i] # "none"
  /\ signalled' = signalled \cup {i}
  /\ status' = [status EXCEPT ![i] = "STOPPED"]
  /\ UNCHANGED <<port, spawning, proc, check, phase, historyVars>>

(* Variant: only what answers is killed.                                   *)
ToKillUp == {i \in Registered : proc[i] # "none" /\ status[i] = "UP"}

(* A process is not sent a signal again once it is listed as STOPPED.      *)
ToKill == {i \in Registered : proc[i] # "none" /\ status[i] # "STOPPED"}

Unregister(i) ==
  /\ i \in Registered
  /\ signalled' = signalled \cup (ToKill \cap {i})
  /\ status' = [status EXCEPT ![i] = "none"]
  /\ UNCHANGED <<port, spawning, proc, check, phase, historyVars>>

(* stop() of the monitor: no more timer, all processes are told to end.    *)
(* Requests are taken, until the indexer and the log writer are done too.  *)
Shutdown ==
  /\ phase = "up"
  /\ phase' = "stopping"
  /\ signalled' = signalled \cup ToKill
  /\ late' = Testing
  /\ UNCHANGED <<registryVars, proc, check, together>>

----------------------------------------------------------------------------
(* Health checks.                                                          *)

(* web3_clientVersion: what listens on the port now answers; a program     *)
(* that is no bundler, or nobody, does not.  Others answer as they like.   *)
Answers(i) ==
  IF proc[i] = "none" THEN {"UP", "DOWN"}
  ELSE IF Listeners(port[i]) # {} THEN {"UP"} ELSE {"DOWN"}

(* Whether a status is one the loop does not pass over.                    *)
Checked(s) == s \notin {"STOPPED", "none"}

(* From the instances that are left, the next one is asked; with nothing   *)
(* left to ask the run is over.                                            *)
AskNext(c, left, st) ==
  LET asked == {k \in DOMAIN left : Checked(st[left[k]])}
  IN  IF asked = {}
      THEN check' = [check EXCEPT ![c] = NoCheck]
      ELSE LET rest == SubSeq(left, Min(asked), Len(left))
           IN  \E a \in Answers(Head(rest)) :
                 check' = [check EXCEPT ![c] = [todo |-> rest, answer |-> a]]

(* A run goes through the list as it was when it began.  The timer starts  *)
(* another one although one is not over.                                   *)
HealthTimer(c) ==
  /\ phase = "up" /\ check[c].todo = <<>>
  /\ \A d \in Loops : check[d].todo = <<>> => c <= d
  /\ AskNext(c, SetToSortSeq(Registered, LAMBDA i, j : i < j), status)
  /\ UNCHANGED <<registryVars, proc, signalled, phase, historyVars>>

(* Variant: an error does not change the status.                           *)
WithAnswerUp(i, answer) ==
  IF i \in Registered /\ answer = "UP" THEN [status EXCEPT ![i] = "UP"] ELSE status

(* Variant: what is DOWN stays so.                                         *)
WithAnswerDown(i, answer) ==
  IF i \in Registered /\ answer = "DOWN" THEN [status EXCEPT ![i] = "DOWN"] ELSE status

(* updateStatus ignores an id that is not registered any more.             *)
WithAnswer(i, answer) ==
  IF i \in Registered THEN [status EXCEPT ![i] = answer] ELSE status

(* The answer is there.  The status is not read again: it may have become  *)
(* STOPPED while the answer was awaited.                                   *)
Answered(c) ==
  /\ check[c].todo # <<>>
  /\ status' = WithAnswer(Head(check[c].todo), check[c].answer)
  /\ AskNext(c, Tail(check[c].todo), status')
  /\ UNCHANGED <<port, spawning, proc, signalled, phase, historyVars>>

----------------------------------------------------------------------------
(* The processes.                                                          *)

(* A bundler listens when its own start is over, and ends if it cannot.    *)
Listen(i) ==
  /\ proc[i] = "starting"
  /\ proc' = [proc EXCEPT ![i] = IF Occupied(port[i]) THEN "dead" ELSE "listening"]
  /\ UNCHANGED <<registryVars, signalled, check, phase, historyVars>>

(* By a signal, for which it has no handler, or by itself.                 *)
Die(i) ==
  /\ Alive(i)
  /\ proc' = [proc EXCEPT ![i] = "dead"]
  /\ UNCHANGED <<registryVars, signalled, check, phase, historyVars>>

(* The monitor is told that a process of its own has ended.                *)
Exit(i) ==
  /\ proc[i] = "dead"
  /\ proc' = [proc EXCEPT ![i] = "reaped"]
  /\ status' = IF i \in Registered THEN [status EXCEPT ![i] = "STOPPED"] ELSE status
  /\ UNCHANGED <<port, spawning, signalled, check, phase, historyVars>>

----------------------------------------------------------------------------
Init ==
  /\ status = [i \in Ids |-> "none"]
  /\ port = [i \in Ids |-> 0]
  /\ spawning = [i \in Ids |-> NoSpawn]
  /\ proc = [i \in Ids |-> "none"]
  /\ signalled = {}
  /\ check = [c \in Loops |-> NoCheck]
  /\ phase = "up"
  /\ together = {}
  /\ late = {}

Route(i) == Register(i) \/ Spawn(i) \/ StopBundler(i) \/ Unregister(i)
Resume(i) == Started(i) \/ TestNext(i)
Check(c) == HealthTimer(c) \/ Answered(c)

Next ==
  \/ \E i \in Ids : Route(i) \/ Resume(i) \/ Listen(i) \/ Die(i) \/ Exit(i)
  \/ \E c \in Loops : Check(c)
  \/ Shutdown

Spec == Init /\ [][Next]_vars

(* Tests of ports and requests end (fetch has a timeout), the health timer *)
(* fires again and again, and a process does what it has been told.  No    *)
(* admin need ever call a route.                                           *)
Fairness ==
  /\ \A i \in Ids : WF_vars(Resume(i)) /\ WF_vars(Exit(i)) /\ WF_vars(Listen(i))
  /\ \A i \in Ids : WF_vars(i \in signalled /\ Die(i))
  /\ \A c \in Loops : WF_vars(Check(c))

FairSpec == Spec /\ Fairness

----------------------------------------------------------------------------
(* Properties.                                                             *)

(* No process is left running that nobody can stop any more: while the     *)
(* monitor serves, every process it has not told to end is registered, and *)
(* when it has shut down, only one whose spawn request was not over by     *)
(* then can have been started too late to be told.                         *)
NoOrphan ==
  \A i \in Ids : Alive(i) /\ i \notin signalled =>
    IF phase = "up" THEN i \in Registered ELSE i \in late

(* Two registered bundlers have the same port only if the one was spawned  *)
(* while the port of the other was being tested: a bundler that is still   *)
(* starting, or has ended, keeps its port to itself.                       *)
PortsDiffer ==
  \A i, j \in Registered : i # j /\ port[i] # 0 /\ port[i] = port[j] => {i, j} \in together

(* A bundler that serves is offered: as long as it runs, nobody stops it   *)
(* and it is registered, the checks find it UP in the end, whatever they   *)
(* read while it was starting.                                             *)
Serves(i) == phase = "up" /\ i \in Registered /\ proc[i] = "listening" /\ i \notin signalled
LiveIsOffered == \A i \in Ids : Serves(i) ~> (status[i] = "UP" \/ ~Serves(i))

(* A bundler that has ended is not offered for ever: although a late       *)
(* answer may set it to UP after its end was noticed, the next checks do   *)
(* not, unless another bundler answers on the same port.                   *)
OfferedDead(i) ==
  /\ phase = "up" /\ status[i] = "UP"
  /\ proc[i] \in {"dead", "reaped"} /\ Listeners(port[i]) = {}
DeadNotOffered == \A i \in Ids : OfferedDead(i) ~> ~OfferedDead(i)
============================================================================
