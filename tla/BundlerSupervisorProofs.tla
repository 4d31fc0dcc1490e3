----------------------- MODULE BundlerSupervisorProofs -----------------------
(***************************************************************************)
(* For any instances, ports and health checks: no process is orphaned, and *)
(* bundlers that share a port were spawned at the same time.               *)
(***************************************************************************)
EXTENDS BundlerSupervisor, TLAPS

(* What the actions need of the types.                                     *)
Types ==
  /\ status \in [Ids -> Status]
  /\ port \in [Ids -> Ports \cup {0}]
  /\ spawning \in [Ids -> [port : Ports \cup {0}, free : BOOLEAN]]
  /\ proc \in [Ids -> Process]
  /\ signalled \subseteq Ids
  /\ phase \in {"up", "stopping"}
  /\ DOMAIN check = Loops
  /\ \A c \in Loops : check[c].answer \in {"UP", "DOWN"}

(* A process that is listed as STOPPED and still runs has been told to     *)
(* end, and a spawn request that is open in a shutdown is a late one.      *)
Stopped == \A i \in Ids : Alive(i) /\ status[i] = "STOPPED" => i \in signalled
LateOnes == phase = "stopping" => Testing \subseteq late

(* Requests that test ports at one time know of each other, and so do a    *)
(* request and the bundler that has got the port it tests.                 *)
Unspawned == \A i \in Ids : proc[i] = "none" => port[i] = 0
TestsMeet == \A i, j \in Testing : i # j => {i, j} \in together
TestsMissed ==
  \A i \in Testing, j \in Registered :
    i # j /\ port[j] = spawning[i].port => {i, j} \in together

IInv ==
  /\ Types
  /\ NoOrphan /\ Stopped /\ LateOnes
  /\ PortsDiffer /\ Unspawned /\ TestsMeet /\ TestsMissed

USE DEF Types, Status, Process

----------------------------------------------------------------------------
(* Facts about the parts of actions.                                       *)

LEMMA InitOK == Init => IInv
<1> SUFFICES ASSUME Init PROVE IInv
  OBVIOUS
<1>1. Types
  BY DEF Init, NoSpawn, NoCheck
<1>2. Registered = {} /\ Testing = {} /\ \A i \in Ids : ~Alive(i) /\ port[i] = 0
  BY DEF Init, NoSpawn, Registered, Testing, Alive
<1> QED
  BY <1>1, <1>2 DEF IInv, NoOrphan, Stopped, LateOnes, PortsDiffer, Unspawned, TestsMeet, TestsMissed

(* A port that is to be tested is one that no registered bundler has.      *)
LEMMA TestedPort ==
  ASSUME Types, NEW i \in Ids, NEW p, Test(i, p)
  PROVE  \E q \in Ports :
           /\ q # 0 /\ \A j \in Registered : port[j] # q
           /\ spawning' = [spawning EXCEPT ![i] = [port |-> q, free |-> ~Occupied(q)]]
<1>1. \A q \in UnlistedPorts(p) : q \in Ports /\ q # 0 /\ \A j \in Registered : port[j] # q
  BY SupervisorAssumption DEF UnlistedPorts
<1> QED
  BY <1>1 DEF Test

(* After it, the request is open, and no other has changed.                *)
LEMMA TestEffect ==
  ASSUME Types, NEW i \in Ids, NEW p, Test(i, p)
  PROVE  /\ spawning' \in [Ids -> [port : Ports \cup {0}, free : BOOLEAN]]
         /\ Testing' = Testing \cup {i}
         /\ \A j \in Ids \ {i} : spawning'[j] = spawning[j]
         /\ \A j \in Registered : port[j] # spawning'[i].port
<1>1. PICK q \in Ports :
        /\ q # 0 /\ \A j \in Registered : port[j] # q
        /\ spawning' = [spawning EXCEPT ![i] = [port |-> q, free |-> ~Occupied(q)]]
  BY TestedPort
<1>2. Occupied(q) \in BOOLEAN
  BY DEF Occupied
<1>3. /\ spawning'[i].port = q
      /\ \A j \in Ids \ {i} : spawning'[j] = spawning[j]
      /\ spawning' \in [Ids -> [port : Ports \cup {0}, free : BOOLEAN]]
  BY <1>1, <1>2
<1> QED
  BY <1>1, <1>3 DEF Testing

(* A request that is over: the others are as they were.                    *)
LEMMA OverEffect ==
  ASSUME Types, NEW i \in Ids, spawning' = [spawning EXCEPT ![i] = NoSpawn]
  PROVE  /\ spawning' \in [Ids -> [port : Ports \cup {0}, free : BOOLEAN]]
         /\ Testing' = Testing \ {i}
         /\ \A j \in Ids \ {i} : spawning'[j] = spawning[j]
  BY DEF NoSpawn, Testing

(* A step of a health check leaves the types of the checks.                *)
LEMMA AskEffect ==
  ASSUME Types, NEW c \in Loops, NEW left, NEW st, AskNext(c, left, st)
  PROVE  DOMAIN check' = Loops /\ \A d \in Loops : check'[d].answer \in {"UP", "DOWN"}
<1>1. \A i : Answers(i) \subseteq {"UP", "DOWN"}
  BY DEF Answers
<1> DEFINE asked == {k \in DOMAIN left : Checked(st[left[k]])}
           rest == SubSeq(left, Min(asked), Len(left))
<1>2. CASE asked = {}
  BY <1>2 DEF AskNext, NoCheck, Types
<1>3. CASE asked # {}
  <2> HIDE DEF rest
  <2>1. PICK a \in Answers(Head(rest)) : check' = [check EXCEPT ![c] = [todo |-> rest, answer |-> a]]
    BY <1>3 DEF AskNext, rest
  <2>2. a \in {"UP", "DOWN"}
    BY <1>1
  <2> QED
    BY <2>1, <2>2 DEF Types
<1> QED
  BY <1>2, <1>3

(* An answer changes no registration and stops nobody.                     *)
LEMMA AnswerEffect ==
  ASSUME Types, NEW i, NEW a \in {"UP", "DOWN"}, status' = WithAnswer(i, a)
  PROVE  /\ status' \in [Ids -> Status]
         /\ Registered' = Registered
         /\ \A j \in Ids : status'[j] = "STOPPED" => status[j] = "STOPPED"
<1>1. CASE i \in Registered
  <2>1. status' = [status EXCEPT ![i] = a] /\ i \in Ids /\ status[i] # "none"
    BY <1>1 DEF WithAnswer, Registered
  <2> QED
    BY <2>1 DEF Registered
<1>2. CASE i \notin Registered
  BY <1>2 DEF WithAnswer, Registered
<1> QED
  BY <1>1, <1>2

----------------------------------------------------------------------------
(* The actions.                                                            *)

LEMMA RegisterStep ==
  ASSUME IInv, NEW i \in Ids, Register(i)
  PROVE  IInv'
<1>1. /\ proc[i] = "none" /\ port[i] = 0 /\ status[i] = "none" /\ spawning[i].port = 0
      /\ status' = [status EXCEPT ![i] = "DOWN"]
      /\ UNCHANGED <<port, spawning, proc, signalled, check, phase, historyVars>>
  BY DEF Register, Fresh, IInv, Unspawned
<1>2. Types' /\ Registered' = Registered \cup {i} /\ Testing' = Testing
  BY <1>1 DEF IInv, Registered, Testing
<1>3. NoOrphan' /\ Stopped' /\ LateOnes'
  BY <1>1, <1>2 DEF IInv, NoOrphan, Stopped, LateOnes, Alive, historyVars
<1>4. PortsDiffer' /\ Unspawned' /\ TestsMeet'
  BY <1>1, <1>2 DEF IInv, PortsDiffer, Unspawned, TestsMeet, historyVars
<1>5. TestsMissed'
  <2>1. \A j \in Testing : spawning[j].port # 0
    BY DEF Testing
  <2> QED
    BY <1>1, <1>2, <2>1 DEF IInv, TestsMissed, historyVars
<1> QED
  BY <1>2, <1>3, <1>4, <1>5 DEF IInv

LEMMA SpawnStep ==
  ASSUME IInv, NEW i \in Ids, Spawn(i)
  PROVE  IInv'
<1>1. /\ proc[i] = "none" /\ i \notin Testing
      /\ together' = together \cup {{i, j} : j \in Testing}
      /\ late' = IF phase = "up" THEN late ELSE late \cup {i}
      /\ UNCHANGED <<status, port, proc, signalled, check, phase>>
      /\ Test(i, 0)
  BY DEF Spawn, Fresh, Testing
<1>2. /\ spawning' \in [Ids -> [port : Ports \cup {0}, free : BOOLEAN]]
      /\ Testing' = Testing \cup {i}
      /\ \A j \in Ids \ {i} : spawning'[j] = spawning[j]
      /\ \A j \in Registered : port[j] # spawning'[i].port
  BY <1>1, TestEffect DEF IInv
<1>3. Types' /\ Registered' = Registered
  BY <1>1, <1>2 DEF IInv, Registered
<1>4. NoOrphan' /\ Stopped' /\ LateOnes'
  BY <1>1, <1>2, <1>3 DEF IInv, NoOrphan, Stopped, LateOnes, Alive
<1>5. PortsDiffer' /\ Unspawned'
  BY <1>1, <1>3 DEF IInv, PortsDiffer, Unspawned
<1>6. TestsMeet'
  <2> SUFFICES ASSUME NEW j \in Testing', NEW k \in Testing', j # k
               PROVE  {j, k} \in together'
    BY DEF TestsMeet
  <2>1. CASE j = i
    BY <1>1, <1>2, <2>1
  <2>2. CASE k = i
    <3>1. {j, k} = {i, j}
      BY <2>2
    <3> QED
      BY <1>1, <1>2, <2>2, <3>1
  <2>3. CASE j # i /\ k # i
    BY <1>1, <1>2, <2>3 DEF IInv, TestsMeet
  <2> QED
    BY <2>1, <2>2, <2>3
<1>7. TestsMissed'
  <2>1. \A j \in Testing : spawning'[j] = spawning[j]
    BY <1>1, <1>2 DEF Testing
  <2> QED
    BY <1>1, <1>2, <1>3, <2>1 DEF IInv, TestsMissed
<1> QED
  BY <1>3, <1>4, <1>5, <1>6, <1>7 DEF IInv

LEMMA StartedStep ==
  ASSUME IInv, NEW i \in Ids, Started(i)
  PROVE  IInv'
<1>1. /\ i \in Testing
      /\ port' = [port EXCEPT ![i] = spawning[i].port]
      /\ proc' = [proc EXCEPT ![i] = "starting"]
      /\ status' = [status EXCEPT ![i] = "DOWN"]
      /\ spawning' = [spawning EXCEPT ![i] = NoSpawn]
      /\ UNCHANGED <<signalled, check, phase, together, late>>
  BY DEF Started, Testing, historyVars
<1>2. /\ spawning' \in [Ids -> [port : Ports \cup {0}, free : BOOLEAN]]
      /\ Testing' = Testing \ {i}
      /\ \A j \in Testing' : spawning'[j] = spawning[j]
  BY <1>1, OverEffect DEF IInv, Testing
<1>3. Types' /\ Registered' = Registered \cup {i}
  BY <1>1, <1>2 DEF IInv, Registered
<1>4. /\ port'[i] = spawning[i].port /\ proc'[i] = "starting" /\ status'[i] = "DOWN"
      /\ \A j \in Ids \ {i} : port'[j] = port[j] /\ proc'[j] = proc[j] /\ status'[j] = status[j]
  BY <1>1 DEF IInv
<1>5. NoOrphan'
  <2> SUFFICES ASSUME NEW j \in Ids, Alive(j)', j \notin signalled
               PROVE  IF phase = "up" THEN j \in Registered' ELSE j \in late
    BY <1>1 DEF NoOrphan
  <2>1. CASE j = i
    BY <1>1, <1>3, <2>1 DEF IInv, LateOnes
  <2>2. CASE j # i
    BY <1>3, <1>4, <2>2 DEF IInv, NoOrphan, Alive
  <2> QED
    BY <2>1, <2>2
<1>6. Stopped' /\ LateOnes' /\ Unspawned'
  BY <1>1, <1>2, <1>4 DEF IInv, Stopped, LateOnes, Unspawned, Alive
<1>7. PortsDiffer'
  <2> SUFFICES ASSUME NEW j \in Registered', NEW k \in Registered', j # k,
                      port'[j] # 0, port'[j] = port'[k]
               PROVE  {j, k} \in together
    BY <1>1 DEF PortsDiffer
  <2>0. j \in Ids /\ k \in Ids
    BY DEF Registered
  <2>1. CASE j = i
    BY <1>1, <1>3, <1>4, <2>0, <2>1 DEF IInv, TestsMissed
  <2>2. CASE k = i
    <3>1. {k, j} \in together
      BY <1>1, <1>3, <1>4, <2>0, <2>2 DEF IInv, TestsMissed
    <3>2. {j, k} = {k, j}
      OBVIOUS
    <3> QED
      BY <3>1, <3>2
  <2>3. CASE j # i /\ k # i
    BY <1>3, <1>4, <2>0, <2>3 DEF IInv, PortsDiffer
  <2> QED
    BY <2>1, <2>2, <2>3
<1>8. TestsMeet'
  BY <1>1, <1>2 DEF IInv, TestsMeet
<1>9. TestsMissed'
  <2> SUFFICES ASSUME NEW j \in Testing', NEW k \in Registered', j # k,
                      port'[k] = spawning[j].port
               PROVE  {j, k} \in together
    BY <1>1, <1>2 DEF TestsMissed
  <2>0. j \in Testing /\ j # i /\ j \in Ids /\ k \in Ids
    BY <1>2 DEF Testing, Registered
  <2>1. CASE k = i
    BY <1>1, <2>0, <2>1 DEF IInv, TestsMeet
  <2>2. CASE k # i
    BY <1>3, <1>4, <2>0, <2>2 DEF IInv, TestsMissed
  <2> QED
    BY <2>1, <2>2
<1> QED
  BY <1>3, <1>5, <1>6, <1>7, <1>8, <1>9 DEF IInv

LEMMA TestNextStep ==
  ASSUME IInv, NEW i \in Ids, TestNext(i)
  PROVE  IInv'
<1>1. i \in Testing /\ UNCHANGED <<status, port, proc, signalled, check, phase, together, late>>
  BY DEF TestNext, Testing, historyVars
<1>2. /\ spawning' \in [Ids -> [port : Ports \cup {0}, free : BOOLEAN]]
      /\ Testing' \subseteq Testing
      /\ \A j \in Testing' : spawning'[j] = spawning[j]
           \/ \A k \in Registered : port[k] # spawning'[j].port
  <2>1. CASE Test(i, spawning[i].port)
    <3>1. /\ spawning' \in [Ids -> [port : Ports \cup {0}, free : BOOLEAN]]
          /\ Testing' = Testing \cup {i}
          /\ \A j \in Ids \ {i} : spawning'[j] = spawning[j]
          /\ \A j \in Registered : port[j] # spawning'[i].port
      BY <2>1, TestEffect DEF IInv
    <3> QED
      BY <1>1, <3>1 DEF Testing
  <2>2. CASE spawning' = [spawning EXCEPT ![i] = NoSpawn]
    <3>1. /\ spawning' \in [Ids -> [port : Ports \cup {0}, free : BOOLEAN]]
          /\ Testing' = Testing \ {i}
          /\ \A j \in Ids \ {i} : spawning'[j] = spawning[j]
      BY <2>2, OverEffect DEF IInv
    <3> QED
      BY <3>1 DEF Testing
  <2> QED
    BY <2>1, <2>2 DEF TestNext
<1>3. Types' /\ Registered' = Registered
  BY <1>1, <1>2 DEF IInv, Registered
<1>4. NoOrphan' /\ Stopped' /\ LateOnes' /\ Unspawned'
  BY <1>1, <1>2, <1>3 DEF IInv, NoOrphan, Stopped, LateOnes, Unspawned, Alive
<1>5. PortsDiffer' /\ TestsMeet'
  BY <1>1, <1>2, <1>3 DEF IInv, PortsDiffer, TestsMeet
<1>6. TestsMissed'
  BY <1>1, <1>2, <1>3 DEF IInv, TestsMissed
<1> QED
  BY <1>3, <1>4, <1>5, <1>6 DEF IInv

(* Actions that register nobody, start nothing and end no spawn request.   *)
LEMMA PortsStep ==
  ASSUME IInv, UNCHANGED <<port, spawning, together>>, Registered' \subseteq Registered,
         \A i \in Ids : proc'[i] = "none" => proc[i] = "none"
  PROVE  PortsDiffer' /\ Unspawned' /\ TestsMeet' /\ TestsMissed'
<1>1. Testing' = Testing
  BY DEF Testing
<1> QED
  BY <1>1 DEF IInv, PortsDiffer, Unspawned, TestsMeet, TestsMissed

LEMMA StopBundlerStep ==
  ASSUME IInv, NEW i \in Ids, StopBundler(i)
  PROVE  IInv'
<1>1. /\ i \in Registered /\ signalled' = signalled \cup {i}
      /\ status' = [status EXCEPT ![i] = "STOPPED"]
      /\ UNCHANGED <<port, spawning, proc, check, phase, together, late>>
  BY DEF StopBundler, historyVars
<1>2. Types' /\ Registered' = Registered /\ Testing' = Testing
  BY <1>1 DEF IInv, Registered, Testing
<1>3. NoOrphan' /\ Stopped' /\ LateOnes'
  BY <1>1, <1>2 DEF IInv, NoOrphan, Stopped, LateOnes, Alive
<1> QED
  BY <1>1, <1>2, <1>3, PortsStep DEF IInv

LEMMA UnregisterStep ==
  ASSUME IInv, NEW i \in Ids, Unregister(i)
  PROVE  IInv'
<1>1. /\ i \in Registered /\ signalled' = signalled \cup (ToKill \cap {i})
      /\ status' = [status EXCEPT ![i] = "none"]
      /\ UNCHANGED <<port, spawning, proc, check, phase, together, late>>
  BY DEF Unregister, historyVars
<1>2. Types' /\ Registered' = Registered \ {i} /\ Testing' = Testing
  BY <1>1 DEF IInv, Registered, Testing
<1>3. Alive(i) => i \in signalled'
  BY <1>1 DEF IInv, Stopped, ToKill, Alive
<1>4. NoOrphan' /\ Stopped' /\ LateOnes'
  BY <1>1, <1>2, <1>3 DEF IInv, NoOrphan, Stopped, LateOnes, Alive
<1> QED
  BY <1>1, <1>2, <1>4, PortsStep DEF IInv

LEMMA ShutdownStep ==
  ASSUME IInv, Shutdown
  PROVE  IInv'
<1>1. /\ phase = "up" /\ phase' = "stopping"
      /\ signalled' = signalled \cup ToKill /\ late' = Testing
      /\ UNCHANGED <<status, port, spawning, proc, check, together>>
  BY DEF Shutdown, registryVars
<1>2. Types' /\ Registered' = Registered /\ Testing' = Testing
  BY <1>1 DEF IInv, Registered, Testing, ToKill
<1>3. \A i \in Ids : Alive(i) => i \in signalled'
  BY <1>1 DEF IInv, NoOrphan, Stopped, ToKill, Alive
<1>4. NoOrphan' /\ Stopped' /\ LateOnes'
  BY <1>1, <1>2, <1>3 DEF NoOrphan, Stopped, LateOnes, Alive
<1> QED
  BY <1>1, <1>2, <1>4, PortsStep DEF IInv

LEMMA CheckStep ==
  ASSUME IInv, NEW c \in Loops, Check(c)
  PROVE  IInv'
<1>1. UNCHANGED <<port, spawning, proc, signalled, phase, together, late>>
  BY DEF Check, HealthTimer, Answered, registryVars, historyVars
<1>2. /\ DOMAIN check' = Loops /\ \A d \in Loops : check'[d].answer \in {"UP", "DOWN"}
      /\ status' \in [Ids -> Status] /\ Registered' = Registered
      /\ \A j \in Ids : status'[j] = "STOPPED" => status[j] = "STOPPED"
  <2>1. CASE HealthTimer(c)
    <3>1. status' = status /\ Types
      BY <2>1 DEF HealthTimer, registryVars, IInv
    <3>2. DOMAIN check' = Loops /\ \A d \in Loops : check'[d].answer \in {"UP", "DOWN"}
      BY <2>1, <3>1, AskEffect DEF HealthTimer
    <3> QED
      BY <3>1, <3>2 DEF Registered
  <2>2. CASE Answered(c)
    <3>1. /\ Types /\ check[c].answer \in {"UP", "DOWN"}
          /\ status' = WithAnswer(Head(check[c].todo), check[c].answer)
          /\ AskNext(c, Tail(check[c].todo), status')
      BY <2>2 DEF Answered, IInv
    <3>2. DOMAIN check' = Loops /\ \A d \in Loops : check'[d].answer \in {"UP", "DOWN"}
      BY <3>1, AskEffect
    <3> QED
      BY <3>1, <3>2, AnswerEffect
  <2> QED
    BY <2>1, <2>2 DEF Check
<1>3. Types' /\ Testing' = Testing
  BY <1>1, <1>2 DEF IInv, Testing
<1>4. NoOrphan' /\ Stopped' /\ LateOnes'
  BY <1>1, <1>2, <1>3 DEF IInv, NoOrphan, Stopped, LateOnes, Alive
<1> QED
  BY <1>1, <1>2, <1>3, <1>4, PortsStep DEF IInv

LEMMA ProcessStep ==
  ASSUME IInv, NEW i \in Ids, Listen(i) \/ Die(i) \/ Exit(i)
  PROVE  IInv'
<1>1. /\ UNCHANGED <<port, spawning, signalled, check, phase, together, late>>
      /\ proc' \in [Ids -> Process]
      /\ \A j \in Ids : (proc'[j] = "none" => proc[j] = "none") /\ (Alive(j)' => Alive(j))
      /\ \A j \in Ids : status'[j] = status[j] \/ (status'[j] = "STOPPED" /\ ~Alive(j)')
      /\ status' \in [Ids -> Status] /\ Registered' = Registered
  <2>1. CASE Listen(i)
    BY <2>1 DEF Listen, IInv, registryVars, historyVars, Alive, Registered
  <2>2. CASE Die(i)
    BY <2>2 DEF Die, IInv, registryVars, historyVars, Alive, Registered
  <2>3. CASE Exit(i)
    BY <2>3 DEF Exit, IInv, registryVars, historyVars, Alive, Registered
  <2> QED
    BY <2>1, <2>2, <2>3
<1>2. Types' /\ Testing' = Testing
  BY <1>1 DEF IInv, Testing
<1>3. NoOrphan' /\ Stopped' /\ LateOnes'
  BY <1>1, <1>2 DEF IInv, NoOrphan, Stopped, LateOnes
<1> QED
  BY <1>1, <1>2, <1>3, PortsStep DEF IInv

----------------------------------------------------------------------------
(* The supervisor's inductive invariant holds in every run.                *)
THEOREM SupervisorInvariant == Spec => []IInv
<1>1. IInv /\ [Next]_vars => IInv'
  <2> SUFFICES ASSUME IInv, [Next]_vars PROVE IInv'
    OBVIOUS
  <2>1. ASSUME NEW i \in Ids, Route(i) PROVE IInv'
    BY <2>1, RegisterStep, SpawnStep, StopBundlerStep, UnregisterStep DEF Route
  <2>2. ASSUME NEW i \in Ids, Resume(i) PROVE IInv'
    BY <2>2, StartedStep, TestNextStep DEF Resume
  <2>3. CASE UNCHANGED vars
    BY <2>3 DEF vars, registryVars, historyVars, IInv, NoOrphan, Stopped, LateOnes, PortsDiffer,
                Unspawned, TestsMeet, TestsMissed, Alive, Testing, Registered
  <2> QED
    BY <2>1, <2>2, <2>3, CheckStep, ProcessStep, ShutdownStep DEF Next
<1> QED
  BY <1>1, InitOK, PTL DEF Spec

(* No process is left running that nobody can stop, also when a spawn or   *)
(* an unregistration meets the end of the monitor, for any number of       *)
(* bundlers.                                                               *)
THEOREM NobodyOrphaned == Spec => []NoOrphan
<1>1. IInv => NoOrphan
  BY DEF IInv
<1> QED
  BY <1>1, SupervisorInvariant, PTL

(* Two registered bundlers have the same port only if their spawn requests *)
(* overlapped, for any number of bundlers and ports.                       *)
THEOREM PortsAreTheirOwn == Spec => []PortsDiffer
<1>1. IInv => PortsDiffer
  BY DEF IInv
<1> QED
  BY <1>1, SupervisorInvariant, PTL
============================================================================
