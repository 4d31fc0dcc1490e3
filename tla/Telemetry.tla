----------------------------- MODULE Telemetry -----------------------------
(***************************************************************************)
(* The sessions that the monitor counts and the users that it lists: pages *)
(* of the swap app and of the admin app that send heartbeats, the wallet   *)
(* that a swap page connects, TelemetryStore, and the join of its owners   *)
(* and senders with the operations indexed.  A unit of time is the 10 s    *)
(* between two heartbeats; one is delivered or lost within the next unit.  *)
(***************************************************************************)
EXTENDS Integers, FiniteSets, Functions

CONSTANTS
  Pages,          \* pages that browsers may show
  AdminPages,     \* those of the admin app
  SessionOf,      \* the session id in the storage of a page's browser
  Owners,         \* wallets
  AccountOf,      \* the account that the factory has for a wallet
  devPrivateKey,  \* whether the swap app has a wallet of its own
  Executed,       \* indexed operations of each sender that has some
  NoOne,          \* no owner, no sender
  Window,         \* how long a session counts without a heartbeat (30 s)
  MaxTime,        \* bounds the model
  MaxChanges      \* wallets connected and modes changed (bounds the model)

ASSUME TelemetryAssumption ==
  /\ AdminPages \subseteq Pages /\ DOMAIN SessionOf = Pages /\ DOMAIN AccountOf = Owners
  /\ devPrivateKey \in BOOLEAN /\ NoOne \notin Owners
  /\ IsFiniteSet(DOMAIN Executed) /\ \A s \in DOMAIN Executed : Executed[s] \in Nat
  /\ Window \in Nat /\ MaxTime \in Nat /\ MaxChanges \in Nat

VARIABLES
  now,
  page,      \* what a page shows, when its timer fires, what it waits for
  wire,      \* heartbeats on their way
  sessions,  \* TelemetryStore: when a session was last seen
  owners,    \* ... owners seen
  senders,   \* ... senders seen, each with its owner
  links,     \* ... ownerToSenders, as pairs
  missed,    \* heartbeats of a page lost since one was received
  closedAt,  \* when a page was last closed
  changes

store == <<sessions, owners, senders, links>>
telemetryVars == <<now, page, wire, store, missed, closedAt, changes>>

Blank == [open |-> FALSE, owner |-> NoOne, sender |-> NoOne, use7702 |-> FALSE,
          connecting |-> FALSE, asked |-> {}, timer |-> 0]

----------------------------------------------------------------------------
(* The page.  The heartbeat's effect runs again, at once, when owner or    *)
(* sender have changed.                                                    *)
Heartbeat(p, shown) ==
  [page |-> p, session |-> SessionOf[p], owner |-> shown.owner, sender |-> shown.sender, sent |-> now]

Rendered(p, shown) ==
  LET changed == <<shown.owner, shown.sender>> # <<page[p].owner, page[p].sender>>
  IN /\ page' = [page EXCEPT ![p] = IF changed THEN [shown EXCEPT !.timer = now + 1] ELSE shown]
     /\ wire' = wire \cup (IF changed THEN {Heartbeat(p, shown)} ELSE {})

Open(p) ==
  /\ ~page[p].open /\ now < MaxTime
  /\ LET shown == [Blank EXCEPT !.open = TRUE, !.timer = now + 1]
     IN page' = [page EXCEPT ![p] = shown] /\ wire' = wire \cup {Heartbeat(p, shown)}
  /\ UNCHANGED <<now, store, missed, closedAt, changes>>

(* Answers that the page waits for no longer reach anyone; heartbeats do.  *)
Close(p) ==
  /\ page[p].open
  /\ page' = [page EXCEPT ![p] = Blank]
  /\ closedAt' = [closedAt EXCEPT ![p] = now]
  /\ missed' = [missed EXCEPT ![p] = 2]
  /\ UNCHANGED <<now, wire, store, changes>>

TimerFires(p) ==
  /\ page[p].open /\ page[p].timer = now
  /\ page' = [page EXCEPT ![p].timer = now + 1]
  /\ wire' = wire \cup {Heartbeat(p, page[p])}
  /\ UNCHANGED <<now, store, missed, closedAt, changes>>

SwapPageChanges(p) ==
  /\ p \notin AdminPages /\ page[p].open /\ ~page[p].connecting
  /\ changes < MaxChanges /\ changes' = changes + 1
  /\ UNCHANGED <<now, store, missed, closedAt>>

(* connect(), once the wallet has answered, and the effect that follows an *)
(* owner.  The sender is there at once, or with the factory's answer: one  *)
(* the wallet's connection waits for, and one the effect does not.         *)
ConnectedTo(p, o) ==
  LET alone == page[p].use7702 /\ ~devPrivateKey
  IN [page[p] EXCEPT
       !.owner = o, !.sender = IF alone THEN o ELSE @, !.connecting = ~alone,
       !.asked = IF page[p].use7702 \/ page[p].owner = o THEN @ ELSE @ \cup {o}]
Connect(p, o) == SwapPageChanges(p) /\ Rendered(p, ConnectedTo(p, o))

(* The effect: the sender of the other mode.                               *)
Toggled(p) ==
  LET on == ~page[p].use7702
  IN IF page[p].owner = NoOne THEN [page[p] EXCEPT !.use7702 = on]
     ELSE [page[p] EXCEPT !.use7702 = on, !.sender = IF on THEN page[p].owner ELSE @,
                          !.asked = IF on THEN @ ELSE @ \cup {page[p].owner}]
Toggle7702(p) == SwapPageChanges(p) /\ Rendered(p, Toggled(p))

(* The factory's answer for an owner, whoever the owner is by now.         *)
AddressFound(p) ==
  /\ \/ /\ page[p].connecting
        /\ Rendered(p, [page[p] EXCEPT !.sender = AccountOf[page[p].owner], !.connecting = FALSE])
     \/ \E o \in page[p].asked :
          Rendered(p, [page[p] EXCEPT !.sender = AccountOf[o], !.asked = @ \ {o}])
  /\ UNCHANGED <<now, store, missed, closedAt, changes>>

(* Nothing tells the user; a connection by a wallet stays unfinished.      *)
AddressFails(p) ==
  /\ changes < MaxChanges /\ changes' = changes + 1
  /\ \/ page[p].connecting /\ devPrivateKey /\ page' = [page EXCEPT ![p].connecting = FALSE]
     \/ \E o \in page[p].asked : page' = [page EXCEPT ![p].asked = @ \ {o}]
  /\ UNCHANGED <<now, wire, store, missed, closedAt>>

----------------------------------------------------------------------------
(* TelemetryStore.                                                         *)

(* Variant: the owner of a sender that is known is not linked to it.       *)
LinkedOnce(hb) ==
  IF hb.owner # NoOne /\ hb.sender \notin DOMAIN senders \cup {NoOne}
    THEN links \cup {<<hb.owner, hb.sender>>} ELSE links
Linked(hb) ==
  IF hb.owner # NoOne /\ hb.sender # NoOne THEN links \cup {<<hb.owner, hb.sender>>} ELSE links

OwnerOf(hb) ==
  IF hb.owner # NoOne \/ hb.sender \notin DOMAIN senders THEN hb.owner ELSE senders[hb.sender]

upsertSession(hb) ==
  /\ sessions' = [s \in DOMAIN sessions \cup {hb.session} |->
                    IF s = hb.session THEN now ELSE sessions[s]]
  /\ owners' = owners \cup ({hb.owner} \ {NoOne})
  /\ senders' = [s \in DOMAIN senders \cup ({hb.sender} \ {NoOne}) |->
                   IF s = hb.sender THEN OwnerOf(hb) ELSE senders[s]]
  /\ links' = Linked(hb)

(* POST /api/telemetry/session; in any order.                              *)
Receive(hb) ==
  /\ hb \in wire /\ wire' = wire \ {hb}
  /\ upsertSession(hb)
  /\ missed' = IF page[hb.page].open /\ hb.sent >= closedAt[hb.page]
                 THEN [missed EXCEPT ![hb.page] = 0] ELSE missed
  /\ UNCHANGED <<now, page, closedAt, changes>>

Lose(hb) ==
  /\ hb \in wire /\ wire' = wire \ {hb}
  /\ missed' = [missed EXCEPT ![hb.page] = IF @ < 2 THEN @ + 1 ELSE 2]
  /\ UNCHANGED <<now, page, store, closedAt, changes>>

(* The monitor is started again; the store was in memory only.             *)
Restart ==
  /\ changes < MaxChanges /\ changes' = changes + 1
  /\ sessions' = <<>> /\ owners' = {} /\ senders' = <<>> /\ links' = {}
  /\ missed' = [p \in Pages |-> 2]
  /\ UNCHANGED <<now, page, wire, closedAt>>

(* Timers are on time.                                                     *)
Tick ==
  /\ now < MaxTime /\ now' = now + 1
  /\ \A p \in Pages : page[p].open => page[p].timer > now
  /\ \A hb \in wire : hb.sent = now
  /\ UNCHANGED <<page, wire, store, missed, closedAt, changes>>

----------------------------------------------------------------------------
(* The reports.                                                            *)

(* Variant: a session is forgotten as soon as it may be.                   *)
CountedBefore(s) == s \in DOMAIN sessions /\ sessions[s] > now - Window
Counted(s) == s \in DOMAIN sessions /\ sessions[s] >= now - Window

(* /api/admin/users.                                                       *)
SenderRows == DOMAIN Executed \cup DOMAIN senders
TotalOf(s) == IF s \in DOMAIN Executed THEN Executed[s] ELSE 0
RowOwner(s) == IF s \in DOMAIN senders THEN senders[s] ELSE NoOne
SendersOf(o) == {link[2] : link \in {l \in links : l[1] = o}}
TotalIn(S) == SumFunction([s \in S |-> TotalOf(s)])
OwnerTotal(o) == TotalIn(SendersOf(o))

----------------------------------------------------------------------------
TelemetryInit ==
  /\ now = 0
  /\ page = [p \in Pages |-> Blank]
  /\ wire = {}
  /\ sessions = <<>> /\ owners = {} /\ senders = <<>> /\ links = {}
  /\ missed = [p \in Pages |-> 2] /\ closedAt = [p \in Pages |-> 0]
  /\ changes = 0

TelemetryNext ==
  \/ \E p \in Pages :
       \/ Open(p) \/ Close(p) \/ TimerFires(p) \/ Toggle7702(p)
       \/ AddressFound(p) \/ AddressFails(p)
       \/ \E o \in Owners : Connect(p, o)
  \/ \E hb \in wire : Receive(hb) \/ Lose(hb)
  \/ Restart \/ Tick

TelemetrySpec == TelemetryInit /\ [][TelemetryNext]_telemetryVars

----------------------------------------------------------------------------
(* The sessions counted are the pages open: one of which no two heartbeats *)
(* in a row were lost counts at every moment, and what counts was open     *)
(* not longer ago than a window and a heartbeat's way, although heartbeats *)
(* overtake each other and pages of a browser share a session.             *)
CountsArePages ==
  /\ \A p \in Pages : page[p].open /\ missed[p] < 2 => Counted(SessionOf[p])
  /\ \A s \in DOMAIN sessions : Counted(s) =>
       \E p \in Pages : SessionOf[p] = s /\ (page[p].open \/ now - closedAt[p] <= Window + 1)

(* The two tables of users agree, in whatever order the heartbeats arrive  *)
(* in which wallets and accounts change: the owner of a sender is an owner *)
(* who lists it and whose total includes its operations, every sender that *)
(* an owner lists has a row, and the rows hold all operations.             *)
UsersJoined ==
  /\ \A s \in SenderRows : RowOwner(s) # NoOne =>
       RowOwner(s) \in owners /\ s \in SendersOf(RowOwner(s))
  /\ \A o \in owners : SendersOf(o) \subseteq SenderRows
UsersAgree ==
  /\ UsersJoined
  /\ \A s \in SenderRows : RowOwner(s) # NoOne => OwnerTotal(RowOwner(s)) >= TotalOf(s)
  /\ TotalIn(SenderRows) = TotalIn(DOMAIN Executed)
=============================================================================
