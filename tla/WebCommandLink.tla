--------------------------- MODULE WebCommandLink ---------------------------
(***************************************************************************)
(* The web app's side of the Bluetooth link: App's connect, disconnect and *)
(* command handlers, the change of transport, the heartbeat timer with     *)
(* sendHeartbeatIfIdle, WebBluetoothTransport with its chain of writes, and *)
(* the mock transport it may be exchanged for.                             *)
(*                                                                         *)
(* JavaScript runs one task at a time and then every promise reaction that *)
(* is due before the next task; the interleaving is in the awaits: while a *)
(* write or a connection step is pending, clicks, timer ticks and the loss *)
(* of the link come in any order.  Every call of send is a job.  A job     *)
(* starts when the job before it on the same chain has settled; disconnect *)
(* starts a new chain and leaves the old one running.                      *)
(*                                                                         *)
(* One rover is in reach.  An attempt to connect is numbered, and the      *)
(* number stands for the characteristic object it obtains.  Transport      *)
(* objects are numbered too: the page starts with a mock one and every     *)
(* change makes a new one of the other kind, so that the odd ones are the  *)
(* Bluetooth ones.  An exchanged transport is never used again, but what   *)
(* was under way on it goes on.                                            *)
(***************************************************************************)
EXTENDS Naturals, FiniteSets, SequencesExt

CONSTANTS
  UserKinds,     \* the commands the operator's buttons send
  MaxCommands,   \* bound: how many of them are sent
  MaxAttempts,   \* bound: how many times Connect is clicked for Bluetooth
  MaxChanges,    \* bound: how many times the transport is changed
  MaxEditJobs    \* bound: no edit is made while more sends are pending

ASSUME LinkAssumption ==
  /\ "heartbeat" \notin UserKinds
  /\ MaxCommands \in Nat /\ MaxAttempts \in Nat
  /\ MaxChanges \in Nat /\ MaxEditJobs \in Nat

VARIABLES
  connected,         \* App's state: what the page shows
  idsGiven,          \* App's missionId and roverId: is neither empty?
  transport,         \* transportRef.current, and with it transportMode
  mockConnected,     \* the mock transport's #connected
  attempts,          \* how far each connect() has come, and for which
                     \*   transport
  characteristic,    \* of each transport: #commandWriteCharacteristic, and
                     \*   with it #server
  link,              \* server.connected
  live,              \* the characteristics obtained on the present link
  chain,             \* #writeChain: how many there have been
  jobs,              \* the sends that have not settled, oldest first
  writeInProgress,   \* of each transport: #writeInProgress
  heartbeatInFlight, \* heartbeatInFlightRef.current
  \* History variables:
  sent,              \* how many operator commands were sent (their seq)
  lastDelivered      \* seq of the operator command that arrived last

uiVars == <<connected, transport, mockConnected, attempts, characteristic>>
pageVars == <<connected, idsGiven, transport, mockConnected>>
linkVars == <<link, live>>
writerVars == <<chain, jobs, writeInProgress, heartbeatInFlight>>
vars == <<idsGiven, uiVars, linkVars, writerVars, sent, lastDelivered>>

Attempts == 1..MaxAttempts
NoAttempt == 0
Progress == {"none", "choosing", "discovering", "readingStatus", "over"}

Transports == 0..MaxChanges
IsWeb(t) == t % 2 = 1   \* a WebBluetoothTransport

\* Every reset and every Bluetooth transport starts a chain.
Chains == 0..(MaxAttempts + MaxChanges)

Job == [kind : UserKinds \cup {"heartbeat"}, seq : 0..MaxCommands,
        transport : Transports, characteristic : Attempts, chain : Chains,
        state : {"queued", "writing", "written"}]

TypeOK ==
  /\ connected \in BOOLEAN /\ idsGiven \in BOOLEAN
  /\ transport \in Transports /\ mockConnected \in BOOLEAN
  /\ attempts \in [Attempts -> [state : Progress, transport : Transports]]
  /\ characteristic \in [Transports -> Attempts \cup {NoAttempt}]
  /\ link \in BOOLEAN /\ live \subseteq Attempts
  /\ chain \in Chains
  /\ jobs \in Seq(Job)
  /\ writeInProgress \in [Transports -> BOOLEAN]
  /\ heartbeatInFlight \in BOOLEAN
  /\ sent \in 0..MaxCommands /\ lastDelivered \in 0..MaxCommands

Init ==
  /\ connected = FALSE /\ idsGiven = TRUE
  /\ transport = 0 /\ mockConnected = FALSE
  /\ attempts = [n \in Attempts |-> [state |-> "none", transport |-> 0]]
  /\ characteristic = [t \in Transports |-> NoAttempt]
  /\ link = FALSE /\ live = {}
  /\ chain = 0 /\ jobs = <<>>
  /\ writeInProgress = [t \in Transports |-> FALSE]
  /\ heartbeatInFlight = FALSE
  /\ sent = 0 /\ lastDelivered = 0

IsConnected(t) == link /\ characteristic[t] # NoAttempt

\* Mutant: a send does not wait for the one before it.
FirstOfItsChainAlways(i) == TRUE
FirstOfItsChain(i) == \A k \in 1..(i - 1) : jobs[k].chain # jobs[i].chain

CanStart(i) == jobs[i].state = "queued" /\ FirstOfItsChain(i)

\* No promise reaction is due: the next task may run.
TaskBoundary == \A i \in DOMAIN jobs : ~CanStart(i)

------------------------------------------------------------------------------
(* connect()                                                               *)

Advance(n, from, to) ==
  /\ attempts[n].state = from
  /\ attempts' = [attempts EXCEPT ![n].state = to]

\* Connect is clicked.  It stays enabled until an attempt has succeeded.
ClickConnect(n) ==
  /\ TaskBoundary /\ ~connected /\ IsWeb(transport)
  /\ attempts[n].state = "none"
  /\ \A m \in 1..(n - 1) : attempts[m].state # "none"
  /\ attempts' = [attempts EXCEPT ![n] = [state |-> "choosing",
                                         transport |-> transport]]
  /\ UNCHANGED <<pageVars, characteristic, linkVars, writerVars, sent,
                 lastDelivered>>

\* The mock transport connects at once.
ConnectMock ==
  /\ TaskBoundary /\ ~connected /\ ~IsWeb(transport)
  /\ connected' = TRUE /\ mockConnected' = TRUE
  /\ UNCHANGED <<idsGiven, transport, attempts, characteristic, linkVars,
                 writerVars, sent, lastDelivered>>

\* requestDevice and gatt.connect have resolved.
Linked(n) ==
  /\ TaskBoundary
  /\ Advance(n, "choosing", "discovering")
  /\ link' = TRUE /\ live' = live \cup {n}
  /\ UNCHANGED <<pageVars, characteristic, writerVars, sent, lastDelivered>>

\* The service and its characteristics are found, notifications started.
Discovered(n) ==
  /\ TaskBoundary /\ n \in live
  /\ Advance(n, "discovering", "readingStatus")
  /\ UNCHANGED <<pageVars, characteristic, linkVars, writerVars, sent,
                 lastDelivered>>

\* connect() rejects.  Nothing is undone: the link may stay up.
ConnectFails(n) ==
  /\ TaskBoundary
  /\ attempts[n].state \in {"choosing", "discovering"}
  /\ attempts' = [attempts EXCEPT ![n].state = "over"]
  /\ UNCHANGED <<pageVars, characteristic, linkVars, writerVars, sent,
                 lastDelivered>>

\* Mutant: a new connection starts a new chain.
FinishConnectResetsChain(n) ==
  /\ TaskBoundary
  /\ Advance(n, "readingStatus", "over")
  /\ characteristic' = [characteristic EXCEPT ![attempts[n].transport] = n]
  /\ connected' = TRUE
  /\ chain' = chain + 1
  /\ UNCHANGED <<idsGiven, transport, mockConnected, jobs, writeInProgress,
                 heartbeatInFlight, linkVars, sent, lastDelivered>>

\* The optional status characteristic was read, or not: either way connect()
\* resolves, even when the link has gone in the meantime, and the page shows
\* a connection, even when the transport was exchanged in the meantime.
FinishConnect(n) ==
  /\ TaskBoundary
  /\ Advance(n, "readingStatus", "over")
  /\ characteristic' = [characteristic EXCEPT ![attempts[n].transport] = n]
  /\ connected' = TRUE
  /\ UNCHANGED <<idsGiven, transport, mockConnected, linkVars, writerVars,
                 sent, lastDelivered>>

------------------------------------------------------------------------------
(* disconnect(), the change of transport, and the loss of the link, which  *)
(* nothing listens to                                                      *)

\* Mutant: the fields are forgotten, the device is left connected.
DisconnectTransportKeepsLink(t) ==
  /\ mockConnected' = FALSE
  /\ characteristic' = [characteristic EXCEPT ![t] = NoAttempt]
  /\ writeInProgress' = [writeInProgress EXCEPT ![t] = FALSE]
  /\ UNCHANGED linkVars

\* disconnect() of the transport the page has.
DisconnectTransport(t) ==
  /\ mockConnected' = FALSE
  /\ characteristic' = [characteristic EXCEPT ![t] = NoAttempt]
  /\ writeInProgress' = [writeInProgress EXCEPT ![t] = FALSE]
  /\ IF characteristic[t] # NoAttempt
     THEN link' = FALSE /\ live' = {}
     ELSE UNCHANGED linkVars

Disconnect ==
  /\ TaskBoundary /\ connected
  /\ connected' = FALSE
  /\ DisconnectTransport(transport)
  /\ chain' = IF IsWeb(transport) THEN chain + 1 ELSE chain
  /\ heartbeatInFlight' = FALSE
  /\ UNCHANGED <<idsGiven, transport, attempts, jobs, sent, lastDelivered>>

\* Mutant: the old transport is not disconnected.
ChangeTransportModeOnly ==
  /\ TaskBoundary /\ transport < MaxChanges
  /\ transport' = transport + 1
  /\ mockConnected' = FALSE
  /\ connected' = FALSE
  /\ heartbeatInFlight' = FALSE
  /\ chain' = IF IsWeb(transport') THEN chain + 1 ELSE chain
  /\ UNCHANGED <<idsGiven, attempts, characteristic, linkVars, jobs,
                 writeInProgress, sent, lastDelivered>>

\* The other transport is selected.  An attempt that is pending on the old
\* one is not cancelled.
ChangeTransportMode ==
  /\ TaskBoundary /\ transport < MaxChanges
  /\ transport' = transport + 1
  /\ IF connected
     THEN /\ DisconnectTransport(transport)
          /\ connected' = FALSE /\ heartbeatInFlight' = FALSE
     ELSE /\ mockConnected' = FALSE
          /\ UNCHANGED <<connected, characteristic, linkVars,
                         writeInProgress, heartbeatInFlight>>
  /\ chain' = IF connected \/ IsWeb(transport') THEN chain + 1 ELSE chain
  /\ UNCHANGED <<idsGiven, attempts, jobs, sent, lastDelivered>>

LinkLost ==
  /\ TaskBoundary /\ link
  /\ link' = FALSE /\ live' = {}
  /\ UNCHANGED <<idsGiven, uiVars, writerVars, sent, lastDelivered>>

------------------------------------------------------------------------------
(* send()                                                                  *)

NewJob(kind, seq) ==
  [kind |-> kind, seq |-> seq, transport |-> transport,
   characteristic |-> characteristic[transport], chain |-> chain,
   state |-> "queued"]

\* Of what this page sends the pipeline refuses only what names no mission
\* or no rover: the permissions are the page's own, and its commands within
\* its limits (CommandAuthorization, ManualDrive).  A reset does not pass it.
Authorized(kind) == idsGiven \/ kind = "reset_estop"

\* A button.  What is refused, and without a connection what is not, the
\* page only logs; the mock transport keeps the packet to itself.
UserCommand(kind) ==
  /\ TaskBoundary /\ sent < MaxCommands
  /\ sent' = sent + 1
  /\ jobs' = IF Authorized(kind) /\ IsConnected(transport)
              THEN Append(jobs, NewJob(kind, sent')) ELSE jobs
  /\ UNCHANGED <<idsGiven, uiVars, linkVars, chain, writeInProgress,
                 heartbeatInFlight, lastDelivered>>

\* sendHeartbeatIfIdle, with the flag as given.
SendHeartbeatIfIdle(inFlight) ==
  IF ~inFlight /\ ~writeInProgress[transport] /\ IsConnected(transport)
  THEN /\ jobs' = Append(jobs, NewJob("heartbeat", 0))
       /\ heartbeatInFlight' = TRUE
  ELSE heartbeatInFlight' = inFlight /\ UNCHANGED jobs

\* sendHeartbeat of App's effect: the pipeline comes first, and a heartbeat
\* it refuses is only logged.
SendHeartbeat(inFlight) ==
  IF idsGiven' THEN SendHeartbeatIfIdle(inFlight)
  ELSE heartbeatInFlight' = inFlight /\ UNCHANGED jobs

\* The interval timer, which runs while the page shows a connection.
HeartbeatTick ==
  /\ TaskBoundary /\ connected /\ IsWeb(transport)
  /\ UNCHANGED idsGiven
  /\ SendHeartbeat(heartbeatInFlight)
  /\ UNCHANGED <<uiVars, linkVars, chain, writeInProgress, sent,
                 lastDelivered>>

\* Mission ID or Rover ID is edited, and may be left empty.  Under a
\* connection the effect is cleaned up, the flag with it, and run anew.
EditIds ==
  /\ TaskBoundary
  /\ Len(jobs) <= MaxEditJobs
  /\ idsGiven' \in BOOLEAN
  /\ IF connected /\ IsWeb(transport) THEN SendHeartbeat(FALSE)
     ELSE UNCHANGED <<jobs, heartbeatInFlight>>
  /\ UNCHANGED <<uiVars, linkVars, chain, writeInProgress, sent,
                 lastDelivered>>

\* Job i settles: its promise is resolved or rejected.
Settle(i) ==
  /\ jobs' = RemoveAt(jobs, i)
  /\ heartbeatInFlight' = (heartbeatInFlight /\ jobs[i].kind # "heartbeat")

\* The promise reaction that starts a job, or refuses it.
StartWrite(i) ==
  /\ CanStart(i)
  /\ IF /\ IsConnected(jobs[i].transport)
        /\ characteristic[jobs[i].transport] = jobs[i].characteristic
     THEN /\ jobs' = [jobs EXCEPT ![i].state = "writing"]
          /\ writeInProgress' =
               [writeInProgress EXCEPT ![jobs[i].transport] = TRUE]
          /\ UNCHANGED heartbeatInFlight
     ELSE Settle(i) /\ UNCHANGED writeInProgress
  /\ UNCHANGED <<idsGiven, uiVars, linkVars, chain, sent, lastDelivered>>

\* The rover receives the payload.
Deliver(i) ==
  /\ TaskBoundary
  /\ jobs[i].state = "writing" /\ jobs[i].characteristic \in live
  /\ jobs' = [jobs EXCEPT ![i].state = "written"]
  /\ lastDelivered' = IF jobs[i].kind = "heartbeat" THEN lastDelivered
                      ELSE jobs[i].seq
  /\ UNCHANGED <<idsGiven, uiVars, linkVars, chain, writeInProgress,
                 heartbeatInFlight, sent>>

WriteResolves(i) ==
  /\ TaskBoundary
  /\ jobs[i].state = "written"
  /\ Settle(i)
  /\ writeInProgress' = [writeInProgress EXCEPT ![jobs[i].transport] = FALSE]
  /\ UNCHANGED <<idsGiven, uiVars, linkVars, chain, sent, lastDelivered>>

\* Mutants: a failed write fails the sends queued behind it; the flag stays
\* up when a heartbeat's write fails.
WriteRejectsChain(i) ==
  /\ TaskBoundary
  /\ jobs[i].state \in {"writing", "written"}
  /\ jobs' = SelectSeq(jobs, LAMBDA job : job.chain # jobs[i].chain)
  /\ heartbeatInFlight' = FALSE
  /\ writeInProgress' = [writeInProgress EXCEPT ![jobs[i].transport] = FALSE]
  /\ UNCHANGED <<idsGiven, uiVars, linkVars, chain, sent, lastDelivered>>
WriteRejectsKeepsFlag(i) ==
  /\ TaskBoundary
  /\ jobs[i].state \in {"writing", "written"}
  /\ jobs' = RemoveAt(jobs, i)
  /\ writeInProgress' = [writeInProgress EXCEPT ![jobs[i].transport] = FALSE]
  /\ UNCHANGED <<idsGiven, uiVars, linkVars, chain, heartbeatInFlight, sent,
                 lastDelivered>>

\* writeValue rejects: a GATT error, or the link went, perhaps after the
\* payload had arrived.
WriteRejects(i) ==
  /\ TaskBoundary
  /\ jobs[i].state \in {"writing", "written"}
  /\ Settle(i)
  /\ writeInProgress' = [writeInProgress EXCEPT ![jobs[i].transport] = FALSE]
  /\ UNCHANGED <<idsGiven, uiVars, linkVars, chain, sent, lastDelivered>>

Operator ==
  \/ \E n \in Attempts : ClickConnect(n)
  \/ ConnectMock
  \/ Disconnect
  \/ ChangeTransportMode
  \/ EditIds
  \/ \E kind \in UserKinds : UserCommand(kind)

Connecting ==
  \E n \in Attempts :
    Linked(n) \/ Discovered(n) \/ ConnectFails(n) \/ FinishConnect(n)

Writing ==
  \E i \in DOMAIN jobs :
    StartWrite(i) \/ Deliver(i) \/ WriteResolves(i) \/ WriteRejects(i)

Next == Operator \/ Connecting \/ LinkLost \/ HeartbeatTick \/ Writing

SafeSpec == Init /\ [][Next]_vars

(***************************************************************************)
(* Promise reactions run, writeValue settles sooner or later, the timer    *)
(* keeps ticking; and a link that stays up lets a write through again and  *)
(* again.  Nothing makes the operator click or the link fail.              *)
(***************************************************************************)
DeliverHeartbeat ==
  \E i \in DOMAIN jobs : jobs[i].kind = "heartbeat" /\ Deliver(i)
Fairness ==
  /\ WF_vars(Writing)
  /\ WF_vars(HeartbeatTick)
  /\ SF_vars(DeliverHeartbeat)

Spec == SafeSpec /\ Fairness

------------------------------------------------------------------------------
(* Properties                                                              *)

(***************************************************************************)
(* Whatever comes between, two connects that overlap included, the rover   *)
(* never sees two writes at once: the single write buffer of the firmware  *)
(* (BleGattTransport) relies on it.                                        *)
(***************************************************************************)
OneWriteAtATime ==
  Cardinality({i \in DOMAIN jobs : /\ jobs[i].state # "queued"
                                   /\ jobs[i].characteristic \in live}) <= 1

(***************************************************************************)
(* The operator's commands arrive in the order of the clicks, across       *)
(* failed writes, lost links and new connections: no old command is obeyed *)
(* after a newer one.                                                      *)
(***************************************************************************)
CommandsArriveInOrder ==
  [][lastDelivered' # lastDelivered => lastDelivered' > lastDelivered]_vars

(***************************************************************************)
(* Once Disconnect was clicked or the transport changed, no command sent   *)
(* before it arrives, whatever writes and attempts were pending then.      *)
(***************************************************************************)
NothingArrivesAfterDisconnect ==
  [][\A i \in DOMAIN jobs :
       jobs[i].state = "writing" /\ Len(jobs') = Len(jobs)
         /\ jobs'[i].state = "written" => jobs[i].chain = chain]_vars

(***************************************************************************)
(* A write that fails takes no other command with it: a queued command     *)
(* gives up without being tried only when its connection is gone.          *)
(***************************************************************************)
QueuedFailOnlyWithTheirLink ==
  [][\A i \in DOMAIN jobs :
       /\ jobs[i].state = "queued" /\ jobs[i].kind # "heartbeat"
       /\ ~\E k \in DOMAIN jobs' : jobs'[k].seq = jobs[i].seq
       => ~link \/ characteristic[jobs[i].transport]
                     # jobs[i].characteristic]_vars

\* A command that the rover may still receive.
CanArrive(i) ==
  /\ jobs[i].kind # "heartbeat" /\ jobs[i].state # "written"
  /\ jobs[i].characteristic \in live

CommandsUnderWay ==
  {jobs[i].seq : i \in {k \in DOMAIN jobs : CanArrive(k)}}

Channel == INSTANCE CommandChannel
             WITH underWay <- CommandsUnderWay, arrived <- lastDelivered

(***************************************************************************)
(* Whatever connects, fails, is lost or exchanged meanwhile, the app is a  *)
(* command channel to the rover: commands arrive in the order of the       *)
(* clicks, a failure takes only the oldest one away, and none comes back   *)
(* to life on a later connection.                                          *)
(***************************************************************************)
ImplementsCommandChannel == Channel!ChannelSpec

(***************************************************************************)
(* As long as the page shows a connection, the link stays up, and Mission  *)
(* ID and Rover ID are not empty, failing writes, edits and commands never *)
(* silence the heartbeat for good, nor does a time in which an ID was      *)
(* empty and the pipeline refused every heartbeat.                         *)
(***************************************************************************)
HeartbeatsGoOn ==
  <>[](/\ connected /\ IsWeb(transport)
       /\ characteristic[transport] \in live
       /\ idsGiven)
    => []<><<DeliverHeartbeat>>_vars

==============================================================================
