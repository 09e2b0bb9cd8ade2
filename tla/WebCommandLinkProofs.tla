------------------------ MODULE WebCommandLinkProofs ------------------------
(***************************************************************************)
(* The web app's command link keeps its writes apart and its commands in   *)
(* order, for every number of commands, connection attempts and changes of *)
(* transport.                                                              *)
(***************************************************************************)
EXTENDS WebCommandLink, FiniteSetTheorems, SequenceTheorems, TLAPS

\* The attempts that have come to an end, one way or the other.
Over == {n \in Attempts : attempts[n].state = "over"}

\* The connection, if it is one whose end starts a chain.
OpenChain == IF connected /\ IsWeb(transport) THEN 1 ELSE 0

\* A chain is started by the end of a Bluetooth connection, which an attempt
\* has made, and by a change of transport.
ChainsCounted == chain + OpenChain <= Cardinality(Over) + transport

\* What is known of the connection.  An attempt that was left pending can
\* only have been made for a transport that has existed.
ConnectionShape ==
  /\ \A n \in Attempts : attempts[n].transport <= transport
  /\ \A t \in Transports : t > transport => characteristic[t] = NoAttempt
  /\ \A t \in Transports :
       characteristic[t] # NoAttempt => characteristic[t] \in Over
  /\ characteristic[transport] # NoAttempt => connected
  /\ live # {} => link
  /\ \A n \in live : attempts[n].state \notin {"none", "choosing"}

\* A send that can still reach the rover.
IsLive(i) == jobs[i].characteristic \in live

IsUser(i) == jobs[i].kind # "heartbeat"

\* No reset has come between a send that can still reach the rover and now.
LiveAreCurrent ==
  \A i \in DOMAIN jobs :
    /\ jobs[i].characteristic \in Over
    /\ IsLive(i) => /\ jobs[i].chain = chain
                    /\ jobs[i].transport = transport
                    /\ characteristic[transport] # NoAttempt

OnlyTheFirstWrites ==
  \A i \in DOMAIN jobs : jobs[i].state # "queued" => FirstOfItsChain(i)

\* The operator's commands stand in the order of the clicks.
InOrder ==
  /\ \A i \in DOMAIN jobs :
       jobs[i].seq \in IF IsUser(i) THEN 1..sent ELSE {0}
  /\ \A i, j \in DOMAIN jobs :
       i < j /\ IsUser(i) /\ IsUser(j) => jobs[i].seq < jobs[j].seq
  /\ lastDelivered <= sent
  /\ \A i \in DOMAIN jobs :
       IsLive(i) /\ IsUser(i) /\ jobs[i].state # "written"
         => jobs[i].seq > lastDelivered

LinkInv ==
  /\ TypeOK
  /\ ChainsCounted
  /\ ConnectionShape
  /\ LiveAreCurrent
  /\ OnlyTheFirstWrites
  /\ InOrder

------------------------------------------------------------------------------
(* What the sends become when one is added, changed or settled.            *)

\* Removing an element leaves the others, in their order.
LEMMA RemoveAtProperties ==
  ASSUME NEW S, NEW s \in Seq(S), NEW i \in DOMAIN s
  PROVE  /\ RemoveAt(s, i) \in Seq(S)
         /\ Len(RemoveAt(s, i)) = Len(s) - 1
         /\ DOMAIN RemoveAt(s, i) = 1..(Len(s) - 1)
         /\ \A k \in 1..(Len(s) - 1) :
              RemoveAt(s, i)[k] = IF k < i THEN s[k] ELSE s[k + 1]
<1> DEFINE front == SubSeq(s, 1, i - 1)
           back == SubSeq(s, i + 1, Len(s))
<1>1. Len(s) \in Nat /\ DOMAIN s = 1..Len(s) /\ s \in [1..Len(s) -> S]
  BY LenProperties
<1>2. i \in 1..Len(s)
  BY <1>1
<1>3. /\ front \in Seq(S)
      /\ Len(front) = i - 1
      /\ \A k \in 1..(i - 1) : front[k] = s[k]
  <2>1. \A k \in 1..(i - 1) : s[k] \in S
    BY <1>1, <1>2
  <2>2. /\ front \in Seq(S)
        /\ Len(front) = IF 1 <= i - 1 THEN i - 1 - 1 + 1 ELSE 0
        /\ \A k \in 1..(i - 1 - 1 + 1) : front[k] = s[1 + k - 1]
    BY <1>1, <1>2, <2>1, SubSeqProperties
  <2> HIDE DEF front
  <2> QED
    BY <1>1, <1>2, <2>2
<1>4. /\ back \in Seq(S)
      /\ Len(back) = Len(s) - i
      /\ \A k \in 1..(Len(s) - i) : back[k] = s[i + k]
  <2>1. \A k \in (i + 1)..Len(s) : s[k] \in S
    BY <1>1, <1>2
  <2>2. i + 1 \in Int /\ Len(s) \in Int
    BY <1>1, <1>2
  <2>3. /\ back \in Seq(S)
        /\ Len(back) = IF i + 1 <= Len(s) THEN Len(s) - (i + 1) + 1 ELSE 0
        /\ \A k \in 1..(Len(s) - (i + 1) + 1) : back[k] = s[i + 1 + k - 1]
    BY <2>1, <2>2, SubSeqProperties
  <2> HIDE DEF back
  <2>4. Len(back) = Len(s) - i /\ Len(s) - (i + 1) + 1 = Len(s) - i
    BY <1>1, <1>2, <2>3
  <2>5. \A k \in 1..(Len(s) - i) : i + 1 + k - 1 = i + k
    BY <1>1, <1>2
  <2> QED
    BY <2>3, <2>4, <2>5
<1> HIDE DEF front, back
<1>5. /\ front \o back \in Seq(S)
      /\ Len(front \o back) = Len(s) - 1
      /\ \A k \in 1..(Len(s) - 1) :
           (front \o back)[k] = IF k <= i - 1 THEN front[k]
                                ELSE back[k - (i - 1)]
  <2>1. Len(front) + Len(back) = Len(s) - 1
    BY <1>1, <1>2, <1>3, <1>4
  <2>2. /\ front \o back \in Seq(S)
        /\ Len(front \o back) = Len(front) + Len(back)
        /\ \A k \in 1..(Len(front) + Len(back)) :
             (front \o back)[k] = IF k <= Len(front) THEN front[k]
                                  ELSE back[k - Len(front)]
    BY <1>3, <1>4, ConcatProperties
  <2> QED
    BY <1>3, <2>1, <2>2
<1>6. RemoveAt(s, i) = front \o back
  BY DEF RemoveAt, front, back
<1>7. ASSUME NEW k \in 1..(Len(s) - 1)
      PROVE  RemoveAt(s, i)[k] = IF k < i THEN s[k] ELSE s[k + 1]
  <2>1. CASE k < i
    BY <1>1, <1>2, <1>3, <1>5, <1>6, <2>1
  <2>2. CASE k >= i
    <3>1. /\ k - (i - 1) \in 1..(Len(s) - i) /\ i + (k - (i - 1)) = k + 1
          /\ ~(k <= i - 1) /\ ~(k < i)
      BY <1>1, <1>2, <2>2
    <3>2. back[k - (i - 1)] = s[k + 1]
      BY <1>4, <3>1
    <3>3. (front \o back)[k] = back[k - (i - 1)]
      BY <1>5, <3>1
    <3> QED
      BY <1>6, <3>1, <3>2, <3>3
  <2> QED
    BY <1>1, <1>2, <2>1, <2>2
<1> QED
  BY <1>1, <1>5, <1>6, <1>7, LenProperties

\* Changing how far a send has come leaves the rest of it alone.
LEMMA StateChange ==
  ASSUME jobs \in Seq(Job), NEW i \in DOMAIN jobs,
         NEW to \in {"queued", "writing", "written"},
         jobs' = [jobs EXCEPT ![i].state = to]
  PROVE  /\ jobs' \in Seq(Job) /\ Len(jobs') = Len(jobs)
         /\ DOMAIN jobs' = DOMAIN jobs
         /\ \A k \in DOMAIN jobs :
              /\ jobs'[k].kind = jobs[k].kind
              /\ jobs'[k].seq = jobs[k].seq
              /\ jobs'[k].transport = jobs[k].transport
              /\ jobs'[k].characteristic = jobs[k].characteristic
              /\ jobs'[k].chain = jobs[k].chain
              /\ jobs'[k].state = IF k = i THEN to ELSE jobs[k].state
<1> DEFINE job == [jobs[i] EXCEPT !.state = to]
<1>1. Len(jobs) \in Nat /\ DOMAIN jobs = 1..Len(jobs)
      /\ jobs \in [1..Len(jobs) -> Job]
  BY LenProperties
<1>2. \A k \in DOMAIN jobs : jobs[k] \in Job
  BY <1>1
<1>3. /\ job \in Job
      /\ job.kind = jobs[i].kind /\ job.seq = jobs[i].seq
      /\ job.transport = jobs[i].transport
      /\ job.characteristic = jobs[i].characteristic
      /\ job.chain = jobs[i].chain /\ job.state = to
  BY <1>2 DEF Job
<1>4. jobs' = [jobs EXCEPT ![i] = job]
  OBVIOUS
<1> HIDE DEF job
<1>5. /\ jobs' \in Seq(Job) /\ Len(jobs') = Len(jobs)
      /\ \A k \in 1..Len(jobs) : jobs'[k] = IF k = i THEN job ELSE jobs[k]
  BY <1>1, <1>3, <1>4, ExceptSeq
<1> QED
  BY <1>1, <1>3, <1>5, LenProperties

\* A send that is made on a connection has a characteristic to be written.
LEMMA NewJobTyped ==
  ASSUME TypeOK, IsConnected(transport),
         NEW kind \in UserKinds \cup {"heartbeat"}, NEW seq \in 0..MaxCommands
  PROVE  /\ characteristic[transport] \in Attempts
         /\ NewJob(kind, seq) \in Job
BY DEF TypeOK, IsConnected, NewJob, Job

\* What a step does to the sends.
Unchanged == jobs' = jobs

Adds ==
  \E kind \in UserKinds \cup {"heartbeat"}, seq \in 0..MaxCommands :
    /\ IsConnected(transport)
    /\ jobs' = Append(jobs, NewJob(kind, seq))

Removes == \E i \in DOMAIN jobs : jobs' = RemoveAt(jobs, i)

Changes ==
  \E i \in DOMAIN jobs, to \in {"queued", "writing", "written"} :
    jobs' = [jobs EXCEPT ![i].state = to]

LEMMA JobsTyped ==
  ASSUME TypeOK, Unchanged \/ Adds \/ Removes \/ Changes
  PROVE  jobs' \in Seq(Job)
<1>1. jobs \in Seq(Job)
  BY DEF TypeOK
<1>2. CASE Unchanged
  BY <1>1, <1>2 DEF Unchanged
<1>3. CASE Adds
  BY <1>1, <1>3, NewJobTyped, AppendProperties DEF Adds
<1>4. CASE Removes
  BY <1>1, <1>4, RemoveAtProperties DEF Removes
<1>5. CASE Changes
  BY <1>1, <1>5, StateChange DEF Changes
<1> QED
  BY <1>2, <1>3, <1>4, <1>5

LEMMA OverCounted ==
  ASSUME TypeOK
  PROVE  /\ IsFiniteSet(Over) /\ Cardinality(Over) \in 0..MaxAttempts
         /\ MaxAttempts \in Nat /\ MaxChanges \in Nat
<1>1. MaxAttempts \in Nat /\ MaxChanges \in Nat
  BY LinkAssumption
<1>2. IsFiniteSet(Attempts) /\ Cardinality(Attempts) = MaxAttempts
  BY <1>1, FS_Interval DEF Attempts
<1>3. Over \subseteq Attempts
  BY DEF Over
<1> QED
  BY <1>1, <1>2, <1>3, FS_Subset, FS_CardinalityType

------------------------------------------------------------------------------
(* Type correctness.  It rests on the count of the chains.                 *)

\* A chain is started only where there is still a number for it.
LEMMA ChainsLeft ==
  ASSUME TypeOK, ChainsCounted
  PROVE  /\ chain + OpenChain <= MaxAttempts + transport
         /\ transport < MaxChanges => chain + 1 \in Chains
         /\ connected /\ IsWeb(transport) => chain + 1 \in Chains
<1>1. /\ chain \in Nat /\ transport \in 0..MaxChanges
      /\ chain + OpenChain <= Cardinality(Over) + transport
  BY DEF TypeOK, Chains, Transports, ChainsCounted
<1>2. chain + OpenChain <= MaxAttempts + transport
  BY <1>1, OverCounted DEF OpenChain
<1> QED
  BY <1>1, <1>2, OverCounted DEF OpenChain, Chains

LEMMA TypeStep ==
  ASSUME TypeOK, ChainsCounted, [Next]_vars PROVE TypeOK'
<1> USE DEF TypeOK, uiVars, linkVars, writerVars, pageVars
<1>1. ASSUME NEW n \in Attempts,
             ClickConnect(n) \/ Linked(n) \/ Discovered(n) \/ ConnectFails(n)
               \/ FinishConnect(n)
      PROVE  TypeOK'
  <2>1. CASE ClickConnect(n)
    BY <2>1 DEF ClickConnect, Progress
  <2>2. CASE Linked(n)
    BY <2>2 DEF Linked, Advance, Progress
  <2>3. CASE Discovered(n)
    BY <2>3 DEF Discovered, Advance, Progress
  <2>4. CASE ConnectFails(n)
    BY <2>4 DEF ConnectFails, Progress
  <2>5. CASE FinishConnect(n)
    BY <2>5 DEF FinishConnect, Advance, Progress
  <2> QED
    BY <1>1, <2>1, <2>2, <2>3, <2>4, <2>5
<1>2. CASE ConnectMock \/ LinkLost
  BY <1>2 DEF ConnectMock, LinkLost
<1>3. CASE Disconnect
  BY <1>3, ChainsLeft DEF Disconnect, DisconnectTransport
<1>4. CASE ChangeTransportMode
  <2>1. chain' \in Chains
    BY <1>4, ChainsLeft DEF ChangeTransportMode
  <2>2. transport' \in Transports
    BY <1>4, OverCounted DEF ChangeTransportMode, Transports
  <2> QED
    BY <1>4, <2>1, <2>2 DEF ChangeTransportMode, DisconnectTransport
<1>5. CASE EditIds \/ HeartbeatTick
  <2>1. Unchanged \/ Adds
    BY <1>5, LinkAssumption
       DEF EditIds, HeartbeatTick, SendHeartbeat, SendHeartbeatIfIdle,
           Unchanged, Adds
  <2> QED
    BY <1>5, <2>1, JobsTyped
       DEF EditIds, HeartbeatTick, SendHeartbeat, SendHeartbeatIfIdle
<1>6. ASSUME NEW kind \in UserKinds, UserCommand(kind) PROVE TypeOK'
  <2>1. sent' \in 0..MaxCommands
    BY <1>6, LinkAssumption DEF UserCommand
  <2>2. Unchanged \/ Adds
    BY <1>6, <2>1 DEF UserCommand, Unchanged, Adds
  <2> QED
    BY <1>6, <2>1, <2>2, JobsTyped DEF UserCommand
<1>7. ASSUME NEW i \in DOMAIN jobs,
             StartWrite(i) \/ Deliver(i) \/ WriteResolves(i) \/ WriteRejects(i)
      PROVE  TypeOK'
  <2>1. Removes \/ Changes
    BY <1>7 DEF StartWrite, Deliver, WriteResolves, WriteRejects, Settle,
                Removes, Changes
  <2>2. jobs' \in Seq(Job)
    BY <2>1, JobsTyped
  <2>3. jobs[i] \in Job
    BY LenProperties, ElementOfSeq
  <2>4. jobs[i].seq \in 0..MaxCommands
    BY <2>3 DEF Job
  <2>5. CASE StartWrite(i)
    BY <2>2, <2>5 DEF StartWrite, Settle
  <2>6. CASE Deliver(i)
    BY <2>2, <2>4, <2>6 DEF Deliver
  <2>7. CASE WriteResolves(i)
    BY <2>2, <2>7 DEF WriteResolves, Settle
  <2>8. CASE WriteRejects(i)
    BY <2>2, <2>8 DEF WriteRejects, Settle
  <2> QED
    BY <1>7, <2>5, <2>6, <2>7, <2>8
<1>8. CASE UNCHANGED vars
  BY <1>8 DEF vars
<1> QED
  BY <1>1, <1>2, <1>3, <1>4, <1>5, <1>6, <1>7, <1>8
     DEF Next, Operator, Connecting, Writing

LEMMA ChainsStep ==
  ASSUME TypeOK, ChainsCounted, [Next]_vars PROVE ChainsCounted'
<1> DEFINE count == Cardinality(Over)
<1>1. /\ chain \in Nat /\ transport \in Nat /\ count \in Nat
      /\ IsFiniteSet(Over)
      /\ chain + OpenChain <= count + transport
  BY OverCounted DEF TypeOK, Chains, Transports, ChainsCounted
<1>2. ASSUME attempts' = attempts PROVE Over' = Over
  BY <1>2 DEF Over
\* An attempt that goes on has not ended.
<1>3. ASSUME NEW n \in Attempts, attempts[n].state # "over",
             NEW to \in Progress \ {"over"}, NEW t,
             attempts' = [attempts EXCEPT ![n] = [state |-> to, transport |-> t]]
      PROVE  Over' = Over
  BY <1>3 DEF Over, TypeOK
<1>4. ASSUME NEW n \in Attempts, attempts[n].state # "over",
             attempts' = [attempts EXCEPT ![n].state = "over"]
      PROVE  count' = count + 1
  <2>1. Over' = Over \cup {n} /\ n \notin Over
    BY <1>4 DEF Over, TypeOK
  <2> QED
    BY <1>1, <2>1, FS_AddElement
<1> HIDE DEF count
<1>5. ASSUME NEW n \in Attempts, NEW from \in Progress \ {"over"},
             NEW to \in Progress \ {"over"}, Advance(n, from, to)
      PROVE  Over' = Over
  BY <1>5 DEF Advance, Over, TypeOK
<1>6. ASSUME Over' = Over,
             UNCHANGED <<chain, connected, transport>>
      PROVE  ChainsCounted'
  BY <1>6 DEF ChainsCounted, OpenChain
<1> USE DEF uiVars, linkVars, writerVars, pageVars
<1>7. ASSUME NEW n \in Attempts, ClickConnect(n) PROVE ChainsCounted'
  BY <1>3, <1>6, <1>7 DEF ClickConnect, Progress, TypeOK
<1>8. ASSUME NEW n \in Attempts, Linked(n) \/ Discovered(n)
      PROVE  ChainsCounted'
  BY <1>5, <1>6, <1>8 DEF Linked, Discovered, Progress
<1>9. ASSUME NEW n \in Attempts, ConnectFails(n) \/ FinishConnect(n)
      PROVE  ChainsCounted'
  <2>1. count' = count + 1 /\ UNCHANGED <<chain, transport>>
    BY <1>4, <1>9 DEF ConnectFails, FinishConnect, Advance
  <2>2. OpenChain' <= OpenChain + 1
    BY <1>9 DEF OpenChain, ConnectFails, FinishConnect
  <2> QED
    BY <1>1, <2>1, <2>2 DEF ChainsCounted, OpenChain, count
<1>10. CASE ConnectMock
  BY <1>1, <1>2, <1>10 DEF ConnectMock, ChainsCounted, OpenChain
<1>11. CASE Disconnect
  BY <1>1, <1>2, <1>11 DEF Disconnect, ChainsCounted, OpenChain, count
<1>12. CASE ChangeTransportMode
  <2>1. count' = count /\ transport' = transport + 1
    BY <1>2, <1>12 DEF ChangeTransportMode, count
  <2>2. chain' <= chain + 1 /\ chain' \in Nat /\ OpenChain' = 0
    BY <1>1, <1>12 DEF ChangeTransportMode, OpenChain
  <2> QED
    BY <1>1, <2>1, <2>2 DEF ChainsCounted, OpenChain, count
<1>13. CASE EditIds \/ HeartbeatTick \/ LinkLost \/ Writing
            \/ \E kind \in UserKinds : UserCommand(kind)
  BY <1>2, <1>6, <1>13
     DEF EditIds, HeartbeatTick, SendHeartbeat, SendHeartbeatIfIdle,
         LinkLost, Writing, UserCommand, StartWrite, Deliver, WriteResolves, WriteRejects
<1>14. CASE UNCHANGED vars
  BY <1>2, <1>6, <1>14 DEF vars
<1> QED
  BY <1>7, <1>8, <1>9, <1>10, <1>11, <1>12, <1>13, <1>14
     DEF Next, Operator, Connecting

------------------------------------------------------------------------------
(* The connection.                                                         *)

LEMMA ConnectionStep ==
  ASSUME TypeOK, ConnectionShape, [Next]_vars PROVE ConnectionShape'
<1> USE DEF uiVars, linkVars, writerVars, pageVars
<1>1. /\ transport \in Nat /\ transport \in Transports
      /\ characteristic \in [Transports -> Attempts \cup {NoAttempt}]
      /\ \A n \in Attempts : attempts[n].transport \in Transports
      /\ live \subseteq Attempts
  BY DEF TypeOK, Transports
<1>2. ASSUME NEW n \in Attempts, ClickConnect(n) PROVE ConnectionShape'
  <2>1. /\ attempts' = [attempts EXCEPT ![n] = [state |-> "choosing",
                                               transport |-> transport]]
        /\ attempts[n].state = "none"
        /\ UNCHANGED <<connected, transport, characteristic, link, live>>
    BY <1>2 DEF ClickConnect
  <2>2. n \notin live
    BY <2>1 DEF ConnectionShape
  <2>3. \A m \in Over : m \in Over'
    BY <2>1 DEF Over, TypeOK
  <2>4. \A m \in Attempts : attempts'[m].transport <= transport'
    BY <1>1, <2>1 DEF ConnectionShape, TypeOK
  <2>5. \A m \in live : attempts'[m].state = attempts[m].state
    BY <1>1, <2>1, <2>2 DEF TypeOK
  <2> QED
    BY <2>1, <2>3, <2>4, <2>5 DEF ConnectionShape
<1>3. ASSUME NEW n \in Attempts, Linked(n) PROVE ConnectionShape'
  <2>1. \A m \in Over : m \in Over'
    BY <1>3 DEF Linked, Advance, Over, TypeOK
  <2>2. \A m \in Attempts : attempts'[m].transport <= transport'
    BY <1>1, <1>3 DEF Linked, Advance, ConnectionShape, TypeOK
  <2>3. \A m \in live' : attempts'[m].state \notin {"none", "choosing"}
    BY <1>1, <1>3 DEF Linked, Advance, ConnectionShape, TypeOK
  <2> QED
    BY <1>3, <2>1, <2>2, <2>3 DEF Linked, ConnectionShape
<1>4. ASSUME NEW n \in Attempts, Discovered(n) \/ ConnectFails(n)
      PROVE  ConnectionShape'
  <2>1. \A m \in Over : m \in Over'
    BY <1>4 DEF Discovered, ConnectFails, Advance, Over, TypeOK
  <2>2. \A m \in Attempts : attempts'[m].transport <= transport'
    <3>1. \A m \in Attempts : attempts'[m].transport = attempts[m].transport
      <4>1. /\ DOMAIN attempts = Attempts
            /\ \E s : attempts' = [attempts EXCEPT ![n].state = s]
        <5>1. CASE Discovered(n)
          BY <5>1 DEF Discovered, Advance, TypeOK
        <5>2. CASE ConnectFails(n)
          BY <5>2 DEF ConnectFails, Advance, TypeOK
        <5> QED
          BY <1>4, <5>1, <5>2
      <4>2. PICK s : attempts' = [attempts EXCEPT ![n].state = s]
        BY <4>1
      <4> QED
        BY <4>1, <4>2
    <3>2. transport' = transport
      BY <1>4 DEF Discovered, ConnectFails
    <3> QED
      BY <3>1, <3>2 DEF ConnectionShape
  <2>3. \A m \in live' : attempts'[m].state \notin {"none", "choosing"}
    BY <1>1, <1>4
       DEF Discovered, ConnectFails, Advance, ConnectionShape, TypeOK
  <2> QED
    BY <1>4, <2>1, <2>2, <2>3
       DEF Discovered, ConnectFails, Advance, ConnectionShape
<1>5. ASSUME NEW n \in Attempts, FinishConnect(n) PROVE ConnectionShape'
  <2> DEFINE t == attempts[n].transport
  <2>1. /\ attempts' = [attempts EXCEPT ![n].state = "over"]
        /\ characteristic' = [characteristic EXCEPT ![t] = n]
        /\ connected' = TRUE
        /\ UNCHANGED <<transport, link, live>>
    BY <1>5 DEF FinishConnect, Advance
  <2>2. t \in Transports /\ t <= transport
    BY <1>1 DEF ConnectionShape
  <2>3. Over' = Over \cup {n}
    BY <2>1 DEF Over, TypeOK
  <2>4. \A m \in Attempts : attempts'[m].transport <= transport'
    BY <1>1, <2>1 DEF ConnectionShape, TypeOK
  <2>5. \A m \in live' : attempts'[m].state \notin {"none", "choosing"}
    BY <1>1, <2>1 DEF ConnectionShape, TypeOK
  <2>6. \A u \in Transports :
          characteristic'[u] = IF u = t THEN n ELSE characteristic[u]
    BY <1>1, <2>1
  <2> HIDE DEF t
  <2>7. \A u \in Transports :
          u > transport' => characteristic'[u] = NoAttempt
    BY <1>1, <2>1, <2>2, <2>6 DEF ConnectionShape, Transports
  <2> QED
    BY <2>1, <2>3, <2>4, <2>5, <2>6, <2>7 DEF ConnectionShape
<1>6. CASE ConnectMock
  BY <1>6 DEF ConnectMock, ConnectionShape, Over
<1>7. CASE Disconnect
  <2>1. /\ characteristic' = [characteristic EXCEPT ![transport] = NoAttempt]
        /\ UNCHANGED <<transport, attempts>>
        /\ live' = {} \/ UNCHANGED linkVars
    BY <1>7 DEF Disconnect, DisconnectTransport
  <2>2. \A u \in Transports :
          characteristic'[u]
            = IF u = transport THEN NoAttempt ELSE characteristic[u]
    BY <1>1, <2>1
  <2> QED
    BY <1>1, <2>1, <2>2 DEF ConnectionShape, Over
<1>8. CASE ChangeTransportMode
  <2>1. /\ transport < MaxChanges /\ transport' = transport + 1
        /\ UNCHANGED attempts
        /\ live' = {} \/ UNCHANGED linkVars
        /\ \/ characteristic'
                = [characteristic EXCEPT ![transport] = NoAttempt]
           \/ UNCHANGED characteristic
    BY <1>8 DEF ChangeTransportMode, DisconnectTransport
  <2>2. \A u \in Transports : \/ characteristic'[u] = NoAttempt
                               \/ characteristic'[u] = characteristic[u]
    BY <1>1, <2>1
  <2>3. \A u \in Transports : u > transport => characteristic'[u] = NoAttempt
    BY <2>2 DEF ConnectionShape
  <2>4. /\ transport + 1 \in Transports
        /\ \A u \in Transports : /\ u <= transport => u <= transport + 1
                                 /\ u > transport + 1 => u > transport
    BY <1>1, <2>1, OverCounted DEF Transports
  <2>5. characteristic'[transport'] = NoAttempt
    BY <1>1, <2>1, <2>3, <2>4
  <2>6. \A m \in Attempts : attempts'[m].transport <= transport'
    BY <1>1, <2>1, <2>4 DEF ConnectionShape
  <2>7. \A u \in Transports :
          u > transport' => characteristic'[u] = NoAttempt
    BY <2>1, <2>3, <2>4
  <2> QED
    BY <2>1, <2>2, <2>5, <2>6, <2>7 DEF ConnectionShape, Over
<1>9. CASE LinkLost
  BY <1>9 DEF LinkLost, ConnectionShape, Over
<1>10. CASE UNCHANGED <<uiVars, linkVars>>
  BY <1>10 DEF ConnectionShape, Over
<1> QED
  BY <1>2, <1>3, <1>4, <1>5, <1>6, <1>7, <1>8, <1>9, <1>10
     DEF Next, Operator, Connecting, Writing, EditIds, HeartbeatTick,
         SendHeartbeat, SendHeartbeatIfIdle, UserCommand, StartWrite, Deliver,
         WriteResolves, WriteRejects, vars

------------------------------------------------------------------------------
(* The sends.                                                              *)

LEMMA JobsShape ==
  ASSUME TypeOK
  PROVE  /\ jobs \in Seq(Job) /\ Len(jobs) \in Nat
         /\ DOMAIN jobs = 1..Len(jobs)
         /\ \A i \in DOMAIN jobs : i \in Nat /\ jobs[i] \in Job
BY LenProperties, ElementOfSeq DEF TypeOK

\* Where a send stood before the one at i settled.
Before(i, k) == IF k < i THEN k ELSE k + 1

LEMMA Removal ==
  ASSUME TypeOK, NEW i \in DOMAIN jobs, jobs' = RemoveAt(jobs, i)
  PROVE  /\ DOMAIN jobs' = 1..(Len(jobs) - 1)
         /\ \A k \in DOMAIN jobs' : /\ k \in Nat
                                    /\ Before(i, k) \in DOMAIN jobs
                                    /\ jobs'[k] = jobs[Before(i, k)]
         /\ \A k, m \in DOMAIN jobs' : k < m => Before(i, k) < Before(i, m)
<1>1. /\ jobs \in Seq(Job) /\ Len(jobs) \in Nat
      /\ DOMAIN jobs = 1..Len(jobs)
  BY JobsShape
<1>2. /\ DOMAIN jobs' = 1..(Len(jobs) - 1)
      /\ \A k \in 1..(Len(jobs) - 1) :
           jobs'[k] = IF k < i THEN jobs[k] ELSE jobs[k + 1]
  BY <1>1, RemoveAtProperties
<1> QED
  BY <1>1, <1>2 DEF Before

LEMMA Addition ==
  ASSUME TypeOK, Adds
  PROVE  /\ DOMAIN jobs' = DOMAIN jobs \cup {Len(jobs) + 1}
         /\ \A k \in DOMAIN jobs : jobs'[k] = jobs[k] /\ k < Len(jobs) + 1
         /\ jobs'[Len(jobs) + 1].state = "queued"
         /\ jobs'[Len(jobs) + 1].transport = transport
         /\ jobs'[Len(jobs) + 1].characteristic = characteristic[transport]
         /\ jobs'[Len(jobs) + 1].chain = chain
         /\ characteristic[transport] # NoAttempt
<1>1. PICK kind \in UserKinds \cup {"heartbeat"}, seq \in 0..MaxCommands :
        IsConnected(transport) /\ jobs' = Append(jobs, NewJob(kind, seq))
  BY DEF Adds
<1>2. /\ jobs \in Seq(Job) /\ Len(jobs) \in Nat
      /\ DOMAIN jobs = 1..Len(jobs)
  BY JobsShape
<1>3. /\ jobs' \in Seq(Job) /\ Len(jobs') = Len(jobs) + 1
      /\ \A k \in 1..Len(jobs) : jobs'[k] = jobs[k]
      /\ jobs'[Len(jobs) + 1] = NewJob(kind, seq)
  BY <1>1, <1>2, NewJobTyped, AppendProperties
<1>4. DOMAIN jobs' = 1..(Len(jobs) + 1)
  BY <1>3, LenProperties
<1> QED
  BY <1>1, <1>2, <1>3, <1>4 DEF NewJob, IsConnected

\* What can become of the sends in a step, and with it of the rest.
LEMMA SendSteps ==
  ASSUME TypeOK, [Next]_vars
  PROVE  \/ jobs' = jobs /\ lastDelivered' = lastDelivered
         \/ /\ Adds \/ Removes \/ Changes
            /\ UNCHANGED <<uiVars, linkVars, chain>>
<1> USE DEF uiVars, linkVars, writerVars, pageVars
<1>1. ASSUME NEW n \in Attempts,
             \/ ClickConnect(n) \/ Linked(n) \/ Discovered(n)
             \/ ConnectFails(n) \/ FinishConnect(n)
      PROVE  jobs' = jobs /\ lastDelivered' = lastDelivered
  BY <1>1 DEF ClickConnect, Linked, Discovered, ConnectFails, FinishConnect
<1>2. CASE ConnectMock \/ Disconnect \/ ChangeTransportMode \/ LinkLost
  BY <1>2 DEF ConnectMock, Disconnect, ChangeTransportMode, LinkLost
<1>3. CASE EditIds \/ HeartbeatTick
  BY <1>3, LinkAssumption
     DEF EditIds, HeartbeatTick, SendHeartbeat, SendHeartbeatIfIdle, Adds
<1>4. ASSUME NEW kind \in UserKinds, UserCommand(kind)
      PROVE  \/ jobs' = jobs /\ lastDelivered' = lastDelivered
             \/ Adds /\ UNCHANGED <<uiVars, linkVars, chain>>
  <2>1. sent' \in 0..MaxCommands
    BY <1>4, LinkAssumption DEF UserCommand, TypeOK
  <2> QED
    BY <1>4, <2>1 DEF UserCommand, Adds
<1>5. CASE Writing
  BY <1>5 DEF Writing, StartWrite, Deliver, WriteResolves, WriteRejects,
              Settle, Removes, Changes
<1>6. CASE UNCHANGED vars
  BY <1>6 DEF vars
<1> QED
  BY <1>1, <1>2, <1>3, <1>4, <1>5, <1>6 DEF Next, Operator, Connecting

\* An attempt that is over stays over.
LEMMA OverStaysOver ==
  ASSUME TypeOK, [Next]_vars PROVE Over \subseteq Over'
<1> USE DEF Over, TypeOK, uiVars
<1>1. ASSUME NEW n \in Attempts,
             \/ ClickConnect(n) \/ Linked(n) \/ Discovered(n)
             \/ ConnectFails(n) \/ FinishConnect(n)
      PROVE  Over \subseteq Over'
  <2>1. ASSUME NEW from, from # "over", NEW to, Advance(n, from, to)
        PROVE  Over \subseteq Over'
    BY <2>1 DEF Advance
  <2>2. CASE ClickConnect(n) \/ ConnectFails(n)
    BY <2>2 DEF ClickConnect, ConnectFails
  <2>3. CASE Linked(n) \/ Discovered(n) \/ FinishConnect(n)
    BY <2>1, <2>3 DEF Linked, Discovered, FinishConnect
  <2> QED
    BY <1>1, <2>2, <2>3
<1>2. CASE UNCHANGED attempts
  BY <1>2
<1> QED
  BY <1>1, <1>2
     DEF Next, Operator, Connecting, Writing, ConnectMock, Disconnect,
         ChangeTransportMode, LinkLost, EditIds, HeartbeatTick,
         SendHeartbeat, SendHeartbeatIfIdle, UserCommand, StartWrite, Deliver,
         WriteResolves, WriteRejects, vars

\* A step that leaves the sends alone revives none of them, and resets only
\* when none of them can reach the rover any more.
LEMMA LiveKept ==
  ASSUME TypeOK, ConnectionShape, LiveAreCurrent, [Next]_vars, jobs' = jobs,
         NEW i \in DOMAIN jobs, IsLive(i)'
  PROVE  /\ IsLive(i)
         /\ UNCHANGED <<chain, transport>>
         /\ characteristic'[transport] # NoAttempt
<1> USE DEF uiVars, linkVars, writerVars, pageVars, IsLive
<1>1. /\ jobs[i].characteristic \in Over /\ jobs[i] \in Job
      /\ IsLive(i) => characteristic[transport] # NoAttempt /\ connected
  BY JobsShape DEF LiveAreCurrent, ConnectionShape
<1>2. CASE /\ UNCHANGED <<chain, transport, live>>
           /\ characteristic'[transport] = characteristic[transport]
  BY <1>1, <1>2
<1>3. ASSUME NEW n \in Attempts, Linked(n)
      PROVE  UNCHANGED <<chain, transport, characteristic>> /\ IsLive(i)
  BY <1>1, <1>3 DEF Linked, Advance, Over
<1>4. ASSUME NEW n \in Attempts, FinishConnect(n)
      PROVE  /\ UNCHANGED <<chain, transport, live>>
             /\ \/ characteristic'[transport] = characteristic[transport]
                \/ characteristic'[transport] = n
  BY <1>4 DEF FinishConnect, TypeOK
<1>5. NoAttempt \notin Attempts
  BY LinkAssumption DEF NoAttempt, Attempts
<1>6. CASE Disconnect \/ ChangeTransportMode \/ LinkLost
  <2>1. \/ live' = {}
        \/ live' = live /\ characteristic[transport] = NoAttempt
        \/ live' = live /\ ChangeTransportMode /\ ~connected
    BY <1>6 DEF Disconnect, ChangeTransportMode, LinkLost, DisconnectTransport
  <2> QED
    BY <1>1, <2>1
<1> QED
  BY <1>1, <1>2, <1>3, <1>4, <1>5, <1>6
     DEF Next, Operator, Connecting, Writing, ClickConnect, ConnectMock,
         Discovered, ConnectFails, EditIds, HeartbeatTick,
         SendHeartbeat, SendHeartbeatIfIdle, UserCommand, StartWrite, Deliver,
         WriteResolves, WriteRejects, vars

LEMMA LiveStep ==
  ASSUME TypeOK, ConnectionShape, LiveAreCurrent, [Next]_vars
  PROVE  LiveAreCurrent'
<1>1. Over \subseteq Over'
  BY OverStaysOver
<1>2. CASE jobs' = jobs
  <2>1. ASSUME NEW i \in DOMAIN jobs PROVE jobs[i].characteristic \in Over'
    BY <1>1 DEF LiveAreCurrent
  <2>2. ASSUME NEW i \in DOMAIN jobs, IsLive(i)'
        PROVE  /\ jobs[i].chain = chain'
               /\ jobs[i].transport = transport'
               /\ characteristic'[transport'] # NoAttempt
    <3>1. /\ IsLive(i)
          /\ UNCHANGED <<chain, transport>>
          /\ characteristic'[transport] # NoAttempt
      BY <1>2, <2>2, LiveKept
    <3> QED
      BY <3>1 DEF LiveAreCurrent
  <2> QED
    BY <1>2, <2>1, <2>2 DEF LiveAreCurrent
<1>3. ASSUME UNCHANGED <<uiVars, linkVars, chain>>,
             \A k \in DOMAIN jobs' : \E m \in DOMAIN jobs :
               /\ jobs'[k].characteristic = jobs[m].characteristic
               /\ jobs'[k].chain = jobs[m].chain
               /\ jobs'[k].transport = jobs[m].transport
      PROVE  LiveAreCurrent'
  BY <1>1, <1>3 DEF LiveAreCurrent, IsLive, uiVars, linkVars
<1>4. CASE Adds /\ UNCHANGED <<uiVars, linkVars, chain>>
  <2>1. characteristic[transport] \in Over'
    BY <1>1, <1>4, Addition DEF ConnectionShape, TypeOK
  <2>2. ASSUME NEW i \in DOMAIN jobs'
        PROVE  /\ jobs'[i].characteristic \in Over'
               /\ IsLive(i)' => /\ jobs'[i].chain = chain
                                /\ jobs'[i].transport = transport
                                /\ characteristic[transport] # NoAttempt
    <3>1. CASE i \in DOMAIN jobs
      <4>1. jobs'[i] = jobs[i]
        BY <1>4, <3>1, Addition
      <4> QED
        BY <1>1, <1>4, <3>1, <4>1 DEF LiveAreCurrent, IsLive, linkVars
    <3>2. CASE i = Len(jobs) + 1
      BY <1>4, <2>1, <3>2, Addition
    <3> QED
      BY <1>4, <3>1, <3>2, Addition
  <2> QED
    BY <1>4, <2>2 DEF LiveAreCurrent, uiVars
<1>5. CASE Removes /\ UNCHANGED <<uiVars, linkVars, chain>>
  <2>1. PICK i \in DOMAIN jobs : jobs' = RemoveAt(jobs, i)
    BY <1>5 DEF Removes
  <2>2. \A k \in DOMAIN jobs' : /\ Before(i, k) \in DOMAIN jobs
                                /\ jobs'[k] = jobs[Before(i, k)]
    BY <2>1, Removal
  <2> QED
    BY <1>3, <1>5, <2>2
<1>6. CASE Changes /\ UNCHANGED <<uiVars, linkVars, chain>>
  BY <1>3, <1>6, StateChange, JobsShape DEF Changes
<1> QED
  BY <1>2, <1>4, <1>5, <1>6, SendSteps

LEMMA WhoTouchesTheSends ==
  ASSUME TypeOK, [Next]_vars PROVE jobs' = jobs \/ Adds \/ Writing
<1>1. ASSUME NEW kind \in UserKinds, UserCommand(kind)
      PROVE  jobs' = jobs \/ Adds
  <2>1. sent' \in 0..MaxCommands
    BY <1>1, LinkAssumption DEF UserCommand, TypeOK
  <2> QED
    BY <1>1, <2>1 DEF UserCommand, Adds
<1>2. CASE EditIds \/ HeartbeatTick
  BY <1>2, LinkAssumption
     DEF EditIds, HeartbeatTick, SendHeartbeat, SendHeartbeatIfIdle, Adds
<1> QED
  BY <1>1, <1>2
     DEF Next, Operator, Connecting, ClickConnect, ConnectMock, Linked,
         Discovered, ConnectFails, FinishConnect, Disconnect,
         ChangeTransportMode, LinkLost, writerVars, vars

LEMMA FirstStep ==
  ASSUME TypeOK, OnlyTheFirstWrites, [Next]_vars PROVE OnlyTheFirstWrites'
<1>1. CASE jobs' = jobs
  BY <1>1 DEF OnlyTheFirstWrites, FirstOfItsChain
<1>2. CASE Adds
  <2>1. ASSUME NEW i \in DOMAIN jobs', jobs'[i].state # "queued",
               NEW k \in 1..(i - 1)
        PROVE  jobs'[k].chain # jobs'[i].chain
    <3>1. i \in DOMAIN jobs /\ jobs'[i] = jobs[i]
      BY <1>2, <2>1, Addition
    <3>2. k \in DOMAIN jobs /\ jobs'[k] = jobs[k]
      BY <1>2, <2>1, <3>1, Addition, JobsShape
    <3> QED
      BY <2>1, <3>1, <3>2 DEF OnlyTheFirstWrites, FirstOfItsChain
  <2> QED
    BY <2>1 DEF OnlyTheFirstWrites, FirstOfItsChain
<1>3. ASSUME NEW i \in DOMAIN jobs, jobs' = RemoveAt(jobs, i)
      PROVE  OnlyTheFirstWrites'
  <2>1. ASSUME NEW m \in DOMAIN jobs', jobs'[m].state # "queued",
               NEW k \in 1..(m - 1)
        PROVE  jobs'[k].chain # jobs'[m].chain
    <3>1. /\ k \in DOMAIN jobs' /\ k < m
          /\ Before(i, m) \in Nat /\ Before(i, k) \in Nat \ {0}
      BY <1>3, <2>1, Removal, JobsShape
    <3>2. /\ Before(i, m) \in DOMAIN jobs /\ jobs'[m] = jobs[Before(i, m)]
          /\ jobs'[k] = jobs[Before(i, k)]
          /\ Before(i, k) < Before(i, m)
      BY <1>3, <2>1, <3>1, Removal
    <3>3. Before(i, k) \in 1..(Before(i, m) - 1)
      BY <3>1, <3>2
    <3> QED
      BY <2>1, <3>2, <3>3 DEF OnlyTheFirstWrites, FirstOfItsChain
  <2> QED
    BY <2>1 DEF OnlyTheFirstWrites, FirstOfItsChain
\* A send that starts is the first of its chain; one that has arrived was.
<1>4. ASSUME NEW i \in DOMAIN jobs, NEW to \in {"writing", "written"},
             jobs' = [jobs EXCEPT ![i].state = to], FirstOfItsChain(i)
      PROVE  OnlyTheFirstWrites'
  <2>1. /\ DOMAIN jobs' = DOMAIN jobs
        /\ \A k \in DOMAIN jobs :
             /\ jobs'[k].chain = jobs[k].chain
             /\ k # i => jobs'[k].state = jobs[k].state
    BY <1>4, StateChange, JobsShape
  <2>2. ASSUME NEW m \in DOMAIN jobs', jobs'[m].state # "queued",
               NEW k \in 1..(m - 1)
        PROVE  jobs'[k].chain # jobs'[m].chain
    <3>1. m \in DOMAIN jobs /\ k \in DOMAIN jobs
      BY <2>1, <2>2, JobsShape
    <3>2. FirstOfItsChain(m)
      BY <1>4, <2>1, <2>2, <3>1 DEF OnlyTheFirstWrites
    <3> QED
      BY <2>1, <2>2, <3>1, <3>2 DEF FirstOfItsChain
  <2> QED
    BY <2>2 DEF OnlyTheFirstWrites, FirstOfItsChain
<1>5. CASE Writing
  <2>1. PICK i \in DOMAIN jobs :
          StartWrite(i) \/ Deliver(i) \/ WriteResolves(i) \/ WriteRejects(i)
    BY <1>5 DEF Writing
  <2>2. CASE StartWrite(i)
    BY <1>3, <1>4, <2>2 DEF StartWrite, CanStart, Settle
  <2>3. CASE Deliver(i)
    BY <1>4, <2>3 DEF Deliver, OnlyTheFirstWrites
  <2>4. CASE WriteResolves(i) \/ WriteRejects(i)
    BY <1>3, <2>4 DEF WriteResolves, WriteRejects, Settle
  <2> QED
    BY <2>1, <2>2, <2>3, <2>4
<1>6. jobs' = jobs \/ Adds \/ Writing
  BY WhoTouchesTheSends
<1> QED
  BY <1>1, <1>2, <1>5, <1>6

\* What a heartbeat, or a command, adds to the order.
LEMMA HeartbeatAdded ==
  ASSUME TypeOK, InOrder, IsConnected(transport),
         jobs' = Append(jobs, NewJob("heartbeat", 0)),
         UNCHANGED <<live, sent, lastDelivered>>
  PROVE  InOrder'
<1>1. /\ jobs \in Seq(Job) /\ Len(jobs) \in Nat
      /\ DOMAIN jobs = 1..Len(jobs)
  BY JobsShape
<1>2. NewJob("heartbeat", 0) \in Job
  BY NewJobTyped, LinkAssumption
<1>3. /\ DOMAIN jobs' = 1..(Len(jobs) + 1)
      /\ \A i \in 1..Len(jobs) : jobs'[i] = jobs[i]
      /\ jobs'[Len(jobs) + 1] = NewJob("heartbeat", 0)
  BY <1>1, <1>2, AppendProperties, LenProperties
<1>4. /\ \A i \in DOMAIN jobs' : i \in DOMAIN jobs \/ i = Len(jobs) + 1
      /\ jobs'[Len(jobs) + 1].kind = "heartbeat"
      /\ jobs'[Len(jobs) + 1].seq = 0
  BY <1>1, <1>3 DEF NewJob
<1>5. \A i \in DOMAIN jobs : jobs'[i] = jobs[i]
  BY <1>1, <1>3
<1> QED
  BY <1>4, <1>5 DEF InOrder, IsUser, IsLive

LEMMA CommandAdded ==
  ASSUME TypeOK, InOrder, IsConnected(transport), NEW kind \in UserKinds,
         sent < MaxCommands, sent' = sent + 1,
         jobs' = Append(jobs, NewJob(kind, sent')),
         UNCHANGED <<live, lastDelivered>>
  PROVE  InOrder'
<1>1. /\ jobs \in Seq(Job) /\ Len(jobs) \in Nat
      /\ DOMAIN jobs = 1..Len(jobs)
      /\ sent \in Nat /\ lastDelivered \in Nat
      /\ \A i \in DOMAIN jobs : jobs[i].seq \in Nat
  BY JobsShape, LinkAssumption DEF TypeOK, Job
<1>2. NewJob(kind, sent') \in Job
  <2>1. sent' \in 0..MaxCommands
    BY <1>1, LinkAssumption
  <2> QED
    BY <2>1, NewJobTyped
<1>3. /\ DOMAIN jobs' = 1..(Len(jobs) + 1)
      /\ \A i \in 1..Len(jobs) : jobs'[i] = jobs[i]
      /\ jobs'[Len(jobs) + 1] = NewJob(kind, sent')
  BY <1>1, <1>2, AppendProperties, LenProperties
<1>4. /\ \A i \in DOMAIN jobs' : i \in DOMAIN jobs \/ i = Len(jobs) + 1
      /\ \A i, j \in DOMAIN jobs' : i < j => i \in DOMAIN jobs
  BY <1>1, <1>3
<1>5. /\ jobs'[Len(jobs) + 1].kind # "heartbeat"
      /\ jobs'[Len(jobs) + 1].seq = sent + 1
  <2>1. kind # "heartbeat"
    BY LinkAssumption
  <2> QED
    BY <1>3, <2>1 DEF NewJob
<1>6. \A i \in DOMAIN jobs : /\ jobs'[i] = jobs[i]
                             /\ IsUser(i)' <=> IsUser(i)
                             /\ IsLive(i)' <=> IsLive(i)
  BY <1>1, <1>3 DEF IsUser, IsLive
<1>7. \A i \in DOMAIN jobs : /\ IsUser(i) => jobs[i].seq \in 1..sent
                             /\ ~IsUser(i) => jobs[i].seq = 0
  BY DEF InOrder
<1>8. ASSUME NEW i \in DOMAIN jobs'
      PROVE  jobs'[i].seq \in IF IsUser(i)' THEN 1..sent' ELSE {0}
  <2>1. CASE i \in DOMAIN jobs
    <3>1. 1..sent \subseteq 1..sent'
      BY <1>1
    <3> QED
      BY <1>6, <1>7, <2>1, <3>1
  <2>2. CASE i = Len(jobs) + 1
    <3>1. sent + 1 \in 1..sent' /\ IsUser(i)'
      BY <1>1, <1>5, <2>2 DEF IsUser
    <3> QED
      BY <1>5, <2>2, <3>1
  <2> QED
    BY <1>4, <2>1, <2>2
<1>9. ASSUME NEW i \in DOMAIN jobs', NEW j \in DOMAIN jobs',
             i < j, IsUser(i)', IsUser(j)'
      PROVE  jobs'[i].seq < jobs'[j].seq
  <2>1. i \in DOMAIN jobs
    BY <1>4, <1>9
  <2>2. CASE j \in DOMAIN jobs
    BY <1>6, <1>9, <2>1, <2>2 DEF InOrder
  <2>3. CASE j = Len(jobs) + 1
    <3>1. jobs[i].seq \in 1..sent
      BY <1>6, <1>7, <1>9, <2>1
    <3> QED
      BY <1>1, <1>5, <1>6, <2>1, <2>3, <3>1
  <2> QED
    BY <1>4, <2>2, <2>3
<1>10. /\ lastDelivered' <= sent'
       /\ sent + 1 > lastDelivered
  BY <1>1 DEF InOrder
<1>11. ASSUME NEW i \in DOMAIN jobs', IsLive(i)', IsUser(i)',
              jobs'[i].state # "written"
       PROVE  jobs'[i].seq > lastDelivered'
  <2>1. CASE i \in DOMAIN jobs
    BY <1>6, <1>11, <2>1 DEF InOrder
  <2>2. CASE i = Len(jobs) + 1
    BY <1>5, <1>10, <2>2
  <2> QED
    BY <1>4, <2>1, <2>2
<1> QED
  BY <1>8, <1>9, <1>10, <1>11 DEF InOrder

LEMMA OrderStep ==
  ASSUME LinkInv, [Next]_vars PROVE InOrder'
<1> USE DEF linkVars, writerVars
<1>1. TypeOK /\ InOrder
  BY DEF LinkInv
<1>2. /\ sent \in Nat /\ lastDelivered \in Nat
      /\ \A i \in DOMAIN jobs : i \in Nat /\ jobs[i].seq \in Nat
  BY <1>1, JobsShape, LinkAssumption DEF TypeOK, Job
<1>3. ASSUME jobs' = jobs, lastDelivered' = lastDelivered,
             sent' \in {sent, sent + 1}
      PROVE  InOrder'
  <2>1. \A i \in DOMAIN jobs : IsLive(i)' => IsLive(i)
    BY <1>3, LiveKept DEF LinkInv
  <2>2. lastDelivered' <= sent' /\ 1..sent \subseteq 1..sent'
    BY <1>1, <1>2, <1>3 DEF InOrder
  <2> QED
    BY <1>1, <1>3, <2>1, <2>2 DEF InOrder, IsUser
<1>4. ASSUME NEW kind \in UserKinds, UserCommand(kind) PROVE InOrder'
  BY <1>1, <1>3, <1>4, CommandAdded DEF UserCommand
<1>5. CASE EditIds \/ HeartbeatTick
  BY <1>1, <1>3, <1>5, HeartbeatAdded
     DEF EditIds, HeartbeatTick, SendHeartbeat, SendHeartbeatIfIdle
<1>6. ASSUME NEW i \in DOMAIN jobs, jobs' = RemoveAt(jobs, i),
             UNCHANGED <<live, sent, lastDelivered>>
      PROVE  InOrder'
  <2>1. /\ \A k \in DOMAIN jobs' : /\ Before(i, k) \in DOMAIN jobs
                                   /\ jobs'[k] = jobs[Before(i, k)]
        /\ \A k, m \in DOMAIN jobs' : k < m => Before(i, k) < Before(i, m)
    BY <1>1, <1>6, Removal
  <2>2. \A k \in DOMAIN jobs' : /\ IsUser(k)' <=> IsUser(Before(i, k))
                                /\ IsLive(k)' <=> IsLive(Before(i, k))
    BY <1>6, <2>1 DEF IsUser, IsLive
  <2> QED
    BY <1>1, <1>6, <2>1, <2>2 DEF InOrder
<1>7. ASSUME NEW i \in DOMAIN jobs, StartWrite(i) PROVE InOrder'
  <2>1. UNCHANGED <<live, sent, lastDelivered>>
    BY <1>7 DEF StartWrite
  <2>2. CASE jobs' = RemoveAt(jobs, i)
    BY <1>6, <2>1, <2>2
  <2>3. CASE jobs' = [jobs EXCEPT ![i].state = "writing"]
    <3>1. /\ DOMAIN jobs' = DOMAIN jobs
          /\ \A k \in DOMAIN jobs : /\ jobs'[k].seq = jobs[k].seq
                                    /\ IsUser(k)' <=> IsUser(k)
                                    /\ IsLive(k)' <=> IsLive(k)
                                    /\ k # i => jobs'[k].state = jobs[k].state
      BY <1>1, <2>1, <2>3, StateChange, JobsShape DEF IsUser, IsLive
    <3>2. jobs[i].state # "written"
      BY <1>7 DEF StartWrite, CanStart
    <3>3. \A k \in DOMAIN jobs : /\ IsLive(k) /\ IsUser(k)
                                 /\ jobs'[k].state # "written"
                                => jobs[k].seq > lastDelivered
      BY <1>1, <3>1, <3>2 DEF InOrder
    <3> QED
      BY <1>1, <2>1, <3>1, <3>3 DEF InOrder
  <2> QED
    BY <1>7, <2>2, <2>3 DEF StartWrite, Settle
\* The sends that may still arrive stand behind the one that does.
<1>8. ASSUME NEW i \in DOMAIN jobs, Deliver(i) PROVE InOrder'
  <2>1. /\ jobs[i].state = "writing" /\ IsLive(i)
        /\ jobs' = [jobs EXCEPT ![i].state = "written"]
        /\ UNCHANGED <<live, sent>>
        /\ lastDelivered' = IF IsUser(i) THEN jobs[i].seq ELSE lastDelivered
    BY <1>8 DEF Deliver, IsLive, IsUser
  <2>2. /\ DOMAIN jobs' = DOMAIN jobs
        /\ \A k \in DOMAIN jobs : /\ jobs'[k].seq = jobs[k].seq
                                  /\ IsUser(k)' <=> IsUser(k)
                                  /\ IsLive(k)' <=> IsLive(k)
                                  /\ jobs'[k].state
                                      = IF k = i THEN "written"
                                        ELSE jobs[k].state
    BY <1>1, <2>1, StateChange, JobsShape DEF IsUser, IsLive
  <2>3. ASSUME NEW k \in DOMAIN jobs, IsLive(k), k # i PROVE i < k
    <3>1. jobs[k].chain = jobs[i].chain
      BY <2>1, <2>3 DEF LinkInv, LiveAreCurrent
    <3>2. FirstOfItsChain(i)
      BY <2>1 DEF LinkInv, OnlyTheFirstWrites
    <3>3. k \notin 1..(i - 1)
      BY <3>1, <3>2 DEF FirstOfItsChain
    <3> QED
      BY <1>1, <2>3, <3>3, JobsShape
  <2>4. ASSUME NEW k \in DOMAIN jobs, IsLive(k), IsUser(k),
               jobs'[k].state # "written"
        PROVE  jobs[k].seq > lastDelivered'
    <3>1. k # i /\ jobs[k].state # "written"
      BY <2>2, <2>4
    <3>2. CASE IsUser(i)
      BY <1>1, <1>2, <2>1, <2>3, <2>4, <3>1, <3>2 DEF InOrder
    <3>3. CASE ~IsUser(i)
      BY <1>1, <2>1, <2>4, <3>1, <3>3 DEF InOrder
    <3> QED
      BY <3>2, <3>3
  <2>5. lastDelivered' <= sent'
    BY <1>1, <1>2, <2>1 DEF InOrder
  <2> QED
    BY <1>1, <2>1, <2>2, <2>4, <2>5 DEF InOrder
<1>9. ASSUME NEW i \in DOMAIN jobs, WriteResolves(i) \/ WriteRejects(i)
      PROVE  InOrder'
  BY <1>6, <1>9 DEF WriteResolves, WriteRejects, Settle
<1>10. ASSUME NEW n \in Attempts,
              \/ ClickConnect(n) \/ Linked(n) \/ Discovered(n)
              \/ ConnectFails(n) \/ FinishConnect(n)
       PROVE  InOrder'
  BY <1>3, <1>10 DEF ClickConnect, Linked, Discovered, ConnectFails,
                     FinishConnect
<1>11. CASE \/ ConnectMock \/ Disconnect \/ ChangeTransportMode \/ LinkLost
            \/ UNCHANGED vars
  BY <1>3, <1>11 DEF ConnectMock, Disconnect, ChangeTransportMode, LinkLost,
                     vars
<1> QED
  BY <1>4, <1>5, <1>7, <1>8, <1>9, <1>10, <1>11
     DEF Next, Operator, Connecting, Writing

------------------------------------------------------------------------------
(* The theorems.                                                           *)

LEMMA LinkInvInit == Init => LinkInv
<1> SUFFICES ASSUME Init PROVE LinkInv
  OBVIOUS
<1> USE LinkAssumption DEF Init
<1>1. TypeOK
  <2>1. jobs \in Seq(Job)
    BY EmptySeq
  <2>2. 0 \in Transports /\ 0 \in Chains /\ 0 \in 0..MaxCommands
    BY DEF Transports, Chains
  <2> QED
    BY <2>1, <2>2 DEF TypeOK, Progress
<1>2. ChainsCounted
  BY <1>1, OverCounted DEF ChainsCounted, OpenChain
<1>3. ConnectionShape
  BY DEF ConnectionShape, Transports, NoAttempt
<1>4. LiveAreCurrent /\ OnlyTheFirstWrites /\ InOrder
  BY DEF LiveAreCurrent, OnlyTheFirstWrites, InOrder
<1> QED
  BY <1>1, <1>2, <1>3, <1>4 DEF LinkInv

\* What keeps the writes apart, on any run of the app.
THEOREM LinkInvariant == SafeSpec => []LinkInv
<1>1. LinkInv /\ [Next]_vars => LinkInv'
  BY TypeStep, ChainsStep, ConnectionStep, LiveStep, FirstStep, OrderStep
     DEF LinkInv
<1> QED
  BY <1>1, LinkInvInit, PTL DEF SafeSpec

\* Every variable keeps its type; in particular there is a number for every
\* chain that disconnect() and the change of transport start.
THEOREM LinkTypeCorrect == SafeSpec => []TypeOK
<1>1. LinkInv => TypeOK
  BY DEF LinkInv
<1> QED
  BY <1>1, LinkInvariant, PTL

\* The rover never sees two writes at once: those that can reach it belong
\* to the present chain, and only the first of a chain is ever written.
THEOREM WritesOneByOne == SafeSpec => []OneWriteAtATime
<1>1. ASSUME LinkInv PROVE OneWriteAtATime
  <2> DEFINE W == {i \in DOMAIN jobs : /\ jobs[i].state # "queued"
                                      /\ jobs[i].characteristic \in live}
  <2>1. ASSUME NEW i \in W, NEW j \in W PROVE i = j
    <3>1. jobs[i].chain = jobs[j].chain
      BY <1>1 DEF LinkInv, LiveAreCurrent, IsLive
    <3>2. FirstOfItsChain(i) /\ FirstOfItsChain(j)
      BY <1>1 DEF LinkInv, OnlyTheFirstWrites
    <3>3. /\ i \in Nat \ {0} /\ j \in Nat \ {0}
      BY <1>1, JobsShape DEF LinkInv
    <3>4. i \notin 1..(j - 1) /\ j \notin 1..(i - 1)
      BY <3>1, <3>2 DEF FirstOfItsChain
    <3> QED
      BY <3>3, <3>4
  <2>2. CASE W = {}
    BY <2>2, FS_EmptySet DEF OneWriteAtATime
  <2>3. ASSUME NEW i \in W PROVE OneWriteAtATime
    <3>1. W = {i}
      BY <2>1
    <3>2. Cardinality(W) = 1
      BY <3>1, FS_Singleton
    <3> QED
      BY <3>2 DEF OneWriteAtATime
  <2> QED
    BY <2>2, <2>3
<1> QED
  BY <1>1, LinkInvariant, PTL

\* The commands arrive in the order of the clicks.
THEOREM ArrivalsInOrder == SafeSpec => CommandsArriveInOrder
<1>1. ASSUME LinkInv, [Next]_vars
      PROVE  lastDelivered' # lastDelivered => lastDelivered' > lastDelivered
  <2>1. ASSUME NEW i \in DOMAIN jobs, Deliver(i), IsUser(i)
        PROVE  lastDelivered' > lastDelivered
    <3>1. jobs[i].seq > lastDelivered
      BY <1>1, <2>1 DEF LinkInv, InOrder, Deliver, IsLive
    <3> QED
      BY <2>1, <3>1 DEF Deliver, IsUser
  <2>2. ASSUME NEW i \in DOMAIN jobs, Deliver(i), ~IsUser(i)
        PROVE  lastDelivered' = lastDelivered
    BY <2>2 DEF Deliver, IsUser
  <2>3. \/ lastDelivered' = lastDelivered
        \/ \E i \in DOMAIN jobs : Deliver(i)
    BY <1>1 DEF Next, Operator, Connecting, Writing, ClickConnect,
                ConnectMock, Linked, Discovered, ConnectFails, FinishConnect,
                Disconnect, ChangeTransportMode, LinkLost, EditIds,
                HeartbeatTick, SendHeartbeat, SendHeartbeatIfIdle, UserCommand,
                StartWrite, WriteResolves, WriteRejects, vars
  <2> QED
    BY <2>1, <2>2, <2>3
<1> QED
  BY <1>1, LinkInvariant, PTL DEF SafeSpec, CommandsArriveInOrder

\* After a disconnect or a change of transport, nothing sent before arrives.
THEOREM DisconnectIsFinal == SafeSpec => NothingArrivesAfterDisconnect
<1>1. ASSUME LinkInv, [Next]_vars
      PROVE  \A i \in DOMAIN jobs :
               jobs[i].state = "writing" /\ Len(jobs') = Len(jobs)
                 /\ jobs'[i].state = "written" => jobs[i].chain = chain
  <2> SUFFICES ASSUME NEW i \in DOMAIN jobs, jobs[i].state = "writing",
                      Len(jobs') = Len(jobs), jobs'[i].state = "written"
               PROVE  jobs[i].chain = chain
    OBVIOUS
  <2>1. TypeOK
    BY <1>1 DEF LinkInv
  <2>2. /\ jobs \in Seq(Job) /\ Len(jobs) \in Nat /\ i \in 1..Len(jobs)
    BY <2>1, JobsShape
  <2>3. jobs' # jobs
    BY <1>1
  <2>4. ~Adds
    <3> SUFFICES ASSUME Adds PROVE FALSE
      OBVIOUS
    <3>1. jobs'[i] = jobs[i]
      BY <2>1, Addition
    <3> QED
      BY <1>1, <3>1
  <2>5. ASSUME NEW k \in DOMAIN jobs, jobs' = RemoveAt(jobs, k) PROVE FALSE
    BY <1>1, <2>2, <2>5, RemoveAtProperties
  <2>6. Writing
    BY <1>1, <2>1, <2>3, <2>4, WhoTouchesTheSends
  <2>7. PICK k \in DOMAIN jobs :
          StartWrite(k) \/ Deliver(k) \/ WriteResolves(k) \/ WriteRejects(k)
    BY <2>6 DEF Writing
  <2>8. CASE Deliver(k)
    <3>1. i = k
      BY <1>1, <2>2, <2>8, StateChange DEF Deliver
    <3> QED
      BY <1>1, <2>8, <3>1 DEF Deliver, LinkInv, LiveAreCurrent, IsLive
  <2>9. CASE StartWrite(k)
    <3>1. jobs' = [jobs EXCEPT ![k].state = "writing"]
      BY <2>5, <2>9 DEF StartWrite, Settle
    <3> QED
      BY <1>1, <2>2, <3>1, StateChange
  <2> QED
    BY <2>5, <2>7, <2>8, <2>9 DEF WriteResolves, WriteRejects, Settle
<1> QED
  BY <1>1, LinkInvariant, PTL DEF SafeSpec, NothingArrivesAfterDisconnect

\* A command gives up untried only when its connection is gone.
THEOREM FailuresStayAlone == SafeSpec => QueuedFailOnlyWithTheirLink
<1>1. ASSUME LinkInv, [Next]_vars
      PROVE  \A i \in DOMAIN jobs :
               /\ jobs[i].state = "queued" /\ jobs[i].kind # "heartbeat"
               /\ ~\E k \in DOMAIN jobs' : jobs'[k].seq = jobs[i].seq
               => ~link \/ characteristic[jobs[i].transport]
                             # jobs[i].characteristic
  <2> SUFFICES ASSUME NEW i \in DOMAIN jobs, jobs[i].state = "queued",
                      ~\E k \in DOMAIN jobs' : jobs'[k].seq = jobs[i].seq
               PROVE  ~link \/ characteristic[jobs[i].transport]
                                 # jobs[i].characteristic
    OBVIOUS
  <2>1. TypeOK
    BY <1>1 DEF LinkInv
  <2>2. /\ jobs \in Seq(Job) /\ Len(jobs) \in Nat /\ i \in 1..Len(jobs)
        /\ DOMAIN jobs = 1..Len(jobs)
    BY <2>1, JobsShape
  <2>3. jobs' # jobs
    OBVIOUS
  <2>4. ~Adds
    BY <2>1, Addition
  <2>5. \A k \in DOMAIN jobs, to \in {"writing", "written"} :
          jobs' # [jobs EXCEPT ![k].state = to]
    BY <2>2, StateChange
  \* The others stay when one settles.
  <2>6. ASSUME NEW k \in DOMAIN jobs, jobs' = RemoveAt(jobs, k)
        PROVE  k = i
    <3> SUFFICES ASSUME k # i PROVE FALSE
      OBVIOUS
    <3>1. /\ DOMAIN jobs' = 1..(Len(jobs) - 1)
          /\ \A m \in 1..(Len(jobs) - 1) :
               jobs'[m] = IF m < k THEN jobs[m] ELSE jobs[m + 1]
      BY <2>2, <2>6, RemoveAtProperties
    <3>2. CASE i < k
      BY <2>2, <3>1, <3>2
    <3>3. CASE i > k
      <4>1. i - 1 \in 1..(Len(jobs) - 1) /\ ~(i - 1 < k) /\ (i - 1) + 1 = i
        BY <2>2, <3>3
      <4> QED
        BY <3>1, <4>1
    <3> QED
      BY <2>2, <3>2, <3>3
  <2>7. PICK k \in DOMAIN jobs :
          StartWrite(k) \/ Deliver(k) \/ WriteResolves(k) \/ WriteRejects(k)
    BY <1>1, <2>1, <2>3, <2>4, WhoTouchesTheSends DEF Writing
  <2>8. CASE StartWrite(k)
    <3>1. jobs' = RemoveAt(jobs, k)
          /\ ~(/\ IsConnected(jobs[k].transport)
               /\ characteristic[jobs[k].transport] = jobs[k].characteristic)
      BY <2>5, <2>8 DEF StartWrite, Settle
    <3>2. jobs[k].characteristic # NoAttempt
      BY <2>1, JobsShape, LinkAssumption DEF Job, Attempts, NoAttempt
    <3> QED
      BY <2>6, <3>1, <3>2 DEF IsConnected
  <2>9. CASE Deliver(k)
    BY <2>5, <2>9 DEF Deliver
  <2>10. CASE WriteResolves(k) \/ WriteRejects(k)
    BY <2>6, <2>10 DEF WriteResolves, WriteRejects, Settle
  <2> QED
    BY <2>7, <2>8, <2>9, <2>10
<1> QED
  BY <1>1, LinkInvariant, PTL DEF SafeSpec, QueuedFailOnlyWithTheirLink

------------------------------------------------------------------------------
(* The command channel.                                                    *)

\* Of the commands under way, the first of its chain is the oldest.
LEMMA FirstIsOldest ==
  ASSUME LinkInv, NEW i \in DOMAIN jobs, CanArrive(i), FirstOfItsChain(i)
  PROVE  Channel!Oldest(jobs[i].seq)
<1>1. jobs[i].seq \in CommandsUnderWay
  BY DEF CommandsUnderWay
<1>2. ASSUME NEW k \in DOMAIN jobs, CanArrive(k)
      PROVE  jobs[i].seq <= jobs[k].seq
  <2>1. jobs[k].chain = jobs[i].chain
    BY <1>2 DEF CanArrive, LinkInv, LiveAreCurrent, IsLive
  <2>2. i \in Nat /\ k \in Nat \ {0} /\ jobs[i] \in Job /\ jobs[k] \in Job
    BY JobsShape DEF LinkInv
  <2>3. k \notin 1..(i - 1)
    BY <2>1 DEF FirstOfItsChain
  <2>4. jobs[i].seq \in Nat /\ jobs[k].seq \in Nat
    BY <2>2, LinkAssumption DEF Job
  <2>5. CASE k = i
    BY <2>4, <2>5
  <2>6. CASE i < k
    <3>1. jobs[i].seq < jobs[k].seq
      BY <1>2, <2>6 DEF LinkInv, InOrder, CanArrive, IsUser
    <3> QED
      BY <2>4, <3>1
  <2> QED
    BY <2>2, <2>3, <2>5, <2>6
<1> QED
  BY <1>1, <1>2 DEF Channel!Oldest, CommandsUnderWay

\* No two commands have the same number.
LEMMA NumbersTell ==
  ASSUME LinkInv, NEW i \in DOMAIN jobs, NEW k \in DOMAIN jobs,
         IsUser(i), IsUser(k), i # k
  PROVE  jobs[i].seq # jobs[k].seq
<1>1. /\ i \in Nat /\ k \in Nat
      /\ jobs[i].seq \in Nat /\ jobs[k].seq \in Nat
  BY JobsShape, LinkAssumption DEF LinkInv, Job
<1>2. CASE i < k
  BY <1>1, <1>2 DEF LinkInv, InOrder
<1>3. CASE k < i
  BY <1>1, <1>3 DEF LinkInv, InOrder
<1> QED
  BY <1>1, <1>2, <1>3

\* When a send settles, it is no longer under way; the others still are.
LEMMA SettledLeaves ==
  ASSUME LinkInv, NEW i \in DOMAIN jobs, jobs' = RemoveAt(jobs, i),
         live' = live
  PROVE  CommandsUnderWay'
           = IF CanArrive(i) THEN CommandsUnderWay \ {jobs[i].seq}
             ELSE CommandsUnderWay
<1>1. TypeOK
  BY DEF LinkInv
<1>2. /\ DOMAIN jobs = 1..Len(jobs) /\ Len(jobs) \in Nat
      /\ DOMAIN jobs' = 1..(Len(jobs) - 1)
      /\ \A k \in DOMAIN jobs' : /\ k \in Nat
                                 /\ Before(i, k) \in DOMAIN jobs
                                 /\ jobs'[k] = jobs[Before(i, k)]
  BY <1>1, JobsShape, Removal
<1>3. \A k \in DOMAIN jobs' : Before(i, k) # i
  BY <1>2 DEF Before
<1>4. ASSUME NEW m \in DOMAIN jobs, m # i
      PROVE  \E k \in DOMAIN jobs' : Before(i, k) = m
  <2>1. CASE m < i
    BY <1>2, <2>1 DEF Before
  <2>2. CASE m > i
    <3>1. m - 1 \in DOMAIN jobs' /\ Before(i, m - 1) = m
      BY <1>2, <2>2 DEF Before
    <3> QED
      BY <3>1
  <2> QED
    BY <1>2, <1>4, <2>1, <2>2
<1> DEFINE rest == {jobs[m].seq : m \in {k \in DOMAIN jobs :
                                           k # i /\ CanArrive(k)}}
<1>5. CommandsUnderWay' = rest
  <2>1. ASSUME NEW k \in DOMAIN jobs', CanArrive(k)'
        PROVE  jobs'[k].seq \in rest
    <3>1. Before(i, k) \in DOMAIN jobs /\ jobs'[k] = jobs[Before(i, k)]
      BY <1>2
    <3>2. CanArrive(Before(i, k))
      BY <2>1, <3>1 DEF CanArrive
    <3> QED
      BY <1>3, <3>1, <3>2
  <2>2. ASSUME NEW m \in DOMAIN jobs, m # i, CanArrive(m)
        PROVE  \E k \in DOMAIN jobs' : CanArrive(k)' /\ jobs'[k].seq = jobs[m].seq
    <3>1. PICK k \in DOMAIN jobs' : Before(i, k) = m
      BY <1>4, <2>2
    <3>2. jobs'[k] = jobs[m]
      BY <1>2, <3>1
    <3>3. CanArrive(k)'
      BY <2>2, <3>2 DEF CanArrive
    <3> QED
      BY <3>2, <3>3
  <2> QED
    BY <2>1, <2>2 DEF CommandsUnderWay
<1>6. CASE ~CanArrive(i)
  BY <1>5, <1>6 DEF CommandsUnderWay
<1>7. CASE CanArrive(i)
  <2>1. \A k \in DOMAIN jobs :
          CanArrive(k) /\ k # i => jobs[k].seq # jobs[i].seq
    BY <1>7, NumbersTell DEF CanArrive, IsUser
  <2> QED
    BY <1>5, <1>7, <2>1 DEF CommandsUnderWay
<1> QED
  BY <1>6, <1>7

\* What does not touch the sends takes none of them off the way, or all.
LEMMA ConnectionStepsCutOff ==
  ASSUME LinkInv, [Next]_vars, jobs' = jobs
  PROVE  CommandsUnderWay' = CommandsUnderWay \/ CommandsUnderWay' = {}
<1> USE DEF uiVars, linkVars, writerVars, pageVars
<1>1. CASE live' = live
  BY <1>1 DEF CommandsUnderWay, CanArrive
<1>2. CASE live' = {}
  BY <1>2 DEF CommandsUnderWay, CanArrive
<1>3. ASSUME NEW n \in Attempts, Linked(n)
      PROVE  CommandsUnderWay' = CommandsUnderWay
  <2>1. \A i \in DOMAIN jobs : jobs[i].characteristic \in Over
    BY DEF LinkInv, LiveAreCurrent
  <2>2. n \notin Over /\ live' = live \cup {n}
    BY <1>3 DEF Linked, Advance, Over
  <2>3. \A i \in DOMAIN jobs :
          jobs[i].characteristic \in live' <=> jobs[i].characteristic \in live
    BY <2>1, <2>2
  <2> QED
    BY <2>3 DEF CommandsUnderWay, CanArrive
<1>4. live' = live \/ live' = {} \/ \E n \in Attempts : Linked(n)
  BY DEF Next, Operator, Connecting, Writing, ClickConnect, ConnectMock,
         Discovered, ConnectFails, FinishConnect, Disconnect,
         ChangeTransportMode, DisconnectTransport, LinkLost, EditIds,
         HeartbeatTick, SendHeartbeat, SendHeartbeatIfIdle, UserCommand,
         StartWrite, Deliver, WriteResolves, WriteRejects, vars
<1> QED
  BY <1>1, <1>2, <1>3, <1>4

\* A send that is queued is under way if it is a command that can arrive.
LEMMA QueuedIsUnderWay ==
  ASSUME LinkInv, live' = live,
         NEW kind \in UserKinds \cup {"heartbeat"}, NEW seq \in 0..MaxCommands,
         IsConnected(transport), jobs' = Append(jobs, NewJob(kind, seq))
  PROVE  /\ kind = "heartbeat" => CommandsUnderWay' = CommandsUnderWay
         /\ CommandsUnderWay' \in {CommandsUnderWay, CommandsUnderWay \cup {seq}}
<1> DEFINE job == NewJob(kind, seq)
<1>1. /\ jobs \in Seq(Job) /\ Len(jobs) \in Nat
      /\ DOMAIN jobs = 1..Len(jobs)
  BY JobsShape DEF LinkInv
<1> PICK last : last = Len(jobs) + 1
  OBVIOUS
<1>2. job \in Job /\ job.kind = kind /\ job.seq = seq
  BY NewJobTyped DEF NewJob, LinkInv
<1> HIDE DEF job
<1>3. /\ jobs' \in Seq(Job) /\ Len(jobs') = Len(jobs) + 1
      /\ \A k \in 1..Len(jobs) : jobs'[k] = jobs[k]
      /\ jobs'[last] = job
  BY <1>1, <1>2, AppendProperties DEF job
<1>4. DOMAIN jobs' = DOMAIN jobs \cup {last} /\ last \notin DOMAIN jobs
  BY <1>1, <1>3, LenProperties
<1>5. \A k \in DOMAIN jobs : CanArrive(k)' <=> CanArrive(k)
  BY <1>1, <1>3 DEF CanArrive
<1>6. \A m : m \in CommandsUnderWay <=>
        \E k \in DOMAIN jobs : CanArrive(k) /\ m = jobs[k].seq
  BY DEF CommandsUnderWay
<1>7. \A m : m \in CommandsUnderWay' <=>
        \E k \in DOMAIN jobs' : CanArrive(k)' /\ m = jobs'[k].seq
  BY DEF CommandsUnderWay
<1>8. ASSUME NEW m
      PROVE  m \in CommandsUnderWay'
               <=> m \in CommandsUnderWay \/ (CanArrive(last)' /\ m = seq)
  <2>1. jobs'[last].seq = seq
    BY <1>2, <1>3
  <2>2. \A k \in DOMAIN jobs : jobs'[k].seq = jobs[k].seq
    BY <1>1, <1>3
  <2> QED
    BY <1>4, <1>5, <1>6, <1>7, <2>1, <2>2
<1>9. CanArrive(last)' => kind # "heartbeat"
  BY <1>2, <1>3 DEF CanArrive
<1>10. CASE CanArrive(last)'
  <2>1. CommandsUnderWay' = CommandsUnderWay \cup {seq}
    BY <1>8, <1>10
  <2> QED
    BY <1>9, <1>10, <2>1
<1>11. CASE ~CanArrive(last)'
  <2>1. CommandsUnderWay' = CommandsUnderWay
    BY <1>8, <1>11
  <2> QED
    BY <2>1
<1> QED
  BY <1>10, <1>11

\* A write that goes on takes only what has arrived off the way.
LEMMA WriteGoesOn ==
  ASSUME LinkInv, live' = live, NEW i \in DOMAIN jobs,
         NEW to \in {"writing", "written"},
         jobs[i].state # "written",
         jobs' = [jobs EXCEPT ![i].state = to]
  PROVE  CommandsUnderWay'
           = IF to = "written" /\ CanArrive(i)
             THEN CommandsUnderWay \ {jobs[i].seq} ELSE CommandsUnderWay
<1>1. jobs \in Seq(Job)
  BY DEF LinkInv, TypeOK
<1>2. /\ DOMAIN jobs' = DOMAIN jobs
      /\ \A k \in DOMAIN jobs :
           /\ jobs'[k].kind = jobs[k].kind /\ jobs'[k].seq = jobs[k].seq
           /\ jobs'[k].characteristic = jobs[k].characteristic
           /\ jobs'[k].state = IF k = i THEN to ELSE jobs[k].state
  BY <1>1, StateChange
<1>3. \A k \in DOMAIN jobs :
        CanArrive(k)' <=> CanArrive(k) /\ (k = i => to # "written")
  BY <1>2 DEF CanArrive
<1>4. \A m : m \in CommandsUnderWay <=>
        \E k \in DOMAIN jobs : CanArrive(k) /\ m = jobs[k].seq
  BY DEF CommandsUnderWay
<1>5. \A m : m \in CommandsUnderWay' <=>
        \E k \in DOMAIN jobs : /\ CanArrive(k) /\ (k = i => to # "written")
                               /\ m = jobs[k].seq
  BY <1>2, <1>3 DEF CommandsUnderWay
<1>6. CanArrive(i) => \A k \in DOMAIN jobs :
        CanArrive(k) /\ k # i => jobs[k].seq # jobs[i].seq
  BY NumbersTell DEF CanArrive, IsUser
<1>7. CASE to = "written" /\ CanArrive(i)
  BY <1>4, <1>5, <1>6, <1>7
<1>8. CASE ~(to = "written" /\ CanArrive(i))
  BY <1>4, <1>5, <1>8
<1> QED
  BY <1>7, <1>8

\* A step of the app is a step of the channel, or none.
LEMMA ChannelStep ==
  ASSUME LinkInv, [Next]_vars
  PROVE  [Channel!ChannelNext]_(Channel!channelVars)
<1> USE DEF uiVars, linkVars, writerVars, pageVars
<1> DEFINE Stutter == UNCHANGED <<sent, CommandsUnderWay, lastDelivered>>
<1>1. ASSUME jobs' = jobs, sent' = sent, lastDelivered' = lastDelivered
      PROVE  Stutter \/ Channel!CutOff
  BY <1>1, ConnectionStepsCutOff DEF Channel!CutOff
<1>2. CASE \/ Disconnect \/ ChangeTransportMode \/ LinkLost \/ ConnectMock
           \/ UNCHANGED vars
           \/ \E n \in Attempts : \/ ClickConnect(n) \/ Linked(n)
                                  \/ Discovered(n) \/ ConnectFails(n)
                                  \/ FinishConnect(n)
  BY <1>1, <1>2 DEF Disconnect, ChangeTransportMode, LinkLost, ConnectMock,
                    ClickConnect, Linked, Discovered, ConnectFails,
                    FinishConnect, vars, Channel!ChannelNext,
                    Channel!channelVars
<1>3. CASE EditIds \/ HeartbeatTick
  <2>1. /\ sent' = sent /\ lastDelivered' = lastDelivered /\ live' = live
        /\ \/ jobs' = jobs
           \/ /\ IsConnected(transport)
              /\ jobs' = Append(jobs, NewJob("heartbeat", 0))
    BY <1>3 DEF EditIds, HeartbeatTick, SendHeartbeat, SendHeartbeatIfIdle
  <2>2. CASE jobs' = jobs
    BY <1>1, <2>1, <2>2 DEF Channel!ChannelNext, Channel!channelVars
  <2>3. CASE jobs' # jobs
    BY <2>1, <2>3, QueuedIsUnderWay, LinkAssumption DEF Channel!channelVars
  <2> QED
    BY <2>2, <2>3
<1>4. ASSUME NEW kind \in UserKinds, UserCommand(kind)
      PROVE  Channel!Send
  <2>1. /\ sent' = sent + 1 /\ sent' \in 0..MaxCommands
        /\ lastDelivered' = lastDelivered /\ live' = live
        /\ \/ jobs' = jobs
           \/ /\ IsConnected(transport)
              /\ jobs' = Append(jobs, NewJob(kind, sent'))
    BY <1>4, LinkAssumption DEF UserCommand, LinkInv, TypeOK
  <2>2. CASE jobs' = jobs
    BY <2>1, <2>2 DEF CommandsUnderWay, CanArrive, Channel!Send
  <2>3. CASE jobs' # jobs
    BY <2>1, <2>3, QueuedIsUnderWay DEF Channel!Send
  <2> QED
    BY <2>2, <2>3
<1>5. ASSUME NEW i \in DOMAIN jobs, jobs' = RemoveAt(jobs, i), live' = live,
             sent' = sent, lastDelivered' = lastDelivered, FirstOfItsChain(i)
      PROVE  Stutter \/ Channel!Fail(jobs[i].seq)
  BY <1>5, SettledLeaves, FirstIsOldest DEF Channel!Fail
<1>6. ASSUME NEW i \in DOMAIN jobs, StartWrite(i)
      PROVE  Stutter \/ Channel!Fail(jobs[i].seq)
  <2>1. FirstOfItsChain(i) /\ jobs[i].state = "queued"
    BY <1>6 DEF StartWrite, CanStart
  <2>2. /\ live' = live /\ sent' = sent /\ lastDelivered' = lastDelivered
        /\ \/ jobs' = [jobs EXCEPT ![i].state = "writing"]
           \/ jobs' = RemoveAt(jobs, i)
    BY <1>6 DEF StartWrite, Settle
  <2> QED
    BY <1>5, <2>1, <2>2, WriteGoesOn
<1>7. ASSUME NEW i \in DOMAIN jobs, WriteResolves(i) \/ WriteRejects(i)
      PROVE  Stutter \/ Channel!Fail(jobs[i].seq)
  <2>1. FirstOfItsChain(i)
    BY <1>7 DEF WriteResolves, WriteRejects, LinkInv, OnlyTheFirstWrites
  <2> QED
    BY <1>5, <1>7, <2>1 DEF WriteResolves, WriteRejects, Settle
<1>8. ASSUME NEW i \in DOMAIN jobs, Deliver(i)
      PROVE  Stutter \/ Channel!Arrive(jobs[i].seq)
  <2>1. /\ live' = live /\ sent' = sent
        /\ jobs' = [jobs EXCEPT ![i].state = "written"]
        /\ jobs[i].state = "writing" /\ jobs[i].characteristic \in live
        /\ lastDelivered' = IF jobs[i].kind = "heartbeat" THEN lastDelivered
                            ELSE jobs[i].seq
    BY <1>8 DEF Deliver
  <2>2. FirstOfItsChain(i)
    BY <2>1 DEF LinkInv, OnlyTheFirstWrites
  <2>3. CanArrive(i) <=> jobs[i].kind # "heartbeat"
    BY <2>1 DEF CanArrive
  <2>4. CommandsUnderWay' = IF CanArrive(i) THEN CommandsUnderWay \ {jobs[i].seq}
                            ELSE CommandsUnderWay
    BY <2>1, WriteGoesOn
  <2> QED
    BY <2>1, <2>2, <2>3, <2>4, FirstIsOldest DEF Channel!Arrive
<1>9. ASSUME NEW n, Channel!Fail(n) \/ Channel!Arrive(n)
      PROVE  Channel!ChannelNext
  BY <1>9 DEF Channel!ChannelNext, Channel!Fail, Channel!Arrive,
              Channel!Oldest
<1>10. CASE Writing
  BY <1>6, <1>7, <1>8, <1>9, <1>10 DEF Writing, Channel!channelVars
<1> QED
  BY <1>2, <1>3, <1>4, <1>10
     DEF Next, Operator, Connecting, Channel!ChannelNext

\* The app's command link is a command channel: for every number of clicks,
\* attempts and changes of transport, commands arrive oldest first, fail one
\* by one and never come back to life.
THEOREM LinkIsChannel == SafeSpec => ImplementsCommandChannel
<1>1. ASSUME Init PROVE Channel!ChannelInit
  <2>1. CommandsUnderWay = {}
    BY <1>1 DEF Init, CommandsUnderWay
  <2> QED
    BY <1>1, <2>1 DEF Init, Channel!ChannelInit
<1>2. LinkInv /\ [Next]_vars => [Channel!ChannelNext]_(Channel!channelVars)
  BY ChannelStep
<1> QED
  BY <1>1, <1>2, LinkInvariant, PTL
     DEF SafeSpec, ImplementsCommandChannel, Channel!ChannelSpec
==============================================================================
