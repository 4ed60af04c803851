-------------------------- MODULE SetupConfigProofs --------------------------
(***************************************************************************)
(* Proofs about SetupConfig and the connector it is composed with, for any *)
(* machines, hosts, initial files and number of requests and crashes.      *)
(***************************************************************************)
EXTENDS SetupConfig, FiniteSetTheorems, TLAPS

\* Where start(), the poll task and stop() can be at once, and what their
\* loops still have to visit.
PhaseInv ==
    /\ app = "connecting" => at < Len(list)
    /\ app \notin {"starting", "connecting"} => at = 0
    /\ app \in {"starting", "connecting"} => poller = "none"
    /\ app = "running" => poller \in {"none", "created", "reading", "sleeping"}
    /\ app = "stopping" <=> poller = "cancelled"
    /\ app \in {"closing", "disconnecting", "down"} => poller \in {"none", "ended"}
    /\ poller \in {"created", "reading", "sleeping", "cancelled"} => clients # <<>>
    /\ poller = "reading" => todo # <<>>
    /\ app = "disconnecting" => todo # <<>>

\* The steps of a connector that leave the requests alone.
Connecting ==
    ConnectorNext /\ UNCHANGED <<requestVars, fileVars, crashes, unlisted>>

\* What a step is: one of the connector, a request or the process, or none.
LEMMA StepCases ==
    ASSUME [Next]_vars
    PROVE  \/ Connecting
           \/ \E r \in Requests : Request(r)
           \/ \E r \in Requests, id \in Ids :
                 Remove(r, id) \/ \E host \in Hosts : Add(r, id, host)
           \/ Crash \/ Restart \/ UNCHANGED vars
BY DEF Next, Connecting, AtRest

\* The list without one id is a list of the other machines of the list.
LEMMA WithoutType ==
    ASSUME list \in Seq(Entry), NEW id \in Ids, NEW rest \in Without(id)
    PROVE  rest \in Seq(Entry) /\ IdsOf(rest) \subseteq IdsOf(list)
<1> DEFINE K == {i \in 1..Len(list) : list[i].id # id}
<1>1. PICK h \in InOrder(K) : rest = [i \in DOMAIN h |-> list[h[i]]]
  BY DEF Without
<1>2. Cardinality(K) \in Nat
  <2>1. IsFiniteSet(1..Len(list)) /\ K \subseteq 1..Len(list)
    BY FS_Interval
  <2> QED BY <2>1, FS_Subset, FS_CardinalityType
<1>3. h \in [1..Cardinality(K) -> K]
  BY <1>1 DEF InOrder
<1>4. rest = [i \in 1..Cardinality(K) |-> list[h[i]]]
  BY <1>1, <1>3
<1>5. \A i \in 1..Cardinality(K) : h[i] \in 1..Len(list)
  BY <1>3
<1> HIDE DEF K
<1>6. rest \in Seq(Entry) /\ Len(rest) = Cardinality(K)
  BY <1>2, <1>4, <1>5
<1> QED BY <1>2, <1>4, <1>5, <1>6 DEF IdsOf

\* A new machine at the end of the list.
LEMMA AppendIds ==
    ASSUME list \in Seq(Entry), NEW e \in Entry
    PROVE  /\ Append(list, e) \in Seq(Entry)
           /\ IdsOf(Append(list, e)) = IdsOf(list) \cup {e.id}
BY DEF IdsOf

\* The default entry and configuration are of their types.
LEMMA DefaultTypes ==
    AnyEntry \in Entry /\ Default \in Config
<1>1. \E e \in Entry : TRUE
  <2>1. PICK id \in Ids, host \in Hosts : TRUE
    BY SetupAssumption
  <2>2. [id |-> id, host |-> host, enabled |-> TRUE] \in Entry
    BY DEF Entry
  <2> QED BY <2>2
<1>2. <<>> \in Seq(Entry)
  OBVIOUS
<1> QED BY <1>1, <1>2 DEF AnyEntry, Default, Config

\* What the registry's operators return is a table of machines.
TableOf(table) ==
    DOMAIN table \subseteq Ids /\ table \in [DOMAIN table -> Machine(Hosts, Ids)]

LEMMA TableTypes ==
    ASSUME NEW table, TableOf(table), NEW m \in Ids, NEW host \in Hosts
    PROVE  /\ TableOf(EmptyTable)
           /\ TableOf(OnConnect(table, m, host, m))
           /\ TableOf(OnDisconnect(table, m, 0))
           /\ TableOf(RegisterConfigured(table, m, host))
<1> USE DEF TableOf
<1>1. TableOf(EmptyTable)
  BY DEF EmptyTable
<1>2. ASSUME NEW x \in Machine(Hosts, Ids) PROVE TableOf(Store(table, m, x))
  BY DEF Store
<1>3. NewMachine(host) \in Machine(Hosts, Ids)
  BY DEF NewMachine, Machine
<1>4. TableOf(OnConnect(table, m, host, m))
  <2> DEFINE old == IF m \in DOMAIN table THEN table[m] ELSE NewMachine(host)
             on  == [ip |-> old.ip, connected |-> TRUE, session |-> m,
                     connections |-> old.connections + 1,
                     files |-> old.files]
  <2>1. old \in Machine(Hosts, Ids)
    BY <1>3
  <2> HIDE DEF old
  <2>2. on \in Machine(Hosts, Ids)
    BY <2>1 DEF Machine
  <2>3. OnConnect(table, m, host, m) = Store(table, m, on)
    BY DEF OnConnect, old
  <2> QED BY <1>2, <2>2, <2>3
<1>5. TableOf(OnDisconnect(table, m, 0))
  <2>1. CASE m \in DOMAIN table
    <3> DEFINE off == [ip |-> table[m].ip, connected |-> FALSE,
                       session |-> NoSession,
                       connections |-> table[m].connections,
                       files |-> table[m].files + 0]
    <3>1. table[m] \in Machine(Hosts, Ids)
      BY <2>1
    <3>2. off \in Machine(Hosts, Ids)
      BY <3>1 DEF Machine
    <3>3. OnDisconnect(table, m, 0) = Store(table, m, off)
      BY <2>1 DEF OnDisconnect
    <3> QED BY <1>2, <3>2, <3>3
  <2> QED BY <2>1 DEF OnDisconnect
<1>6. TableOf(RegisterConfigured(table, m, host))
  BY <1>2, <1>3 DEF RegisterConfigured
<1> QED BY <1>1, <1>4, <1>5, <1>6

\* The connector's steps keep the types.
LEMMA ConnectorType ==
    ASSUME TypeOK, PhaseInv, Connecting PROVE TypeOK'
<1> USE DEF TypeOK, ConnectorTypeOK, Phases, configVars, focasVars,
        requestVars, fileVars, EmitAbout, Online, PhaseInv, Connecting
<1>1. TableOf(machines)
  BY DEF TableOf
<1>2. CASE Starting
  <2>1. CASE SkipDisabled
    BY <2>1 DEF SkipDisabled
  <2>2. CASE StartConnect
    <3>1. list[at + 1] \in Entry
      BY <2>2 DEF StartConnect
    <3>2. TableOf(machines')
      BY <1>1, <2>2, <3>1, TableTypes DEF StartConnect, Entry
    <3> QED BY <2>2, <3>2 DEF StartConnect, TableOf
  <2>3. CASE ConnectOk
    <3>0. list[at + 1] \in Entry
      BY <2>3 DEF ConnectOk
    <3>1. list[at + 1].id \in Ids /\ list[at + 1].host \in Hosts
      BY <3>0 DEF Entry
    <3>2. TableOf(machines')
      BY <1>1, <2>3, <3>1, TableTypes DEF ConnectOk
    <3>3. clients' \in Seq(Ids)
      BY <2>3, <3>1 DEF ConnectOk
    <3>4. at' \in 0..Len(list)
      BY <2>3 DEF ConnectOk
    <3> QED BY <2>3, <3>2, <3>3, <3>4 DEF ConnectOk, TableOf
  <2>4. CASE ConnectFails
    BY <2>4 DEF ConnectFails
  <2>5. CASE Started
    BY <2>5 DEF Started
  <2> QED BY <1>2, <2>1, <2>2, <2>3, <2>4, <2>5 DEF Starting
<1>3. CASE Polling
  <2>1. CASE PollPass
    BY <2>1 DEF PollPass
  <2>2. ASSUME NEW event \in Online, PollMachine(event) PROVE TypeOK'
    <3>1. Head(todo) \in Ids /\ Tail(todo) \in Seq(Ids)
      BY <2>2 DEF PollMachine
    <3>2. poller' \in {"sleeping", "reading"} /\ todo' \in Seq(Ids)
      BY <2>2, <3>1 DEF PollMachine
    <3>3. last' \in [Ids -> {"none", "disconnected"} \cup Online]
      BY <2>2, <3>1 DEF PollMachine
    <3> QED BY <2>2, <3>2, <3>3 DEF PollMachine
  <2>3. CASE PollOk \/ PollFails
    <3>1. PICK event \in Online : PollMachine(event)
      BY ONLY <2>3 DEF PollOk, PollFails, Online
    <3> QED BY ONLY <2>2, <3>1
  <2> QED BY <1>3, <2>1, <2>3 DEF Polling
<1>4. CASE Stop
  <2>1. <<>> \in Seq(Ids)
    OBVIOUS
  <2>2. /\ app' \in {"closing", "stopping"} /\ todo' \in Seq(Ids)
        /\ poller' \in {poller, "cancelled"}
    BY <1>4, <2>1 DEF Stop
  <2> QED BY <1>4, <2>2 DEF Stop
<1>5. CASE Stopping
  <2>1. CASE PollerEnds
    BY <2>1 DEF PollerEnds
  <2>2. CASE StartDisconnect
    BY <2>2 DEF StartDisconnect
  <2>3. CASE Disconnected
    <3>1. Head(todo) \in Ids /\ Tail(todo) \in Seq(Ids)
      BY <2>3 DEF Disconnected
    <3>2. TableOf(machines')
      <4>1. \E host \in Hosts : TRUE
        BY SetupAssumption
      <4> QED BY <1>1, <2>3, <3>1, <4>1, TableTypes DEF Disconnected
    <3> QED BY <2>3, <3>1, <3>2 DEF Disconnected, TableOf
  <2>4. CASE Stopped
    BY <2>4 DEF Stopped
  <2> QED BY <1>5, <2>1, <2>2, <2>3, <2>4 DEF Stopping
<1> QED BY <1>2, <1>3, <1>4, <1>5 DEF ConnectorNext

\* The requests' steps keep the types.
LEMMA RequestType ==
    ASSUME TypeOK, NEW r \in Requests, Request(r) PROVE TypeOK'
<1> USE DefaultTypes DEF TypeOK, ConnectorTypeOK, configVars, focasVars,
        Goto, End, PCs
<1>1. CASE Reply(r)
  <2>1. entry[r].id \in Ids /\ entry[r].host \in Hosts
    BY DEF Entry
  <2>2. TableOf(machines')
    BY <1>1, <2>1, TableTypes DEF Reply, TableOf
  <2> QED BY <1>1, <2>2 DEF Reply, TableOf, fileVars
<1>2. CASE TakeCopy(r)
  <2>1. Current \in Config
    BY DEF Current, Config
  <2> QED BY <1>2, <2>1 DEF TakeCopy
<1>3. CASE Truncate(r)
  BY <1>3 DEF Truncate, Empty
<1>4. CASE Write(r)
  <2>1. file' \in [text : {"empty", "whole", "torn"}, config : Config]
    BY <1>4 DEF Write, Overwritten, Whole, Torn
  <2> QED BY <1>4, <2>1 DEF Write
<1>5. CASE SaveFails(r)
  <2>1. file' \in [text : {"empty", "whole", "torn"}, config : Config]
    BY <1>5 DEF SaveFails, Torn
  <2>2. entry[r].id \in Ids
    BY DEF Entry
  <2> QED BY <1>5, <2>1, <2>2 DEF SaveFails
<1>6. CASE Dropped(r)
  BY <1>6 DEF Dropped
<1> QED BY <1>1, <1>2, <1>3, <1>4, <1>5, <1>6 DEF Request

\* The routes, a crash and a restart keep the types.
LEMMA ProcessType ==
    ASSUME TypeOK, PhaseInv,
           \/ \E r \in Requests, id \in Ids :
                 Remove(r, id) \/ \E host \in Hosts : Add(r, id, host)
           \/ Crash \/ Restart \/ UNCHANGED vars
    PROVE  TypeOK'
<1> USE DefaultTypes DEF TypeOK, ConnectorTypeOK, configVars, focasVars, PCs
<1>1. ASSUME NEW r \in Requests, NEW id \in Ids, Remove(r, id) PROVE TypeOK'
  <2>1. list' \in Seq(Entry)
    BY <1>1, WithoutType DEF Remove
  <2>2. at = 0 /\ 0 \in 0..Len(list')
    BY <1>1, <2>1 DEF Remove, Serving, PhaseInv
  <2> QED BY <1>1, <2>1, <2>2 DEF Remove, Goto
<1>2. ASSUME NEW r \in Requests, NEW id \in Ids, NEW host \in Hosts,
             Add(r, id, host)
      PROVE  TypeOK'
  <2> DEFINE new == [id |-> id, host |-> host, enabled |-> TRUE]
  <2>1. new \in Entry
    BY DEF Entry
  <2>2. list' = Append(list, new) /\ entry' = [entry EXCEPT ![r] = new]
    BY <1>2 DEF Add
  <2> HIDE DEF new
  <2>3. list' \in Seq(Entry) /\ entry' \in [Requests -> Entry]
    BY <2>1, <2>2
  <2>4. at = 0 /\ 0 \in 0..Len(list')
    BY <1>2, <2>3 DEF Add, Serving, PhaseInv
  <2> QED BY <1>2, <2>3, <2>4 DEF Add, Goto
<1>3. ASSUME NEW phase \in {"down", "starting", "running"}, Forget(phase),
             list' \in Seq(Entry)
      PROVE  /\ app' \in Phases
             /\ DOMAIN machines' \subseteq Ids
             /\ machines' \in [DOMAIN machines' -> Machine(Hosts, Ids)]
             /\ at' \in 0..Len(list')
             /\ clients' \in Seq(Ids)
             /\ poller' = "none"
             /\ todo' \in Seq(Ids)
             /\ last' \in [Ids -> {"none", "disconnected"} \cup Online]
  <2>1. DOMAIN machines' = {} /\ machines' = [i \in {} |-> NewMachine(i)]
    BY <1>3 DEF Forget, EmptyTable
  <2>2. <<>> \in Seq(Ids) /\ 0 \in 0..Len(list')
    BY <1>3
  <2> QED BY <1>3, <2>1, <2>2 DEF Forget, Phases
<1>4. ASSUME EndAll
      PROVE  /\ pc' \in [Requests -> PCs]
             /\ adds' \subseteq Requests
             /\ entry' \in [Requests -> Entry]
             /\ data' \in [Requests -> Config]
  BY <1>4 DEF EndAll
<1>5. CASE Crash
  <2>1. file' \in [text : {"empty", "whole", "torn"}, config : Config]
    BY <1>5 DEF Crash, Torn
  <2> QED BY <1>3, <1>4, <1>5, <2>1 DEF Crash
<1>6. CASE Restart
  <2>1. file.config \in Config
    OBVIOUS
  <2>2. list' \in Seq(Entry) /\ enabled' \in BOOLEAN
    BY <1>6, <2>1 DEF Restart, Config
  <2>3. unlisted' \subseteq Ids
    <3>0. \A i \in 1..Len(list') : list'[i] \in Entry
      BY <2>2
    <3>1. \A i \in 1..Len(list') : list'[i].id \in Ids
      BY <3>0 DEF Entry
    <3>2. list' = file.config.machines /\ unlisted' = NotStarted(file.config)
      BY <1>6 DEF Restart
    <3> QED BY <3>1, <3>2 DEF NotStarted, IdsOf
  <2>4. PICK phase \in {"starting", "running"} : Forget(phase)
    BY <1>6 DEF Restart, FirstPhase
  <2> QED BY <1>3, <1>4, <1>6, <2>2, <2>3, <2>4 DEF Restart
<1>7. CASE UNCHANGED vars
  BY <1>7 DEF vars, requestVars, fileVars
<1> QED BY <1>1, <1>2, <1>5, <1>6, <1>7

\* Every step keeps the types.
LEMMA TypeStep ==
    TypeOK /\ PhaseInv /\ [Next]_vars => TypeOK'
BY StepCases, ConnectorType, RequestType, ProcessType

\* The requests do not touch the connector but for the registry.
LEMMA RequestFrame ==
    ASSUME NEW r \in Requests, Request(r)
    PROVE  UNCHANGED <<configVars, app, at, clients, poller, todo, last>>
BY DEF Request, Reply, TakeCopy, Truncate, Write, SaveFails, Dropped,
       focasVars

\* The phases stay in step with the poll task and the loops.
LEMMA PhaseStep ==
    ASSUME TypeOK, PhaseInv, [Next]_vars PROVE PhaseInv'
<1> USE DEF PhaseInv, configVars, focasVars
<1>0. at \in Nat /\ Len(list) \in Nat /\ at <= Len(list)
  BY DEF TypeOK, ConnectorTypeOK
<1>1. CASE Connecting
  <2>1. CASE Starting
    BY <1>0, <2>1 DEF Starting, SkipDisabled, StartConnect, ConnectOk,
                      ConnectFails, Started
  <2>2. CASE Polling
    BY <2>2 DEF Polling, PollPass, PollOk, PollFails, PollMachine
  <2>3. CASE Stop
    BY <2>3 DEF Stop
  <2>4. CASE Stopping
    BY <2>4 DEF Stopping, PollerEnds, StartDisconnect, Disconnected, Stopped
  <2> QED BY <1>1, <2>1, <2>2, <2>3, <2>4 DEF Connecting, ConnectorNext
<1>2. CASE \E r \in Requests : Request(r)
  BY <1>2, RequestFrame
<1>3. CASE \E r \in Requests, id \in Ids :
              Remove(r, id) \/ \E host \in Hosts : Add(r, id, host)
  BY <1>3 DEF Remove, Add, Serving
<1>4. CASE Crash \/ Restart
  <2>1. PICK phase \in {"down", "starting", "running"} : Forget(phase)
    BY <1>4 DEF Crash, Restart, FirstPhase
  <2> QED BY <2>1 DEF Forget
<1>5. CASE UNCHANGED vars
  BY <1>5 DEF vars
<1> QED BY <1>1, <1>2, <1>3, <1>4, <1>5, StepCases

-----------------------------------------------------------------------------
(* Presence                                                                *)

Shown(m) == m \in ListConnected(machines)

IsClient(m) == \E i \in 1..Len(clients) : clients[i] = m

\* Once the poll task has ended, who is shown connected is still to be
\* disconnected; what is visited is a client.
PresenceInv ==
    /\ PresenceAgrees
    /\ app \in {"closing", "disconnecting"} =>
          \A m \in Ids : Shown(m) => \E i \in 1..Len(todo) : todo[i] = m
    /\ poller = "reading" => \A i \in 1..Len(todo) : IsClient(todo[i])

\* What each of the registry's operators does to the machines it shows.
LEMMA ShownAfter ==
    /\ ListConnected(EmptyTable) = {}
    /\ \A table, m, host :
          ListConnected(OnConnect(table, m, host, m)) = ListConnected(table) \cup {m}
    /\ \A table, m :
          ListConnected(OnDisconnect(table, m, 0)) = ListConnected(table) \ {m}
    /\ \A table, m, host :
          ListConnected(RegisterConfigured(table, m, host)) = ListConnected(table)
<1>1. ListConnected(EmptyTable) = {}
  BY DEF EmptyTable, ListConnected
<1>2. ASSUME NEW table, NEW m, NEW x
      PROVE  ListConnected(Store(table, m, x))
             = (ListConnected(table) \ {m}) \cup (IF x.connected THEN {m} ELSE {})
  BY DEF Store, ListConnected
<1>3. \A host : NewMachine(host).connected = FALSE
  BY DEF NewMachine
<1>4. ASSUME NEW table, NEW m, NEW host
      PROVE  /\ ListConnected(OnConnect(table, m, host, m))
                = ListConnected(table) \cup {m}
             /\ ListConnected(RegisterConfigured(table, m, host))
                = ListConnected(table)
  <2>1. ListConnected(OnConnect(table, m, host, m)) = ListConnected(table) \cup {m}
    BY <1>2 DEF OnConnect
  <2>2. ListConnected(RegisterConfigured(table, m, host)) = ListConnected(table)
    BY <1>2, <1>3 DEF RegisterConfigured, ListConnected
  <2> QED BY <2>1, <2>2
<1>5. ASSUME NEW table, NEW m
      PROVE  ListConnected(OnDisconnect(table, m, 0)) = ListConnected(table) \ {m}
  BY <1>2 DEF OnDisconnect, ListConnected
<1> QED BY <1>1, <1>4, <1>5

\* The first of a sequence of clients, and the others.
LEMMA HeadAndTail ==
    ASSUME NEW q \in Seq(Ids), q # <<>>
    PROVE  /\ Head(q) \in Ids /\ Head(q) = q[1] /\ 1 \in 1..Len(q)
           /\ Tail(q) \in Seq(Ids)
           /\ \A i \in 1..Len(Tail(q)) : i + 1 \in 1..Len(q) /\ Tail(q)[i] = q[i + 1]
           /\ \A i \in 1..Len(q) : q[i] # Head(q) =>
                 \E j \in 1..Len(Tail(q)) : Tail(q)[j] = q[i]
<1>1. Len(q) \in Nat \ {0} /\ Len(Tail(q)) = Len(q) - 1
  OBVIOUS
<1>2. \A i \in 1..Len(Tail(q)) : i + 1 \in 1..Len(q) /\ Tail(q)[i] = q[i + 1]
  BY <1>1
<1>3. ASSUME NEW i \in 1..Len(q), q[i] # Head(q)
      PROVE  i - 1 \in 1..Len(Tail(q)) /\ Tail(q)[i - 1] = q[i]
  <2>1. i # 1
    BY <1>3
  <2> QED BY <1>1, <1>2, <2>1
<1> QED BY <1>1, <1>2, <1>3

\* A step of start() keeps the registry, the bus and the clients together.
LEMMA StartingPresence ==
    ASSUME TypeOK, PhaseInv, PresenceInv, Starting PROVE PresenceInv'
<1> USE DEF PresenceInv, PresenceAgrees, Shown, IsClient
<1>1. poller = "none" /\ app \in {"starting", "connecting"}
  BY DEF PhaseInv, Starting, SkipDisabled, StartConnect, ConnectOk,
         ConnectFails, Started
<1>2. CASE SkipDisabled \/ ConnectFails \/ Started
  BY <1>1, <1>2 DEF SkipDisabled, ConnectFails, Started
<1>3. CASE StartConnect
  <2>1. ListConnected(machines') = ListConnected(machines)
    BY <1>3, ShownAfter DEF StartConnect
  <2> QED BY <1>1, <1>3, <2>1 DEF StartConnect
<1>4. CASE ConnectOk
  <2> DEFINE id == list[at + 1].id
  <2>1. list[at + 1] \in Entry
    BY <1>4 DEF ConnectOk, PhaseInv, TypeOK, ConnectorTypeOK
  <2>2. id \in Ids
    BY <2>1 DEF Entry
  <2>3. /\ ListConnected(machines') = ListConnected(machines) \cup {id}
        /\ last' = [last EXCEPT ![id] = "connected"]
        /\ app' = "starting" /\ poller' = poller
        /\ clients' = IF \E i \in 1..Len(clients) : clients[i] = id
                      THEN clients ELSE Append(clients, id)
    BY <1>4, ShownAfter DEF ConnectOk, EmitAbout
  <2> HIDE DEF id
  <2>4. \A m \in Ids : IsClient(m)' <=> IsClient(m) \/ m = id
    <3>1. clients \in Seq(Ids)
      BY DEF TypeOK, ConnectorTypeOK
    <3> QED BY <2>2, <2>3, <3>1
  <2>5. \A m \in Ids : last'[m] = IF m = id THEN "connected" ELSE last[m]
    BY <2>2, <2>3 DEF TypeOK, ConnectorTypeOK
  <2>6. \A m \in Ids : Shown(m)' <=> Shown(m) \/ m = id
    BY <2>3
  <2> HIDE DEF Shown, IsClient
  <2>7. PresenceAgrees <=>
          \A m \in Ids : /\ Shown(m) <=> last[m] \in Online
                         /\ Shown(m) => IsClient(m)
                         /\ IsClient(m) => Shown(m) \/ app \in {"closing", "disconnecting"}
    BY DEF Shown, IsClient
  <2>8. PresenceAgrees' <=>
          \A m \in Ids : /\ Shown(m)' <=> last'[m] \in Online
                         /\ Shown(m)' => IsClient(m)'
                         /\ IsClient(m)' => Shown(m)' \/ app' \in {"closing", "disconnecting"}
    BY DEF Shown, IsClient
  <2> QED BY <1>1, <2>3, <2>4, <2>5, <2>6, <2>7, <2>8 DEF Online
<1> QED BY <1>2, <1>3, <1>4 DEF Starting

\* So does a poll: a status or an error is of a machine shown connected.
LEMMA PollingPresence ==
    ASSUME TypeOK, PhaseInv, PresenceInv, Polling PROVE PresenceInv'
<1> USE DEF PresenceInv, PresenceAgrees, Shown, IsClient
<1>1. app = "running"
  BY DEF PhaseInv, Polling, PollPass, PollOk, PollFails, PollMachine, TypeOK,
         ConnectorTypeOK, Phases
<1>2. CASE PollPass
  BY <1>1, <1>2 DEF PollPass
<1>3. ASSUME NEW event \in {"status", "error"}, PollMachine(event)
      PROVE  PresenceInv'
  <2>1. todo \in Seq(Ids) /\ todo # <<>>
    BY <1>3 DEF PollMachine, PhaseInv, TypeOK, ConnectorTypeOK
  <2>2. Head(todo) \in Ids /\ IsClient(Head(todo)) /\ Shown(Head(todo))
    BY <1>1, <1>3, <2>1, HeadAndTail DEF PollMachine
  <2>3. \A m \in Ids : last'[m] = IF m = Head(todo) THEN event ELSE last[m]
    BY <1>3, <2>2 DEF PollMachine, EmitAbout, TypeOK, ConnectorTypeOK
  <2>4. UNCHANGED <<app, machines, clients>> /\ todo' = Tail(todo)
    BY <1>3 DEF PollMachine
  <2>5. \A i \in 1..Len(todo') :
            \E j \in 1..Len(clients') : clients'[j] = todo'[i]
    <3>1. \A i \in 1..Len(todo) : \E j \in 1..Len(clients) : clients[j] = todo[i]
      BY <1>3 DEF PollMachine
    <3> QED BY <2>1, <2>4, <3>1, HeadAndTail
  <2>6. PresenceAgrees'
    BY <2>2, <2>3, <2>4 DEF Online
  <2> QED BY <1>1, <2>4, <2>5, <2>6
<1> QED BY <1>2, <1>3 DEF Polling, PollOk, PollFails

\* So does stop(): every client is reported offline before it is forgotten.
LEMMA StoppingPresence ==
    ASSUME TypeOK, PhaseInv, PresenceInv, Stop \/ Stopping PROVE PresenceInv'
<1> USE DEF PresenceInv, PresenceAgrees, Shown, IsClient
<1>1. CASE Stop
  BY <1>1 DEF Stop, PhaseInv
<1>2. CASE PollerEnds
  BY <1>2 DEF PollerEnds, PhaseInv
<1>3. CASE StartDisconnect
  BY <1>3 DEF StartDisconnect
<1>4. CASE Disconnected
  <2>1. todo \in Seq(Ids) /\ todo # <<>>
    BY <1>4 DEF Disconnected, PhaseInv, TypeOK, ConnectorTypeOK
  <2>2. Head(todo) \in Ids
    BY <2>1, HeadAndTail
  <2>3. \A m \in Ids : last'[m] = IF m = Head(todo) THEN "disconnected" ELSE last[m]
    BY <1>4, <2>2 DEF Disconnected, EmitAbout, TypeOK, ConnectorTypeOK
  <2>4. ListConnected(machines') = ListConnected(machines) \ {Head(todo)}
    BY <1>4, ShownAfter DEF Disconnected
  <2>5. /\ clients' = clients /\ todo' = Tail(todo) /\ poller' = poller
        /\ app = "disconnecting" /\ app' = "closing"
    BY <1>4 DEF Disconnected
  <2>6. poller # "reading"
    BY <2>5 DEF PhaseInv
  <2>7. PresenceAgrees'
    BY <2>2, <2>3, <2>4, <2>5 DEF Online
  <2>8. \A m \in Ids : Shown(m)' => \E i \in 1..Len(todo') : todo'[i] = m
    <3>1. SUFFICES ASSUME NEW m \in Ids, Shown(m)'
                   PROVE  \E i \in 1..Len(todo') : todo'[i] = m
      OBVIOUS
    <3>2. Shown(m) /\ m # Head(todo)
      BY <2>4, <3>1
    <3>3. PICK i \in 1..Len(todo) : todo[i] = m
      BY <2>5, <3>2
    <3> QED BY <2>1, <2>5, <3>2, <3>3, HeadAndTail
  <2> QED BY <2>5, <2>6, <2>7, <2>8
<1>5. CASE Stopped
  <2>1. todo = <<>> /\ Len(todo) = 0 /\ app = "closing"
    BY <1>5 DEF Stopped
  <2>2. \A m \in Ids : ~ Shown(m)
    BY <2>1
  <2>3. clients' = <<>> /\ Len(clients') = 0 /\ poller # "reading"
    BY <1>5, <2>1 DEF Stopped, PhaseInv
  <2>4. UNCHANGED <<machines, last, poller>> /\ app' = "down"
    BY <1>5 DEF Stopped
  <2> QED BY <2>2, <2>3, <2>4
<1> QED BY <1>1, <1>2, <1>3, <1>4, <1>5 DEF Stopping

\* Every step keeps them together.
LEMMA PresenceStep ==
    ASSUME TypeOK, PhaseInv, PresenceInv, [Next]_vars PROVE PresenceInv'
<1> USE DEF PresenceInv, PresenceAgrees, Shown, IsClient
<1>1. CASE Connecting
  BY <1>1, StartingPresence, PollingPresence, StoppingPresence
     DEF Connecting, ConnectorNext
<1>2. CASE \E r \in Requests : Request(r)
  <2>1. PICK r \in Requests : Request(r)
    BY <1>2
  <2>2. ListConnected(machines') = ListConnected(machines)
    BY <2>1, ShownAfter DEF Request, Reply, TakeCopy, Truncate, Write,
                            SaveFails, Dropped, focasVars
  <2> QED BY <2>1, <2>2, RequestFrame
<1>3. CASE \E r \in Requests, id \in Ids :
              Remove(r, id) \/ \E host \in Hosts : Add(r, id, host)
  BY <1>3 DEF Remove, Add, focasVars
<1>4. CASE Crash \/ Restart
  <2>1. PICK phase \in {"down", "starting", "running"} : Forget(phase)
    BY <1>4 DEF Crash, Restart, FirstPhase
  <2>2. ListConnected(machines') = {} /\ Len(clients') = 0
    BY <2>1, ShownAfter DEF Forget
  <2>3. \A m \in Ids : last'[m] = "none"
    BY <2>1 DEF Forget
  <2>4. app' \notin {"closing", "disconnecting"} /\ poller' = "none"
    BY <2>1 DEF Forget
  <2> QED BY <2>2, <2>3, <2>4 DEF Online
<1>5. CASE UNCHANGED vars
  BY <1>5 DEF vars, focasVars
<1> QED BY <1>1, <1>2, <1>3, <1>4, <1>5, StepCases

-----------------------------------------------------------------------------
(* The file                                                                *)

Pending(r) == pc[r] \in {"queued", "open", "write"}

\* Unless the file may be stale, every copy is of the configuration in memory,
\* and a file being written holds nothing or that configuration.
FileInv ==
    ~ stale =>
        /\ \A r \in Requests : pc[r] \in {"open", "write"} => data[r] = Current
        /\ \A r \in Requests :
              pc[r] = "write" => file \in {Empty, Whole(Current)}
        /\ \/ app = "down"
           \/ \E r \in Requests : Pending(r)
           \/ file.text # "torn" /\ file.config = Current

\* A save's steps, alone or among others.
LEMMA RequestFile ==
    ASSUME TypeOK, FileInv, NEW r \in Requests, Request(r) PROVE FileInv'
<1> USE DEF FileInv, Pending, Goto
<1>1. /\ UNCHANGED <<configVars, app>> /\ Current' = Current
      /\ pc \in [Requests -> PCs] /\ data \in [Requests -> Config]
  BY RequestFrame DEF configVars, Current, TypeOK
<1>2. CASE Reply(r)
  <2>1. /\ pc[r] = "saved" /\ pc' = [pc EXCEPT ![r] = "done"]
        /\ data' = [data EXCEPT ![r] = Default]
        /\ UNCHANGED <<file, stale, app>>
    BY <1>2 DEF Reply, End, fileVars
  <2>2. \A q \in Requests : Pending(q)' <=> Pending(q)
    BY <1>1, <2>1
  <2> QED BY <1>1, <2>1, <2>2
<1>3. CASE TakeCopy(r)
  <2>1. /\ pc[r] = "queued" /\ pc' = [pc EXCEPT ![r] = "open"]
        /\ data' = [data EXCEPT ![r] = Current]
        /\ file' = file /\ stale' = (stale /\ Saving)
    BY <1>3 DEF TakeCopy
  <2>2. Pending(r)'
    BY <1>1, <2>1
  <2> QED BY <1>1, <2>1, <2>2 DEF Saving
<1>4. CASE Truncate(r)
  <2>1. /\ pc[r] = "open" /\ pc' = [pc EXCEPT ![r] = "write"]
        /\ file' = Empty /\ UNCHANGED <<data, stale>>
    BY <1>4 DEF Truncate
  <2>2. Pending(r)'
    BY <1>1, <2>1
  <2> QED BY <1>1, <2>1, <2>2
<1>5. CASE Write(r)
  <2>1. /\ pc[r] = "write" /\ pc' = [pc EXCEPT ![r] = "saved"]
        /\ file' \in Overwritten(data[r]) /\ UNCHANGED <<data, stale>>
    BY <1>5 DEF Write
  <2>2. ~ stale => file' = Whole(Current)
    BY <2>1 DEF Overwritten
  <2>3. Whole(Current).text = "whole" /\ Whole(Current).config = Current
    BY DEF Whole
  <2>4. \A q \in Requests : pc'[q] \in {"open", "write"} => pc[q] = pc'[q]
    BY <1>1, <2>1
  <2> QED BY <1>1, <2>1, <2>2, <2>3, <2>4
<1>6. CASE SaveFails(r) \/ Dropped(r)
  BY <1>6 DEF SaveFails, Dropped
<1> QED BY <1>2, <1>3, <1>4, <1>5, <1>6 DEF Request

\* Every step keeps the file and the copies in step with the memory.
LEMMA FileStep ==
    ASSUME TypeOK, PhaseInv, FileInv, [Next]_vars PROVE FileInv'
<1> USE DEF FileInv, Pending
<1>1. CASE Connecting
  <2>1. UNCHANGED <<pc, data, file, stale, list, enabled>>
    <3>1. UNCHANGED <<pc, data, file, stale>>
      BY <1>1 DEF Connecting, requestVars, fileVars
    <3>2. CASE Starting
      BY <3>1, <3>2 DEF Starting, SkipDisabled, StartConnect, ConnectOk,
                        ConnectFails, Started, configVars
    <3>3. CASE Polling \/ Stop \/ Stopping
      BY <3>1, <3>3 DEF Polling, PollPass, PollOk, PollFails, PollMachine,
           Stop, Stopping, PollerEnds, StartDisconnect, Disconnected,
           Stopped, configVars
    <3> QED BY <1>1, <3>2, <3>3 DEF Connecting, ConnectorNext
  <2>2. app = "down" => app' = "down"
    <3>1. app = "down" => Polling
      BY <1>1 DEF Connecting, ConnectorNext, Starting, SkipDisabled,
         StartConnect, ConnectOk, ConnectFails, Started, Stop, Stopping,
         PollerEnds, StartDisconnect, Disconnected, Stopped, PhaseInv
    <3> QED BY <3>1 DEF Polling, PollPass, PollOk, PollFails, PollMachine
  <2>3. Current' = Current
    BY <2>1 DEF Current
  <2> QED BY <2>1, <2>2, <2>3
<1>2. CASE \E r \in Requests : Request(r)
  BY <1>2, RequestFile
<1>3. CASE \E r \in Requests, id \in Ids :
              Remove(r, id) \/ \E host \in Hosts : Add(r, id, host)
  <2>1. PICK r \in Requests :
           /\ pc[r] = "none" /\ pc' = [pc EXCEPT ![r] = "queued"]
           /\ stale' = (stale \/ Saving) /\ UNCHANGED <<data, file>>
    BY <1>3 DEF Remove, Add, NextRequest, Goto
  <2>2. pc \in [Requests -> PCs]
    BY DEF TypeOK
  <2>3. Pending(r)'
    BY <2>1, <2>2
  <2>4. \A q \in Requests : pc'[q] \in {"open", "write"} => pc[q] = pc'[q]
    BY <2>1, <2>2
  <2> QED BY <2>1, <2>3, <2>4 DEF Saving
<1>4. CASE Crash
  <2>1. \A r \in Requests : ~ Pending(r)'
    BY <1>4 DEF Crash, EndAll
  <2> QED BY <1>4, <2>1 DEF Crash, Forget
<1>5. CASE Restart
  <2>1. \A r \in Requests : ~ Pending(r)'
    BY <1>5 DEF Restart, EndAll
  <2>2. file.config = [machines |-> file.config.machines,
                       enabled |-> file.config.enabled]
    BY DEF TypeOK, Config
  <2>3. file' = file /\ file.text # "torn" /\ file.config = Current'
    BY <1>5, <2>2 DEF Restart, Current
  <2> QED BY <2>1, <2>3
<1>6. CASE UNCHANGED vars
  BY <1>6 DEF vars, configVars, focasVars, requestVars, fileVars, Current
<1> QED BY <1>1, <1>2, <1>3, <1>4, <1>5, <1>6, StepCases

-----------------------------------------------------------------------------
(* The registry's list                                                     *)

\* An id that a request is still to register.
Awaited(id) ==
    \E r \in adds : entry[r].id = id
                    /\ pc[r] \in {"queued", "open", "write", "saved"}

\* While start() runs, the machines it has passed are in the registry.
ListedInv ==
    /\ ConfiguredListed
    /\ app \in {"starting", "connecting"} =>
          \A i \in 1..Len(list) :
              /\ ~ list[i].enabled => list[i].id \in unlisted
              /\ i <= at => list[i].id \in unlisted \cup DOMAIN machines
    /\ app = "connecting" => list[at + 1].id \in DOMAIN machines

\* No operator of the registry forgets a machine.
LEMMA DomainAfter ==
    /\ \A table, m, host : LET after == OnConnect(table, m, host, m)
                           IN  DOMAIN table \subseteq DOMAIN after
    /\ \A table, m : LET after == OnDisconnect(table, m, 0)
                     IN  DOMAIN table \subseteq DOMAIN after
    /\ \A table, m, host : LET after == RegisterConfigured(table, m, host)
                           IN  DOMAIN table \subseteq DOMAIN after /\ m \in DOMAIN after
<1>1. \A table, m, x : /\ DOMAIN table \subseteq DOMAIN Store(table, m, x)
                        /\ m \in DOMAIN Store(table, m, x)
  BY DEF Store
<1>2. ASSUME NEW table, NEW m, NEW host
      PROVE  /\ DOMAIN table \subseteq DOMAIN OnConnect(table, m, host, m)
             /\ DOMAIN table \subseteq DOMAIN RegisterConfigured(table, m, host)
             /\ m \in DOMAIN RegisterConfigured(table, m, host)
  <2>1. \E x : OnConnect(table, m, host, m) = Store(table, m, x)
    BY DEF OnConnect
  <2>2. \/ m \in DOMAIN table /\ RegisterConfigured(table, m, host) = table
        \/ \E x : RegisterConfigured(table, m, host) = Store(table, m, x)
    BY DEF RegisterConfigured
  <2> QED BY <1>1, <2>1, <2>2
<1>3. ASSUME NEW table, NEW m
      PROVE  DOMAIN table \subseteq DOMAIN OnDisconnect(table, m, 0)
  <2>1. \/ OnDisconnect(table, m, 0) = table
        \/ \E x : OnDisconnect(table, m, 0) = Store(table, m, x)
    BY DEF OnDisconnect
  <2> QED BY <1>1, <2>1
<1> QED BY <1>2, <1>3

\* The connector's steps forget no machine, and start() passes only machines
\* it has registered or leaves alone.
LEMMA ConnectorListed ==
    ASSUME TypeOK, PhaseInv, ListedInv, Connecting PROVE ListedInv'
<1> USE DEF ListedInv, ConfiguredListed
<1>1. /\ UNCHANGED <<list, unlisted, adds, entry, pc>>
  BY DEF Connecting, ConnectorNext, Starting, SkipDisabled, StartConnect,
         ConnectOk, ConnectFails, Started, Polling, PollPass, PollOk,
         PollFails, PollMachine, Stop, Stopping, PollerEnds, StartDisconnect,
         Disconnected, Stopped, configVars, requestVars
<1>2. DOMAIN machines \subseteq DOMAIN machines'
  <2>1. \/ machines' = machines
        \/ \E m, host : machines' = RegisterConfigured(machines, m, host)
        \/ \E m, host : machines' = OnConnect(machines, m, host, m)
        \/ \E m : machines' = OnDisconnect(machines, m, 0)
    <3>1. CASE Starting
      BY <3>1 DEF Starting, SkipDisabled, StartConnect, ConnectOk,
                  ConnectFails, Started
    <3>2. CASE Polling \/ Stop \/ Stopping
      BY <3>2 DEF Polling, PollPass, PollOk, PollFails, PollMachine, Stop,
           Stopping, PollerEnds, StartDisconnect, Disconnected, Stopped
    <3> QED BY <3>1, <3>2 DEF Connecting, ConnectorNext
  <2>2. ASSUME NEW m, NEW host, machines' = RegisterConfigured(machines, m, host)
        PROVE  DOMAIN machines \subseteq DOMAIN machines'
    BY ONLY <2>2, DomainAfter
  <2>3. ASSUME NEW m, NEW host, machines' = OnConnect(machines, m, host, m)
        PROVE  DOMAIN machines \subseteq DOMAIN machines'
    BY ONLY <2>3, DomainAfter
  <2>4. ASSUME NEW m, machines' = OnDisconnect(machines, m, 0)
        PROVE  DOMAIN machines \subseteq DOMAIN machines'
    BY ONLY <2>4, DomainAfter
  <2> QED BY <2>1, <2>2, <2>3, <2>4
<1>3. at \in Nat /\ Len(list) \in Nat /\ at <= Len(list)
  BY DEF TypeOK, ConnectorTypeOK
<1>4. CASE Starting
  <2>1. CASE SkipDisabled
    BY <1>1, <1>2, <1>3, <2>1 DEF SkipDisabled
  <2>2. CASE StartConnect
    <3>1. list[at + 1].id \in DOMAIN machines'
      <4> DEFINE e == list[at + 1]
      <4>1. machines' = RegisterConfigured(machines, e.id, e.host)
        BY <2>2 DEF StartConnect
      <4> QED BY ONLY <4>1, DomainAfter
    <3>2. app = "starting" /\ app' = "connecting" /\ at' = at
      BY <2>2 DEF StartConnect
    <3> QED BY <1>1, <1>2, <3>1, <3>2
  <2>3. CASE ConnectOk \/ ConnectFails
    <3>1. app = "connecting" /\ app' = "starting" /\ at' = at + 1
      BY <2>3 DEF ConnectOk, ConnectFails
    <3>2. list[at + 1].id \in DOMAIN machines'
      BY <1>2, <3>1
    <3>3. \A i \in 1..Len(list) : i <= at' => i <= at \/ i = at + 1
      BY <1>3, <3>1
    <3> QED BY <1>1, <1>2, <3>1, <3>2, <3>3
  <2>4. CASE Started
    <3>1. /\ app = "starting" /\ app' = "running" /\ at = Len(list)
          /\ machines' = machines
      BY <2>4 DEF Started
    <3>2. \A id \in IdsOf(list) : id \in unlisted \cup DOMAIN machines
      BY <1>3, <3>1 DEF IdsOf
    <3> QED BY <1>1, <3>1, <3>2
  <2> QED BY <1>4, <2>1, <2>2, <2>3, <2>4 DEF Starting
<1>5. CASE Polling \/ Stop \/ Stopping
  <2>1. \/ app' = app /\ app \notin {"starting", "connecting", "down"}
        \/ app' = app /\ app = "down"
        \/ /\ app \notin {"starting", "connecting", "down"}
           /\ app' \notin {"starting", "connecting"}
    BY <1>5 DEF Polling, PollPass, PollOk, PollFails, PollMachine, Stop,
         Stopping, PollerEnds, StartDisconnect, Disconnected, Stopped, PhaseInv
  <2> QED BY <1>1, <1>2, <2>1
<1> QED BY <1>4, <1>5 DEF Connecting, ConnectorNext

\* A request registers what it has added before it is over, or is forgiven.
LEMMA RequestListed ==
    ASSUME TypeOK, ListedInv, NEW r \in Requests, Request(r) PROVE ListedInv'
<1> USE DEF ListedInv, Goto
<1>1. UNCHANGED <<list, app, at>>
  BY RequestFrame DEF configVars
<1>2. /\ DOMAIN machines \subseteq DOMAIN machines'
      /\ unlisted \subseteq unlisted'
      /\ Reply(r) /\ r \in adds => entry[r].id \in DOMAIN machines'
  <2>1. ASSUME machines' = RegisterConfigured(machines, entry[r].id, entry[r].host)
        PROVE  /\ DOMAIN machines \subseteq DOMAIN machines'
               /\ entry[r].id \in DOMAIN machines'
    BY ONLY <2>1, DomainAfter
  <2>2. unlisted \subseteq unlisted'
    BY DEF Request, Reply, TakeCopy, Truncate, Write, SaveFails, Dropped
  <2>3. CASE Reply(r)
    BY <2>1, <2>2, <2>3 DEF Reply
  <2>4. CASE ~ Reply(r)
    BY <2>2, <2>4 DEF Request, TakeCopy, Truncate, Write, SaveFails, Dropped,
                      focasVars
  <2> QED BY <2>3, <2>4
<1>3. \A id \in Ids :
         Awaited(id) => \/ Awaited(id)' \/ id \in DOMAIN machines'
                        \/ id \in unlisted' \/ app = "down"
  <2>1. /\ pc \in [Requests -> PCs] /\ entry \in [Requests -> Entry]
        /\ adds \subseteq Requests
    BY DEF TypeOK
  <2>2. SUFFICES ASSUME NEW id \in Ids, NEW q \in adds, entry[q].id = id,
                        pc[q] \in {"queued", "open", "write", "saved"}
                 PROVE  \/ Awaited(id)' \/ id \in DOMAIN machines'
                        \/ id \in unlisted' \/ app = "down"
    BY DEF Awaited
  <2>3. CASE q # r
    <3>1. q \in adds' /\ entry'[q] = entry[q] /\ pc'[q] = pc[q]
      BY <2>1, <2>3 DEF Request, Reply, TakeCopy, Truncate, Write, SaveFails,
                        Dropped, End
    <3> QED BY <2>2, <3>1 DEF Awaited
  <2>4. CASE q = r
    <3>1. CASE Reply(r)
      BY <1>2, <2>2, <2>4, <3>1
    <3>2. CASE TakeCopy(r) \/ Truncate(r) \/ Write(r)
      <4>1. /\ adds' = adds /\ entry' = entry
            /\ pc'[r] \in {"open", "write", "saved"}
        BY <2>1, <3>2 DEF TakeCopy, Truncate, Write
      <4> QED BY <2>2, <2>4, <4>1 DEF Awaited
    <3>3. CASE SaveFails(r) \/ Dropped(r)
      BY <2>2, <2>4, <3>3 DEF SaveFails, Dropped
    <3> QED BY <3>1, <3>2, <3>3 DEF Request
  <2> QED BY <2>3, <2>4
<1>4. IdsOf(list) \subseteq Ids
  <2>1. \A i \in 1..Len(list) : list[i] \in Entry
    BY DEF TypeOK, ConnectorTypeOK
  <2> QED BY <2>1 DEF IdsOf, Entry
<1>5. ConfiguredListed'
  BY <1>1, <1>2, <1>3, <1>4 DEF ConfiguredListed, Awaited
<1> QED BY <1>1, <1>2, <1>5

\* A process that starts owes the registry only what start() looks at.
LEMMA StartListed ==
    ASSUME NEW config,
           config.machines \in Seq(Entry), config.enabled \in BOOLEAN,
           list' = config.machines, unlisted' = NotStarted(config),
           Forget(FirstPhase(config.machines, config.enabled))
    PROVE  ListedInv'
<1>1. app' = FirstPhase(list', config.enabled) /\ at' = 0
  BY DEF Forget
<1>2. CASE config.enabled /\ list' # <<>>
  <2>1. app' = "starting"
    BY <1>1, <1>2 DEF FirstPhase
  <2>2. \A i \in 1..Len(list') : ~ list'[i].enabled => list'[i].id \in unlisted'
    BY <1>2 DEF NotStarted
  <2> QED BY <1>1, <2>1, <2>2 DEF ListedInv, ConfiguredListed
<1>3. CASE ~ (config.enabled /\ list' # <<>>)
  <2>1. app' = "running"
    BY <1>1, <1>3 DEF FirstPhase
  <2>2. IdsOf(list') \subseteq unlisted'
    BY <1>3 DEF NotStarted, IdsOf
  <2> QED BY <2>1, <2>2 DEF ListedInv, ConfiguredListed
<1> QED BY <1>2, <1>3

\* Every step keeps the configured machines listed.
LEMMA ListedStep ==
    ASSUME TypeOK, PhaseInv, ListedInv, [Next]_vars PROVE ListedInv'
<1> USE DEF ListedInv
<1>1. CASE Connecting
  BY <1>1, ConnectorListed
<1>2. CASE \E r \in Requests : Request(r)
  BY <1>2, RequestListed
<1>3. ASSUME NEW r \in Requests, NEW id \in Ids,
             Remove(r, id) \/ \E host \in Hosts : Add(r, id, host)
      PROVE  ListedInv'
  <2>1. /\ app \notin {"starting", "connecting", "down"}
        /\ UNCHANGED <<app, machines, unlisted>>
        /\ pc[r] = "none" /\ pc' = [pc EXCEPT ![r] = "queued"]
    BY <1>3 DEF Remove, Add, Serving, NextRequest, Goto, focasVars
  <2>2. /\ pc \in [Requests -> PCs] /\ entry \in [Requests -> Entry]
        /\ adds \subseteq Requests /\ list \in Seq(Entry)
    BY DEF TypeOK, ConnectorTypeOK
  <2>3. CASE Remove(r, id)
    <3>1. IdsOf(list') \subseteq IdsOf(list) /\ UNCHANGED <<adds, entry>>
      BY <2>2, <2>3, WithoutType DEF Remove
    <3>2. \A q \in adds : pc[q] \in {"queued", "open", "write", "saved"}
             => pc'[q] = pc[q]
      BY <2>1, <2>2
    <3> QED BY <2>1, <3>1, <3>2 DEF ConfiguredListed
  <2>4. ASSUME NEW host \in Hosts, Add(r, id, host) PROVE ListedInv'
    <3> DEFINE new == [id |-> id, host |-> host, enabled |-> TRUE]
    <3>1. /\ list' = Append(list, new) /\ adds' = adds \cup {r}
          /\ entry' = [entry EXCEPT ![r] = new]
      BY <2>4 DEF Add
    <3>2. new \in Entry /\ new.id = id
      BY DEF Entry
    <3> HIDE DEF new
    <3>3. IdsOf(list') = IdsOf(list) \cup {id}
      BY <2>2, <3>1, <3>2, AppendIds
    <3>4. \A q \in adds : pc[q] \in {"queued", "open", "write", "saved"}
             => pc'[q] = pc[q] /\ entry'[q] = entry[q] /\ q \in adds'
      BY <2>1, <2>2, <3>1
    <3>5. r \in adds' /\ entry'[r].id = id /\ pc'[r] = "queued"
      BY <2>1, <2>2, <3>1, <3>2
    <3> QED BY <2>1, <3>3, <3>4, <3>5 DEF ConfiguredListed
  <2> QED BY <1>3, <2>3, <2>4
<1>4. CASE Crash
  BY <1>4 DEF Crash, Forget, ConfiguredListed
<1>5. CASE Restart
  <2>1. /\ list' = file.config.machines /\ unlisted' = NotStarted(file.config)
        /\ Forget(FirstPhase(file.config.machines, file.config.enabled))
    BY <1>5 DEF Restart
  <2>2. file.config.machines \in Seq(Entry) /\ file.config.enabled \in BOOLEAN
    BY DEF TypeOK, Config
  <2> QED BY <2>1, <2>2, StartListed
<1>6. CASE UNCHANGED vars
  BY <1>6 DEF vars, configVars, focasVars, requestVars, ConfiguredListed
<1> QED BY <1>1, <1>2, <1>3, <1>4, <1>5, <1>6, StepCases

-----------------------------------------------------------------------------
(* Theorems                                                                *)

SetupInv ==
    /\ TypeOK
    /\ PhaseInv
    /\ PresenceInv
    /\ FileInv
    /\ ListedInv

\* The inductive invariant holds at first: a file that says nothing or a whole
\* configuration has been read, and nothing has been connected.
LEMMA SetupInit == Init => SetupInv
<1> SUFFICES ASSUME Init PROVE SetupInv
  OBVIOUS
<1>1. PICK config \in InitialConfigs :
         /\ file = IF config = Default THEN Empty ELSE Whole(config)
         /\ list = config.machines
         /\ enabled = config.enabled
         /\ unlisted = NotStarted(config)
  BY DEF Init
<1>2. config \in Config
  BY SetupAssumption
<1>3. /\ list \in Seq(Entry) /\ enabled \in BOOLEAN
      /\ config = [machines |-> list, enabled |-> enabled]
  BY <1>1, <1>2 DEF Config
<1>4. /\ app \in {"starting", "running"} /\ machines = EmptyTable /\ at = 0
      /\ clients = <<>> /\ poller = "none" /\ todo = <<>>
      /\ last = [m \in Ids |-> "none"]
      /\ app = FirstPhase(list, enabled)
  BY DEF Init, ConnectorInit, FirstPhase
<1>5. \A r \in Requests : pc[r] = "none"
  BY DEF Init
<1>6. TypeOK
  <2>1. ConnectorTypeOK
    <3>1. DOMAIN machines = {} /\ machines = [i \in {} |-> NewMachine(i)]
      BY <1>4 DEF EmptyTable
    <3>2. <<>> \in Seq(Ids) /\ 0 \in 0..Len(list)
      BY <1>3
    <3> QED BY <1>3, <1>4, <3>1, <3>2 DEF ConnectorTypeOK, Phases
  <2>2. unlisted \subseteq Ids
    <3>1. \A i \in 1..Len(list) : list[i] \in Entry
      BY <1>3
    <3>2. \A i \in 1..Len(list) : list[i].id \in Ids
      BY <3>1 DEF Entry
    <3> QED BY <1>1, <3>2 DEF NotStarted, IdsOf
  <2>3. file \in [text : {"empty", "whole", "torn"}, config : Config]
    BY <1>1, <1>2, DefaultTypes DEF Empty, Whole
  <2> QED BY <2>1, <2>2, <2>3, DefaultTypes DEF Init, TypeOK, PCs
<1>7. PhaseInv
  BY <1>4 DEF PhaseInv
<1>8. PresenceInv
  <2>1. ListConnected(machines) = {} /\ Len(clients) = 0
    BY <1>4, ShownAfter
  <2> QED BY <1>4, <2>1 DEF PresenceInv, PresenceAgrees, Online
<1>9. FileInv
  BY <1>1, <1>3, <1>5 DEF FileInv, Empty, Whole, Current
<1>10. ListedInv
  <2>1. CASE enabled /\ list # <<>>
    <3>1. app = "starting"
      BY <1>4, <2>1 DEF FirstPhase
    <3>2. \A i \in 1..Len(list) : ~ list[i].enabled => list[i].id \in unlisted
      BY <1>1, <2>1 DEF NotStarted
    <3> QED BY <1>4, <3>1, <3>2 DEF ListedInv, ConfiguredListed
  <2>2. CASE ~ (enabled /\ list # <<>>)
    <3>1. app = "running"
      BY <1>4, <2>2 DEF FirstPhase
    <3>2. IdsOf(list) \subseteq unlisted
      BY <1>1, <2>2 DEF NotStarted, IdsOf
    <3> QED BY <3>1, <3>2 DEF ListedInv, ConfiguredListed
  <2> QED BY <2>1, <2>2
<1> QED BY <1>6, <1>7, <1>8, <1>9, <1>10 DEF SetupInv

\* The inductive invariant holds in every reachable state.
THEOREM SetupInvariance == Spec => []SetupInv
<1>1. SetupInv /\ [Next]_vars => SetupInv'
  BY TypeStep, PhaseStep, PresenceStep, FileStep, ListedStep DEF SetupInv
<1> QED BY <1>1, SetupInit, PTL DEF Spec

\* The variables of the connector, the requests and the file keep their types:
\* in particular start() never looks past the end of a list that changes
\* under it, and no loop takes a client from an empty one.
THEOREM SetupTypeCorrect == Spec => []TypeOK
BY SetupInvariance, PTL DEF SetupInv

\* What the registry shows of a FOCAS2 machine is what the last event about
\* it said, and a machine is shown exactly while it has a live client.
THEOREM Presence == Spec => []PresenceAgrees
BY SetupInvariance, PTL DEF SetupInv, PresenceInv

\* With nothing left to save, pcu20.toml holds the configuration in memory,
\* however many saves have overlapped.
THEOREM FileIsConfiguration == Spec => []FileAgrees
<1>1. SetupInv => FileAgrees
  BY DEF SetupInv, FileInv, FileAgrees, Pending
<1> QED BY <1>1, SetupInvariance, PTL

\* Every configured machine is in the registry once start() is over.
THEOREM ConfiguredIsListed == Spec => []ConfiguredListed
BY SetupInvariance, PTL DEF SetupInv, ListedInv
=============================================================================
