--------------------------- MODULE EventBusProofs ---------------------------
(***************************************************************************)
(* Proofs about EventBus for any sessions, machines, pages, sockets and    *)
(* size of the queues: types, the order and completeness of what a socket  *)
(* is sent, and the number of connected machines a page counts on to.      *)
(***************************************************************************)
EXTENDS EventBus, SequenceTheorems, FiniteSetTheorems, TLAPS

\* What a socket's task, its connection and its history have to do with one
\* another.
SocketInv(w) ==
    /\ task[w] = "none" => /\ queue[w] = <<>> /\ got[w] = <<>>
                           /\ dropped[w] = {}
                           /\ wire[w] = "none" /\ w \notin subscribers
    /\ task[w] = "sending" => holding[w] \in EventIds
    /\ wire[w] = "open" => pageOf[w] \in Pages
    /\ since[w] <= Len(emitted)

\* A sequence of events, in order, that has all of those after the first m of
\* n but the lost ones.
Complete(feed, lost, m, n) ==
    /\ feed \in Seq(Nat)
    /\ \A i, j \in 1..Len(feed) : i < j => feed[i] < feed[j]
    /\ {feed[i] : i \in 1..Len(feed)} \cup lost = {i \in 1..n : i > m}
    /\ {feed[i] : i \in 1..Len(feed)} \cap lost = {}

FeedInv ==
    \A w \in subscribers :
        wire[w] = "open" =>
            Complete(Feed(w), dropped[w], since[w], Len(emitted))

BusInv ==
    /\ TypeOK
    /\ \A w \in Sockets : SocketInv(w)
    /\ FeedInv

\* Every action of a session.
Session(c) == Connect(c) \/ Activity(c) \/ Leave(c) \/ Report(c)

\* Every action of a window.
Window(p) == Render(p) \/ \E next \in {"none", "lost"} : Break(p, next)

\* What a step is: one of a session, a socket's task, a window, or nothing.
LEMMA StepCases ==
    ASSUME [Next]_vars
    PROVE  \/ \E c \in Clients : Session(c)
           \/ \E w \in Sockets :
                 Task(w) \/ Notice(w) \/ \E p \in Pages : Subscribe(w, p)
           \/ \E p \in Pages : Window(p)
           \/ UNCHANGED vars
BY DEF Next, Session, Window, Quiet

\* What the registry's operators return is a table of machines.
TableOf(table) ==
    DOMAIN table \subseteq Ips /\ table \in [DOMAIN table -> Machine(Ips, Clients)]

LEMMA TableTypes ==
    ASSUME NEW table, TableOf(table), NEW m \in Ips, NEW c \in Clients
    PROVE  /\ TableOf(EmptyTable)
           /\ TableOf(OnConnect(table, m, m, c))
           /\ TableOf(OnDisconnect(table, m, 0))
<1> USE DEF TableOf
<1>1. TableOf(EmptyTable)
  BY DEF EmptyTable
<1>2. ASSUME NEW x \in Machine(Ips, Clients) PROVE TableOf(Store(table, m, x))
  BY DEF Store
<1>3. NewMachine(m) \in Machine(Ips, Clients)
  BY DEF NewMachine, Machine
<1>4. TableOf(OnConnect(table, m, m, c))
  <2> DEFINE old == IF m \in DOMAIN table THEN table[m] ELSE NewMachine(m)
             on  == [ip |-> old.ip, connected |-> TRUE, session |-> c,
                     connections |-> old.connections + 1,
                     files |-> old.files]
  <2>1. old \in Machine(Ips, Clients)
    BY <1>3
  <2> HIDE DEF old
  <2>2. on \in Machine(Ips, Clients)
    BY <2>1 DEF Machine
  <2>3. OnConnect(table, m, m, c) = Store(table, m, on)
    BY DEF OnConnect, old
  <2> QED BY <1>2, <2>2, <2>3
<1>5. TableOf(OnDisconnect(table, m, 0))
  <2>1. CASE m \in DOMAIN table
    <3> DEFINE off == [ip |-> table[m].ip, connected |-> FALSE,
                       session |-> NoSession,
                       connections |-> table[m].connections,
                       files |-> table[m].files + 0]
    <3>1. table[m] \in Machine(Ips, Clients)
      BY <2>1
    <3>2. off \in Machine(Ips, Clients)
      BY <3>1 DEF Machine
    <3>3. OnDisconnect(table, m, 0) = Store(table, m, off)
      BY <2>1 DEF OnDisconnect
    <3> QED BY <1>2, <3>2, <3>3
  <2> QED BY <2>1 DEF OnDisconnect
<1> QED BY <1>1, <1>4, <1>5

\* The number of machines shown is a number.
LEMMA ConnectedCount ==
    ASSUME TypeOK PROVE Cardinality(ListConnected(machines)) \in Nat
<1>1. ListConnected(machines) \subseteq Ips
  BY DEF TypeOK, ListConnected
<1> QED BY <1>1, BusAssumption, FS_Subset, FS_CardinalityType

\* An event is added to the history and to every queue with room for it.
LEMMA EmitTypes ==
    ASSUME TypeOK, NEW type \in EventTypes, Emit(type)
    PROVE  /\ emitted' \in Seq(EventTypes)
           /\ Len(emitted') = Len(emitted) + 1
           /\ Len(emitted) \in Nat
           /\ EventIds \subseteq EventIds'
           /\ \A S : S \in Seq(EventIds) => S \in Seq(EventIds')
           /\ queue' \in [Sockets -> Seq(EventIds')]
           /\ \A w \in Sockets : Len(queue'[w]) <= QueueSize
           /\ dropped' \in [Sockets -> SUBSET EventIds']
<1> DEFINE event == Len(emitted) + 1
<1>1. /\ emitted \in Seq(EventTypes) /\ emitted' = Append(emitted, type)
      /\ Len(emitted) \in Nat
  BY DEF TypeOK, Emit
<1>2. emitted' \in Seq(EventTypes) /\ Len(emitted') = event
  BY <1>1
<1>3. EventIds' = 1..event /\ EventIds = 1..Len(emitted)
  BY <1>2 DEF EventIds
<1>4. EventIds \subseteq EventIds' /\ event \in EventIds'
  BY <1>1, <1>3
<1>5. \A S : S \in Seq(EventIds) => S \in Seq(EventIds')
  BY <1>4, SeqMonotonic
<1>6. queue' \in [Sockets -> Seq(EventIds')]
  <2>1. \A w \in Sockets : queue[w] \in Seq(EventIds')
    BY <1>5 DEF TypeOK
  <2>2. \A w \in Sockets : Append(queue[w], event) \in Seq(EventIds')
    BY <1>4, <2>1
  <2> QED BY <2>1, <2>2 DEF Emit
<1>7. \A w \in Sockets : Len(queue'[w]) <= QueueSize
  <2>1. SUFFICES ASSUME NEW w \in Sockets PROVE Len(queue'[w]) <= QueueSize
    OBVIOUS
  <2>2. queue[w] \in Seq(EventIds) /\ Len(queue[w]) <= QueueSize
    BY DEF TypeOK
  <2>3. Len(Append(queue[w], event)) = Len(queue[w]) + 1 /\ Len(queue[w]) \in Nat
    BY <2>2
  <2>4. ~ Full(w) => Len(queue[w]) + 1 <= QueueSize
    BY <2>3, BusAssumption DEF Full
  <2> QED BY <2>2, <2>3, <2>4 DEF Emit
<1>8. dropped' \in [Sockets -> SUBSET EventIds']
  <2>1. \A w \in Sockets : dropped[w] \in SUBSET EventIds'
    BY <1>4 DEF TypeOK
  <2> QED BY <1>4, <2>1 DEF Emit
<1> QED BY <1>1, <1>2, <1>4, <1>5, <1>6, <1>7, <1>8

\* A session's reports keep the types.
LEMMA SessionType ==
    ASSUME TypeOK, NEW c \in Clients, Session(c) PROVE TypeOK'
<1>1. PeerOf[c] \in Ips /\ TableOf(machines)
  BY BusAssumption DEF TypeOK, TableOf
<1>2. /\ UNCHANGED <<task, holding, wire, pageOf, since, got, page, count,
                     heard, early, subscribers>>
      /\ link' \in [Clients -> {"off", "served", "closing", "over"}]
      /\ overlap' \in BOOLEAN
  BY DEF Session, Connect, Activity, Leave, Report, SetLink, taskVars,
         pageVars, busVars, Emit, TypeOK
<1>3. TableOf(machines')
  BY <1>1, TableTypes DEF Session, Connect, Activity, Leave, Report
<1>4. CASE Leave(c)
  BY <1>2, <1>3, <1>4 DEF Leave, TypeOK, TableOf, busVars, EventIds
<1>5. CASE Connect(c) \/ Activity(c) \/ Report(c)
  <2>1. PICK type \in EventTypes : Emit(type)
    BY <1>5 DEF Connect, Activity, Report, EventTypes
  <2>2. /\ got' \in [Sockets -> Seq(EventIds')]
        /\ heard' \in [Pages -> SUBSET EventIds']
    BY <1>2, <2>1, EmitTypes DEF TypeOK
  <2> QED BY <1>2, <1>3, <2>1, <2>2, EmitTypes DEF TypeOK, TableOf
<1> QED BY <1>4, <1>5 DEF Session

\* A WebSocket's task and the end of its connection keep the types.
LEMMA SocketType ==
    ASSUME TypeOK, \A v \in Sockets : SocketInv(v), NEW w \in Sockets,
           Task(w) \/ Notice(w) \/ \E p \in Pages : Subscribe(w, p)
    PROVE  TypeOK'
<1> USE DEF TypeOK, busVars, taskVars, pageVars
<1>1. EventIds' = EventIds
  BY DEF Task, Take, Deliver, SendLost, SendFails, Unsubscribe, Notice,
         Subscribe, EventIds
<1>2. CASE \E p \in Pages : Subscribe(w, p)
  <2>1. Len(emitted) \in Nat
    OBVIOUS
  <2> QED BY <1>1, <1>2, <2>1 DEF Subscribe
<1>3. CASE Take(w)
  <2>1. queue[w] \in Seq(EventIds) /\ queue[w] # <<>>
    BY <1>3 DEF Take
  <2>2. /\ Head(queue[w]) \in EventIds /\ Tail(queue[w]) \in Seq(EventIds)
        /\ Len(Tail(queue[w])) <= QueueSize
    <3>1. /\ Len(Tail(queue[w])) = Len(queue[w]) - 1 /\ Len(queue[w]) \in Nat
          /\ Head(queue[w]) \in EventIds /\ Tail(queue[w]) \in Seq(EventIds)
      BY <2>1, HeadTailProperties
    <3>2. Len(queue[w]) <= QueueSize
      OBVIOUS
    <3> QED BY <3>1, <3>2, BusAssumption
  <2>3. Head(queue[w]) \in Nat
    BY <2>2 DEF EventIds
  <2> QED BY <1>1, <1>3, <2>2, <2>3 DEF Take
<1>4. CASE Deliver(w)
  <2>1. holding[w] \in EventIds /\ pageOf[w] \in Pages
    BY <1>4 DEF Deliver, SocketInv
  <2>2. Append(got[w], holding[w]) \in Seq(EventIds)
    BY <2>1
  <2>3. \A n \in Nat : \A type : Count(n, type) \in Nat
    BY DEF Count
  <2>4. got' \in [Sockets -> Seq(EventIds)]
    BY <1>4, <2>2 DEF Deliver
  <2>5. heard' \in [Pages -> SUBSET EventIds]
    BY <1>4, <2>1 DEF Deliver
  <2>6. count' \in [Pages -> Nat]
    BY <1>4, <2>1, <2>3 DEF Deliver
  <2> QED BY <1>1, <1>4, <2>4, <2>5, <2>6 DEF Deliver
<1>5. CASE SendLost(w) \/ SendFails(w)
  <2>1. /\ task' \in [Sockets -> {"none", "waiting", "sending", "leaving", "done"}]
        /\ holding' \in [Sockets -> Nat]
    <3>1. CASE SendLost(w)
      BY <3>1 DEF SendLost
    <3>2. CASE SendFails(w)
      BY <3>2 DEF SendFails
    <3> QED BY <1>5, <3>1, <3>2
  <2>2. UNCHANGED <<link, machines, overlap, busVars, wire, pageOf, since, got,
                    pageVars>>
    BY <1>5 DEF SendLost, SendFails
  <2> QED BY <1>1, <2>1, <2>2
<1>6. CASE Unsubscribe(w)
  <2>1. <<>> \in Seq(EventIds) /\ Len(<<>>) = 0
    OBVIOUS
  <2> QED BY <1>1, <1>6, <2>1, BusAssumption DEF Unsubscribe
<1>7. CASE Notice(w)
  BY <1>1, <1>7 DEF Notice
<1> QED BY <1>2, <1>3, <1>4, <1>5, <1>6, <1>7 DEF Task

\* A window keeps the types.
LEMMA WindowType ==
    ASSUME TypeOK, NEW p \in Pages, Window(p) PROVE TypeOK'
<1> USE DEF TypeOK, busVars, taskVars, pageVars
<1>1. EventIds' = EventIds
  BY DEF Window, Render, Break, EventIds
<1>2. CASE Render(p)
  BY <1>1, <1>2, ConnectedCount DEF Render
<1>3. ASSUME NEW next \in {"none", "lost"}, Break(p, next) PROVE TypeOK'
  <2>1. got' \in [Sockets -> Seq(EventIds)]
    <3>1. <<>> \in Seq(EventIds)
      OBVIOUS
    <3> QED BY <1>3, <3>1 DEF Break
  <2>2. /\ pageOf' \in [Sockets -> Pages \cup {NoPage}]
        /\ since' \in [Sockets -> Nat]
        /\ dropped' \in [Sockets -> SUBSET EventIds]
        /\ wire' \in [Sockets -> {"none", "open", "closed", "noticed"}]
        /\ page' \in [Pages -> {"none", "rendered", "live", "lost"}]
    BY <1>3 DEF Break
  <2>3. /\ count' \in [Pages -> Nat] /\ early' \subseteq Pages
        /\ heard' \in [Pages -> SUBSET EventIds]
    <3>1. Forget(p) \/ UNCHANGED <<count, heard, early>>
      BY <1>3 DEF Break
    <3>2. CASE Forget(p)
      BY <3>2 DEF Forget
    <3>3. CASE UNCHANGED <<count, heard, early>>
      BY <1>1, <3>3
    <3> QED BY <3>1, <3>2, <3>3
  <2> QED BY <1>1, <1>3, <2>1, <2>2, <2>3 DEF Break
<1> QED BY <1>2, <1>3 DEF Window

\* Every step keeps the types.
LEMMA TypeStep ==
    ASSUME TypeOK, \A w \in Sockets : SocketInv(w), [Next]_vars
    PROVE  TypeOK'
<1>1. CASE UNCHANGED vars
  BY <1>1 DEF vars, busVars, taskVars, pageVars, TypeOK, EventIds
<1> QED BY <1>1, StepCases, SessionType, SocketType, WindowType

-----------------------------------------------------------------------------
(* The feed                                                                *)

\* The feed of a socket, with and without an event on its way.
LEMMA FeedShape ==
    ASSUME TypeOK, NEW w \in Sockets, SocketInv(w)
    PROVE  /\ got[w] \in Seq(Nat) /\ queue[w] \in Seq(Nat)
           /\ task[w] = "sending" =>
                 /\ holding[w] \in Nat
                 /\ Feed(w) = (got[w] \o <<holding[w]>>) \o queue[w]
           /\ task[w] # "sending" => Feed(w) = got[w] \o queue[w]
           /\ Feed(w) \in Seq(Nat)
<1>1. got[w] \in Seq(Nat) /\ queue[w] \in Seq(Nat)
  <2>1. EventIds \subseteq Nat
    BY DEF EventIds
  <2>2. got[w] \in Seq(EventIds) /\ queue[w] \in Seq(EventIds)
    BY DEF TypeOK
  <2> QED BY <2>1, <2>2, SeqMonotonic
<1>2. CASE task[w] = "sending"
  <2>1. holding[w] \in Nat
    BY <1>2 DEF SocketInv, EventIds
  <2>2. Feed(w) = (got[w] \o <<holding[w]>>) \o queue[w]
    BY <1>2 DEF Feed
  <2>3. <<holding[w]>> \in Seq(Nat)
    BY <2>1
  <2> QED BY <1>1, <1>2, <2>1, <2>2, <2>3, ConcatProperties
<1>3. CASE task[w] # "sending"
  <2>1. Feed(w) = (got[w] \o <<>>) \o queue[w]
    BY <1>3 DEF Feed
  <2>2. Feed(w) = got[w] \o queue[w]
    BY <1>1, <2>1, ConcatEmptySeq
  <2> QED BY <1>1, <1>3, <2>2, ConcatProperties
<1> QED BY <1>1, <1>2, <1>3

\* The next event goes to the end of a complete feed, or is lost.
LEMMA NextEvent ==
    ASSUME NEW feed, NEW lost, NEW m \in Nat, NEW n \in Nat, m <= n,
           Complete(feed, lost, m, n)
    PROVE  /\ Complete(Append(feed, n + 1), lost, m, n + 1)
           /\ Complete(feed, lost \cup {n + 1}, m, n + 1)
<1> DEFINE Ids(f) == {f[i] : i \in 1..Len(f)}
           longer == Append(feed, n + 1)
<1>1. /\ feed \in Seq(Nat) /\ Len(feed) \in Nat
      /\ \A i, j \in 1..Len(feed) : i < j => feed[i] < feed[j]
      /\ Ids(feed) \cup lost = {i \in 1..n : i > m}
      /\ Ids(feed) \cap lost = {}
  BY DEF Complete
<1>2. /\ longer \in Seq(Nat) /\ Len(longer) = Len(feed) + 1
      /\ \A i \in 1..Len(feed) : longer[i] = feed[i]
      /\ longer[Len(feed) + 1] = n + 1
  BY <1>1, AppendProperties
<1> HIDE DEF longer
<1>3. {i \in 1..n + 1 : i > m} = {i \in 1..n : i > m} \cup {n + 1}
  OBVIOUS
<1>4. \A i \in 1..Len(feed) : feed[i] \in 1..n
  <2>1. \A i \in 1..Len(feed) : feed[i] \in Ids(feed)
    OBVIOUS
  <2> QED BY <1>1, <2>1
<1>5. Ids(longer) = Ids(feed) \cup {n + 1}
  <2>1. 1..Len(longer) = 1..Len(feed) \cup {Len(feed) + 1}
    BY <1>1, <1>2
  <2> QED BY <1>2, <2>1
<1>6. n + 1 \notin lost
  BY <1>1
<1>7. n + 1 \notin Ids(feed)
  <2>1. n + 1 \notin {i \in 1..n : i > m}
    OBVIOUS
  <2> QED BY ONLY <1>1, <2>1
<1>8. \A i, j \in 1..Len(longer) : i < j => longer[i] < longer[j]
  <2>1. SUFFICES ASSUME NEW i \in 1..Len(longer), NEW j \in 1..Len(longer), i < j
                 PROVE  longer[i] < longer[j]
    OBVIOUS
  <2>2. i \in 1..Len(feed)
    BY <1>1, <1>2, <2>1
  <2>3. CASE j \in 1..Len(feed)
    BY <1>1, <1>2, <2>1, <2>2, <2>3
  <2>4. CASE j = Len(feed) + 1
    BY <1>2, <1>4, <2>2, <2>4
  <2> QED BY <1>1, <1>2, <2>3, <2>4
<1>9. Ids(longer) \cup lost = {i \in 1..n + 1 : i > m} /\ Ids(longer) \cap lost = {}
  BY <1>1, <1>3, <1>5, <1>6
<1>10. Ids(feed) \cup (lost \cup {n + 1}) = {i \in 1..n + 1 : i > m}
       /\ Ids(feed) \cap (lost \cup {n + 1}) = {}
  BY <1>1, <1>3, <1>7
<1>11. Complete(longer, lost, m, n + 1)
  BY <1>2, <1>8, <1>9 DEF Complete
<1> QED BY <1>1, <1>10, <1>11 DEF Complete, longer

\* A socket that has just subscribed has missed nothing.
LEMMA NothingMissed ==
    ASSUME NEW n \in Nat PROVE Complete(<<>>, {}, n, n)
<1>1. <<>> \in Seq(Nat) /\ Len(<<>>) = 0
  OBVIOUS
<1>2. {i \in 1..n : i > n} = {}
  OBVIOUS
<1> QED BY <1>1, <1>2 DEF Complete

\* Appending to the queue is appending to the feed.
LEMMA AppendAtEnd ==
    ASSUME NEW front \in Seq(Nat), NEW q \in Seq(Nat), NEW e \in Nat
    PROVE  front \o Append(q, e) = Append(front \o q, e)
<1>1. <<e>> \in Seq(Nat)
  OBVIOUS
<1>2. Append(q, e) = q \o <<e>>
  BY AppendIsConcat
<1>3. (front \o q) \o <<e>> = front \o (q \o <<e>>)
  BY <1>1, ConcatAssociative
<1>4. front \o q \in Seq(Nat)
  BY ConcatProperties
<1>5. Append(front \o q, e) = (front \o q) \o <<e>>
  BY <1>4, AppendIsConcat
<1> QED BY <1>2, <1>3, <1>5

\* Taking the first event of the queue leaves the feed as it was.
LEMMA HeadFirst ==
    ASSUME NEW front \in Seq(Nat), NEW q \in Seq(Nat), q # <<>>
    PROVE  (front \o <<Head(q)>>) \o Tail(q) = front \o q
<1>1. Head(q) \in Nat /\ Tail(q) \in Seq(Nat)
  BY HeadTailProperties
<1>2. <<Head(q)>> \in Seq(Nat)
  BY <1>1
<1>3. (front \o <<Head(q)>>) \o Tail(q) = front \o (<<Head(q)>> \o Tail(q))
  BY <1>1, <1>2, ConcatAssociative
<1>4. <<Head(q)>> \o Tail(q) = q
  <2>1. 1 \in 1..Len(q) /\ Len(q) \in 1..Len(q)
    OBVIOUS
  <2>2. SubSeq(q, 1, Len(q)) = <<q[1]>> \o SubSeq(q, 2, Len(q))
    BY <2>1, SubSeqRecursiveFirst
  <2>3. SubSeq(q, 1, Len(q)) = q
    BY SubSeqFull
  <2>4. Tail(q) = SubSeq(q, 2, Len(q)) /\ Head(q) = q[1]
    BY TailIsSubSeq
  <2> QED BY ONLY <2>2, <2>3, <2>4
<1> QED BY ONLY <1>3, <1>4

\* An emission leaves every open subscriber's feed complete.
LEMMA EmitFeed ==
    ASSUME BusInv, NEW type \in EventTypes, Emit(type),
           UNCHANGED <<task, holding, wire, pageOf, since, got>>
    PROVE  FeedInv' /\ \A w \in Sockets : SocketInv(w)'
<1> DEFINE event == Len(emitted) + 1
<1>0. TypeOK /\ \A w \in Sockets : SocketInv(w)
  BY DEF BusInv
<1>1. /\ Len(emitted) \in Nat /\ Len(emitted') = event
      /\ subscribers' = subscribers /\ subscribers \subseteq Sockets
      /\ \A w \in Sockets : since[w] \in Nat
  BY <1>0, EmitTypes DEF Emit, TypeOK
<1>2. ASSUME NEW w \in subscribers, wire[w] = "open"
      PROVE  Complete(Feed(w)', dropped'[w], since'[w], Len(emitted'))
  <2>1. w \in Sockets /\ since[w] \in Nat /\ since[w] <= Len(emitted)
    BY <1>0, <1>1 DEF SocketInv
  <2>2. Complete(Feed(w), dropped[w], since[w], Len(emitted))
    BY <1>2 DEF BusInv, FeedInv
  <2>3. /\ Complete(Append(Feed(w), event), dropped[w], since[w], event)
        /\ Complete(Feed(w), dropped[w] \cup {event}, since[w], event)
    BY <1>1, <2>1, <2>2, NextEvent
  <2>4. CASE Full(w)
    <3>1. queue'[w] = queue[w] /\ dropped'[w] = dropped[w] \cup {event}
      BY <1>0, <1>2, <2>1, <2>4 DEF Emit, TypeOK
    <3>2. Feed(w)' = Feed(w)
      BY <3>1 DEF Feed
    <3> QED BY <1>1, <2>3, <3>1, <3>2
  <2>5. CASE ~ Full(w)
    <3>1. queue'[w] = Append(queue[w], event) /\ dropped'[w] = dropped[w]
      BY <1>0, <1>2, <2>1, <2>5 DEF Emit, TypeOK
    <3>2. got[w] \in Seq(Nat) /\ queue[w] \in Seq(Nat) /\ event \in Nat
      <4>1. got[w] \in Seq(Nat) /\ queue[w] \in Seq(Nat)
        BY <1>0, <2>1, FeedShape
      <4>2. event \in Nat
        BY <1>1
      <4> QED BY <4>1, <4>2
    <3>3. CASE task[w] = "sending"
      <4>1. <<holding[w]>> \in Seq(Nat)
        <5>1. holding[w] \in Nat
          BY <1>0, <2>1, <3>3, FeedShape
        <5> QED BY <5>1
      <4>2. got[w] \o <<holding[w]>> \in Seq(Nat)
        BY <3>2, <4>1, ConcatProperties
      <4>3. Feed(w)' = (got[w] \o <<holding[w]>>) \o Append(queue[w], event)
        BY <3>1, <3>3 DEF Feed
      <4>4. Feed(w) = (got[w] \o <<holding[w]>>) \o queue[w]
        BY <1>0, <2>1, <3>3, FeedShape
      <4>5. (got[w] \o <<holding[w]>>) \o Append(queue[w], event)
            = Append((got[w] \o <<holding[w]>>) \o queue[w], event)
        BY ONLY <3>2, <4>2, AppendAtEnd
      <4>6. Feed(w)' = Append(Feed(w), event)
        BY ONLY <4>3, <4>4, <4>5
      <4> QED BY <1>1, <2>3, <3>1, <4>6
    <3>4. CASE task[w] # "sending"
      <4>1. Feed(w)' = (got[w] \o <<>>) \o Append(queue[w], event)
        BY <3>1, <3>4 DEF Feed
      <4>2. got[w] \o <<>> = got[w]
        BY <3>2, ConcatEmptySeq
      <4>3. Feed(w) = got[w] \o queue[w]
        BY <1>0, <2>1, <3>4, FeedShape
      <4>4. Feed(w)' = got[w] \o Append(queue[w], event)
        BY ONLY <4>1, <4>2
      <4>5. got[w] \o Append(queue[w], event) = Append(got[w] \o queue[w], event)
        BY ONLY <3>2, AppendAtEnd
      <4>6. Feed(w)' = Append(Feed(w), event)
        BY ONLY <4>3, <4>4, <4>5
      <4> QED BY <1>1, <2>3, <3>1, <4>6
    <3> QED BY <3>3, <3>4
  <2> QED BY <2>4, <2>5
<1>3. ASSUME NEW w \in Sockets PROVE SocketInv(w)'
  <2>1. SocketInv(w) /\ since[w] \in Nat
    BY <1>0, <1>1
  <2>2. EventIds \subseteq EventIds'
    BY <1>0, EmitTypes
  <2>3. w \notin subscribers => queue'[w] = queue[w] /\ dropped'[w] = dropped[w]
    BY <1>0 DEF Emit, TypeOK
  <2> QED BY <1>1, <2>1, <2>2, <2>3 DEF SocketInv
<1>4. FeedInv'
  BY <1>1, <1>2 DEF FeedInv
<1> QED BY <1>3, <1>4

\* What the sockets hold when no event is emitted: unless its feed or its
\* place in the list changes, a socket's feed stays complete.
LEMMA StillComplete ==
    ASSUME BusInv, emitted' = emitted,
           \A w \in subscribers' :
              wire'[w] = "open" =>
                 /\ w \in subscribers /\ wire[w] = "open"
                 /\ Feed(w)' = Feed(w)
                 /\ dropped'[w] = dropped[w] /\ since'[w] = since[w]
    PROVE  FeedInv'
BY DEF BusInv, FeedInv

\* A task's steps move an event from the queue to the page, one at a time.
LEMMA TaskFeed ==
    ASSUME BusInv, NEW w \in Sockets, Task(w)
    PROVE  FeedInv' /\ \A v \in Sockets : SocketInv(v)'
<1>0. TypeOK /\ \A v \in Sockets : SocketInv(v)
  BY DEF BusInv
<1>1. /\ UNCHANGED <<emitted, dropped, since, wire, pageOf>>
      /\ subscribers' \subseteq subscribers
      /\ EventIds' = EventIds
  BY DEF Task, Take, Deliver, SendLost, SendFails, Unsubscribe, EventIds,
         busVars
<1>2. ASSUME NEW v \in Sockets, v # w
      PROVE  /\ queue'[v] = queue[v] /\ task'[v] = task[v]
             /\ holding'[v] = holding[v] /\ got'[v] = got[v]
             /\ v \in subscribers' <=> v \in subscribers
  BY <1>0, <1>2 DEF Task, Take, Deliver, SendLost, SendFails, Unsubscribe,
                    busVars, TypeOK
<1>3. \A v \in Sockets : v # w => Feed(v)' = Feed(v) /\ SocketInv(v)'
  BY <1>0, <1>1, <1>2 DEF Feed, SocketInv
<1>4. subscribers \subseteq Sockets
  BY <1>0 DEF TypeOK
<1>5. CASE Take(w)
  <2>1. /\ queue[w] \in Seq(EventIds) /\ queue[w] # <<>>
        /\ task[w] = "waiting" /\ task'[w] = "sending"
        /\ holding'[w] = Head(queue[w]) /\ queue'[w] = Tail(queue[w])
        /\ got'[w] = got[w]
    BY <1>0, <1>5 DEF Take, TypeOK
  <2>2. /\ got[w] \in Seq(Nat) /\ queue[w] \in Seq(Nat)
        /\ Feed(w) = got[w] \o queue[w]
    BY <1>0, <2>1, FeedShape
  <2>3. Feed(w)' = (got[w] \o <<Head(queue[w])>>) \o Tail(queue[w])
    BY <2>1 DEF Feed
  <2>4. Feed(w)' = Feed(w)
    BY ONLY <2>1, <2>2, <2>3, HeadFirst
  <2>5. Head(queue[w]) \in EventIds
    BY <2>1, HeadTailProperties
  <2>6. SocketInv(w)'
    BY <1>0, <1>1, <2>1, <2>5 DEF SocketInv
  <2> QED BY <1>1, <1>3, <1>4, <2>4, <2>6, StillComplete
<1>6. CASE Deliver(w)
  <2>1. /\ task[w] = "sending" /\ task'[w] = "waiting"
        /\ got'[w] = Append(got[w], holding[w]) /\ queue'[w] = queue[w]
    BY <1>0, <1>6 DEF Deliver, TypeOK, busVars
  <2>2. /\ got[w] \in Seq(Nat) /\ queue[w] \in Seq(Nat) /\ holding[w] \in Nat
        /\ Feed(w) = (got[w] \o <<holding[w]>>) \o queue[w]
    BY <1>0, <2>1, FeedShape
  <2>3. Feed(w)' = (Append(got[w], holding[w]) \o <<>>) \o queue[w]
    BY <2>1 DEF Feed
  <2>4. Append(got[w], holding[w]) = got[w] \o <<holding[w]>>
    BY <2>2, AppendIsConcat
  <2>5. Append(got[w], holding[w]) \o <<>> = Append(got[w], holding[w])
    BY <2>2, AppendProperties, ConcatEmptySeq
  <2>6. Feed(w)' = Feed(w)
    BY ONLY <2>2, <2>3, <2>4, <2>5
  <2>7. SocketInv(w)'
    BY <1>0, <1>1, <2>1 DEF SocketInv
  <2> QED BY <1>1, <1>3, <1>4, <2>6, <2>7, StillComplete
<1>7. CASE SendLost(w) \/ SendFails(w)
  <2>1. wire[w] # "open" /\ task[w] = "sending"
    BY <1>7 DEF SendLost, SendFails
  <2>2. task'[w] \in {"waiting", "leaving"} /\ subscribers' = subscribers
    BY <1>0, <1>7 DEF SendLost, SendFails, TypeOK, busVars
  <2>3. SocketInv(w)'
    BY <1>0, <1>1, <2>1, <2>2 DEF SocketInv
  <2> QED BY <1>1, <1>3, <1>4, <2>1, <2>3, StillComplete
<1>8. CASE Unsubscribe(w)
  <2>1. w \notin subscribers' /\ task'[w] = "done"
    BY <1>0, <1>8 DEF Unsubscribe, TypeOK
  <2>2. SocketInv(w)'
    BY <1>0, <1>1, <2>1 DEF SocketInv
  <2> QED BY <1>1, <1>3, <1>4, <2>1, <2>2, StillComplete
<1> QED BY <1>5, <1>6, <1>7, <1>8 DEF Task

\* A page that subscribes starts with an empty feed that has missed nothing.
LEMMA SubscribeFeed ==
    ASSUME BusInv, NEW w \in Sockets, NEW p \in Pages, Subscribe(w, p)
    PROVE  FeedInv' /\ \A v \in Sockets : SocketInv(v)'
<1>0. TypeOK /\ \A v \in Sockets : SocketInv(v)
  BY DEF BusInv
<1>1. /\ UNCHANGED <<emitted, queue, dropped, holding, got>>
      /\ subscribers' = subscribers \cup {w} /\ subscribers \subseteq Sockets
      /\ EventIds' = EventIds /\ Len(emitted) \in Nat
  BY <1>0 DEF Subscribe, EventIds, TypeOK
<1>2. ASSUME NEW v \in Sockets, v # w
      PROVE  /\ task'[v] = task[v] /\ wire'[v] = wire[v]
             /\ pageOf'[v] = pageOf[v] /\ since'[v] = since[v]
  BY <1>0, <1>2 DEF Subscribe, TypeOK
<1>3. ASSUME NEW v \in Sockets, v # w
      PROVE  /\ Feed(v)' = Feed(v) /\ SocketInv(v)'
             /\ v \in subscribers' <=> v \in subscribers
  BY <1>0, <1>1, <1>2, <1>3 DEF Feed, SocketInv
<1>4. /\ task[w] = "none" /\ task'[w] = "waiting"
      /\ pageOf'[w] = p /\ since'[w] = Len(emitted)
  BY <1>0 DEF Subscribe, TypeOK
<1>5. queue'[w] = <<>> /\ got'[w] = <<>> /\ dropped'[w] = {}
  BY <1>0, <1>1, <1>4 DEF SocketInv
<1>6. Feed(w)' = <<>>
  <2>1. Feed(w)' = (<<>> \o <<>>) \o <<>>
    BY <1>4, <1>5 DEF Feed
  <2> QED BY <2>1
<1>7. SocketInv(w)'
  BY <1>1, <1>4 DEF SocketInv
<1>8. FeedInv'
  <2>1. SUFFICES ASSUME NEW v \in subscribers', wire'[v] = "open"
                 PROVE  Complete(Feed(v)', dropped'[v], since'[v], Len(emitted'))
    BY DEF FeedInv
  <2>2. CASE v = w
    BY <1>1, <1>4, <1>5, <1>6, <2>2, NothingMissed
  <2>3. CASE v # w
    BY <1>1, <1>2, <1>3, <2>1, <2>3 DEF BusInv, FeedInv
  <2> QED BY <2>2, <2>3
<1> QED BY <1>3, <1>7, <1>8

\* A window that goes takes its open connections out of the property, and
\* touches nobody else's.
LEMMA WindowFeed ==
    ASSUME BusInv, NEW p \in Pages, Window(p)
    PROVE  FeedInv' /\ \A v \in Sockets : SocketInv(v)'
<1>0. TypeOK /\ \A v \in Sockets : SocketInv(v)
  BY DEF BusInv
<1>1. CASE Render(p)
  <2>1. UNCHANGED <<emitted, subscribers, queue, dropped, taskVars>>
    BY <1>1 DEF Render, busVars
  <2>2. \A v \in Sockets : Feed(v)' = Feed(v) /\ SocketInv(v)'
    BY <1>0, <2>1 DEF taskVars, Feed, SocketInv, EventIds
  <2>3. subscribers \subseteq Sockets
    BY <1>0 DEF TypeOK
  <2> QED BY <2>1, <2>2, <2>3, StillComplete DEF taskVars
<1>2. ASSUME NEW next \in {"none", "lost"}, Break(p, next)
      PROVE  FeedInv' /\ \A v \in Sockets : SocketInv(v)'
  <2>1. UNCHANGED <<emitted, subscribers, queue, task, holding>>
    BY <1>2 DEF Break
  <2>2. /\ EventIds' = EventIds /\ subscribers \subseteq Sockets
        /\ Len(emitted) \in Nat /\ NoPage \notin Pages
    BY <1>0, <2>1, BusAssumption DEF EventIds, TypeOK
  <2>3. ASSUME NEW v \in Sockets, pageOf[v] = p
        PROVE  /\ wire'[v] # "open" /\ (wire'[v] = "none" <=> wire[v] = "none")
               /\ got'[v] = <<>> /\ dropped'[v] = {} /\ since'[v] = 0
    BY <1>2, <2>3 DEF Break
  <2>4. ASSUME NEW v \in Sockets, pageOf[v] # p
        PROVE  /\ wire'[v] = wire[v] /\ pageOf'[v] = pageOf[v]
               /\ got'[v] = got[v] /\ dropped'[v] = dropped[v]
               /\ since'[v] = since[v]
    BY <1>2, <2>4 DEF Break
  <2>5. \A v \in Sockets : SocketInv(v)'
    <3>1. SUFFICES ASSUME NEW v \in Sockets PROVE SocketInv(v)'
      OBVIOUS
    <3>2. CASE pageOf[v] = p
      BY <1>0, <2>1, <2>2, <2>3, <3>2 DEF SocketInv
    <3>3. CASE pageOf[v] # p
      BY <1>0, <2>1, <2>2, <2>4, <3>3 DEF SocketInv
    <3> QED BY <3>2, <3>3
  <2>6. \A v \in Sockets : wire'[v] = "open" =>
           wire[v] = "open" /\ Feed(v)' = Feed(v)
           /\ dropped'[v] = dropped[v] /\ since'[v] = since[v]
    BY <2>1, <2>3, <2>4 DEF Feed
  <2>7. FeedInv'
    BY <2>1, <2>2, <2>6, StillComplete
  <2> QED BY <2>5, <2>7
<1> QED BY <1>1, <1>2 DEF Window

\* A step that leaves the bus and the tasks alone leaves the feeds alone.
LEMMA Unmoved ==
    ASSUME BusInv, UNCHANGED <<busVars, taskVars>>
    PROVE  FeedInv' /\ \A v \in Sockets : SocketInv(v)'
<1>1. UNCHANGED <<emitted, subscribers, queue, dropped, task, holding, wire,
                  pageOf, since, got>>
  BY DEF busVars, taskVars
<1>2. \A v \in Sockets : Feed(v)' = Feed(v) /\ SocketInv(v)'
  BY <1>1 DEF BusInv, Feed, SocketInv, EventIds
<1>3. subscribers \subseteq Sockets
  BY DEF BusInv, TypeOK
<1> QED BY <1>1, <1>2, <1>3, StillComplete

\* Every step keeps the invariant.
LEMMA BusStep == BusInv /\ [Next]_vars => BusInv'
<1> SUFFICES ASSUME BusInv, [Next]_vars PROVE BusInv'
  OBVIOUS
<1>0. TypeOK /\ \A v \in Sockets : SocketInv(v)
  BY DEF BusInv
<1>1. TypeOK'
  BY <1>0, TypeStep
<1>2. FeedInv' /\ \A v \in Sockets : SocketInv(v)'
  <2>1. ASSUME NEW c \in Clients, Session(c)
        PROVE  FeedInv' /\ \A v \in Sockets : SocketInv(v)'
    <3>1. CASE Leave(c)
      <4>1. UNCHANGED <<busVars, taskVars>>
        BY <3>1 DEF Leave
      <4> QED BY <1>0, <4>1, Unmoved
    <3>2. CASE Connect(c) \/ Activity(c) \/ Report(c)
      <4>1. PICK type \in EventTypes : Emit(type)
        BY <3>2 DEF Connect, Activity, Report, EventTypes
      <4>2. UNCHANGED taskVars
        BY <3>2 DEF Connect, Activity, Report
      <4> QED BY <4>1, <4>2, EmitFeed DEF taskVars
    <3> QED BY <2>1, <3>1, <3>2 DEF Session
  <2>2. ASSUME NEW w \in Sockets, Notice(w)
        PROVE  FeedInv' /\ \A v \in Sockets : SocketInv(v)'
    <3>1. /\ UNCHANGED <<busVars, task, holding, pageOf, since, got>>
          /\ wire' = [wire EXCEPT ![w] = "noticed"] /\ wire[w] = "closed"
      BY <2>2 DEF Notice
    <3>2. \A v \in Sockets : /\ wire'[v] = "open" => wire[v] = "open"
                             /\ wire[v] = "none" => wire'[v] = "none"
      BY <1>0, <3>1 DEF TypeOK
    <3>3. \A v \in Sockets : Feed(v)' = Feed(v) /\ SocketInv(v)'
      BY <1>0, <3>1, <3>2 DEF busVars, Feed, SocketInv, EventIds
    <3>4. subscribers \subseteq Sockets
      BY <1>0 DEF TypeOK
    <3> QED BY <3>1, <3>2, <3>3, <3>4, StillComplete DEF busVars
  <2>3. CASE UNCHANGED vars
    BY <1>0, <2>3, Unmoved DEF vars
  <2> QED BY <2>1, <2>2, <2>3, StepCases, TaskFeed, SubscribeFeed, WindowFeed
<1> QED BY <1>1, <1>2 DEF BusInv

-----------------------------------------------------------------------------
(* Theorems                                                                *)

\* Nothing has been emitted and nobody has subscribed.
LEMMA BusInit == Init => BusInv
<1> SUFFICES ASSUME Init PROVE BusInv
  OBVIOUS
<1>1. TypeOK
  <2>1. DOMAIN machines = {} /\ machines = [i \in {} |-> NewMachine(i)]
    BY DEF Init, EmptyTable
  <2>2. <<>> \in Seq(EventIds) /\ <<>> \in Seq(EventTypes) /\ Len(<<>>) = 0
    OBVIOUS
  <2>3. /\ queue \in [Sockets -> Seq(EventIds)]
        /\ got \in [Sockets -> Seq(EventIds)]
        /\ \A w \in Sockets : Len(queue[w]) <= QueueSize
    BY <2>2, BusAssumption DEF Init
  <2> QED BY <2>1, <2>2, <2>3 DEF Init, TypeOK
<1>2. ASSUME NEW w \in Sockets PROVE SocketInv(w)
  <2>1. Len(emitted) = 0
    BY DEF Init
  <2> QED BY <2>1 DEF Init, SocketInv
<1>3. FeedInv
  BY DEF Init, FeedInv
<1> QED BY <1>1, <1>2, <1>3 DEF BusInv

\* The inductive invariant holds in every reachable state.
THEOREM BusInvariance == Spec => []BusInv
BY BusInit, BusStep, PTL DEF Spec

\* The bus's variables keep their types for any number of sessions, windows
\* and sockets: no queue outgrows its size, and no number shown is negative.
THEOREM BusTypeCorrect == Spec => []TypeOK
BY BusInvariance, PTL DEF BusInv

\* As long as its connection is open, a subscriber's page gets every event
\* since it subscribed, once and in order, but for those its full queue has
\* dropped, whatever the other subscribers do.
THEOREM FeedsInOrder == Spec => []FeedInOrder
<1>1. BusInv => FeedInOrder
  <2>1. ASSUME BusInv, NEW w \in subscribers, wire[w] = "open"
        PROVE  LET feed == Feed(w)
                   ids == {feed[i] : i \in 1..Len(feed)}
               IN  /\ \A i, j \in 1..Len(feed) : i < j => feed[i] < feed[j]
                   /\ ids \cup dropped[w] = {i \in EventIds : i > since[w]}
                   /\ ids \cap dropped[w] = {}
    BY <2>1 DEF BusInv, FeedInv, Complete, EventIds
  <2> QED BY <2>1 DEF FeedInOrder
<1> QED BY <1>1, BusInvariance, PTL

-----------------------------------------------------------------------------
(* The number of connected machines                                        *)

\* How many of the first k events are of a type.
Number(events, type, k) == Cardinality({i \in 1..k : events[i] = type})

Sessions(states) == {c \in Clients : link[c] \in states}

\* A session is announced once and retracted once, in that order: so at any
\* time in the past no more had been retracted than announced.
TallyInv ==
    /\ IsFiniteSet(Sessions({"served", "closing", "over"}))
    /\ Number(emitted, "connected", Len(emitted)) =
          Cardinality(Sessions({"served", "closing", "over"}))
    /\ Number(emitted, "disconnected", Len(emitted)) =
          Cardinality(Sessions({"over"}))
    /\ \A k \in 0..Len(emitted) :
          Number(emitted, "disconnected", k) <= Number(emitted, "connected", k)

\* While no machine has had two sessions at once, the machines shown as
\* connected are those of the sessions being served, one each.
TableInv ==
    ~ overlap =>
        /\ ListConnected(machines) = {PeerOf[c] : c \in Sessions({"served"})}
        /\ \A c, d \in Sessions({"served", "closing"}) :
              PeerOf[c] = PeerOf[d] => c = d

\* A window has one open connection, and its number accounts for no event
\* later than the last one received from it.
WindowInv ==
    \A w \in Sockets :
        /\ task[w] \in {"waiting", "sending", "leaving"} => w \in subscribers
        /\ wire[w] = "open" =>
              /\ page[pageOf[w]] = "live"
              /\ \A v \in Sockets :
                    wire[v] = "open" /\ pageOf[v] = pageOf[w] => v = w
              /\ \A e \in heard[pageOf[w]] :
                    e <= since[w] \/ \E n \in 1..Len(got[w]) : got[w][n] = e

\* A page's number accounts for all of the first k events that matter to it,
\* and for none after them.
CaughtUp(p, k) ==
    /\ heard[p] \subseteq 1..k
    /\ \A i \in 1..k : emitted[i] # "activity" => i \in heard[p]

\* The number shown is the number of sessions announced and not retracted as
\* of the last event heard, unless some event before that one was missed.
NumberInv ==
    \A p \in Pages :
        page[p] # "none" /\ ~ overlap /\ p \notin early =>
            \A k \in 0..Len(emitted) :
                CaughtUp(p, k) =>
                    count[p] = Number(emitted, "connected", k)
                               - Number(emitted, "disconnected", k)

CountInv == BusInv /\ TallyInv /\ TableInv /\ WindowInv /\ NumberInv

\* Counting one event further.
LEMMA NumberNext ==
    ASSUME NEW events, NEW type, NEW k \in Nat
    PROVE  /\ Number(events, type, k) \in Nat
           /\ Number(events, type, 0) = 0
           /\ events[k + 1] = type =>
                 Number(events, type, k + 1) = Number(events, type, k) + 1
           /\ events[k + 1] # type =>
                 Number(events, type, k + 1) = Number(events, type, k)
<1> DEFINE Of(n) == {i \in 1..n : events[i] = type}
<1>1. IsFiniteSet(Of(k))
  <2>1. IsFiniteSet(1..k)
    BY FS_Interval
  <2>2. Of(k) \in SUBSET (1..k)
    OBVIOUS
  <2> QED BY <2>1, <2>2, FS_Subset
<1>2. Of(0) = {}
  OBVIOUS
<1>3. Of(k + 1) = IF events[k + 1] = type THEN Of(k) \cup {k + 1} ELSE Of(k)
  OBVIOUS
<1>4. k + 1 \notin Of(k)
  OBVIOUS
<1>5. Cardinality(Of(k)) \in Nat /\ Cardinality(Of(0)) = 0
  BY <1>1, <1>2, FS_CardinalityType, FS_EmptySet
<1> HIDE DEF Of
<1>6. /\ events[k + 1] = type => Cardinality(Of(k + 1)) = Cardinality(Of(k)) + 1
      /\ events[k + 1] # type => Cardinality(Of(k + 1)) = Cardinality(Of(k))
  <2>1. Cardinality(Of(k) \cup {k + 1}) = Cardinality(Of(k)) + 1
    BY <1>1, <1>4, FS_AddElement
  <2> QED BY <1>3, <1>5, <2>1
<1> QED BY <1>5, <1>6 DEF Number, Of

\* The count only looks at the events it counts.
LEMMA NumberSame ==
    ASSUME NEW events, NEW others, NEW type, NEW k \in Nat,
           \A i \in 1..k : events[i] = type <=> others[i] = type
    PROVE  Number(events, type, k) = Number(others, type, k)
<1>1. {i \in 1..k : events[i] = type} = {i \in 1..k : others[i] = type}
  OBVIOUS
<1> QED BY <1>1 DEF Number

\* A new event adds one to the number of its type, and changes no number of
\* the past.
LEMMA EmitNumbers ==
    ASSUME TypeOK, NEW type \in EventTypes, Emit(type)
    PROVE  /\ Len(emitted) \in Nat /\ Len(emitted') = Len(emitted) + 1
           /\ \A i \in 1..Len(emitted) : emitted'[i] = emitted[i]
           /\ emitted'[Len(emitted) + 1] = type
           /\ \A t : \A k \in 0..Len(emitted) :
                 Number(emitted', t, k) = Number(emitted, t, k)
           /\ Number(emitted', type, Len(emitted')) =
                 Number(emitted, type, Len(emitted)) + 1
           /\ \A t : t # type => Number(emitted', t, Len(emitted')) =
                                    Number(emitted, t, Len(emitted))
<1>1. /\ Len(emitted) \in Nat /\ Len(emitted') = Len(emitted) + 1
      /\ \A i \in 1..Len(emitted) : emitted'[i] = emitted[i]
      /\ emitted'[Len(emitted) + 1] = type
  <2>1. emitted \in Seq(EventTypes) /\ emitted' = Append(emitted, type)
    BY DEF TypeOK, Emit
  <2> QED BY <2>1, AppendProperties
<1>2. ASSUME NEW t, NEW k \in 0..Len(emitted)
      PROVE  Number(emitted', t, k) = Number(emitted, t, k)
  <2>1. k \in Nat /\ \A i \in 1..k : emitted'[i] = t <=> emitted[i] = t
    BY <1>1
  <2> QED BY <2>1, NumberSame
<1>3. ASSUME NEW t
      PROVE  /\ t = type => Number(emitted', t, Len(emitted')) =
                               Number(emitted, t, Len(emitted)) + 1
             /\ t # type => Number(emitted', t, Len(emitted')) =
                               Number(emitted, t, Len(emitted))
  <2>1. Number(emitted', t, Len(emitted)) = Number(emitted, t, Len(emitted))
    BY <1>1, <1>2
  <2> QED BY <1>1, <2>1, NumberNext
<1> QED BY <1>1, <1>2, <1>3

\* What a session's step does to the states of the sessions.
LEMMA LinkStep ==
    ASSUME TypeOK, NEW c \in Clients, NEW old, NEW new, link[c] = old,
           SetLink(c, new), NEW states
    PROVE  Sessions(states)' = IF new \in states
                               THEN Sessions(states) \cup {c}
                               ELSE Sessions(states) \ {c}
BY DEF SetLink, TypeOK, Sessions

\* As many sessions are known as were announced, as many are over as were
\* retracted, and only a session that is known can be over.
LEMMA TallyStep ==
    ASSUME CountInv, [Next]_vars PROVE TallyInv'
<1> DEFINE Known == Sessions({"served", "closing", "over"})
           Over  == Sessions({"over"})
           n     == Len(emitted)
<1>0. TypeOK /\ TallyInv
  BY DEF CountInv, BusInv
<1>1. CASE UNCHANGED <<link, emitted>>
  <2>1. Known' = Known /\ Over' = Over
    BY <1>1 DEF Sessions
  <2> QED BY <1>0, <1>1, <2>1 DEF TallyInv
<1>2. ASSUME NEW c \in Clients, Leave(c) PROVE TallyInv'
  <2>1. link[c] = "served" /\ SetLink(c, "closing") /\ emitted' = emitted
    BY <1>2 DEF Leave, busVars
  <2>2. Known' = Known \cup {c} /\ Over' = Over \ {c}
    BY <1>0, <2>1, LinkStep
  <2>3. Known' = Known /\ Over' = Over
    BY <2>1, <2>2 DEF Sessions
  <2> QED BY <1>0, <2>1, <2>3 DEF TallyInv
<1>3. ASSUME NEW c \in Clients, Connect(c) \/ Activity(c) \/ Report(c)
      PROVE  TallyInv'
  <2>1. PICK type \in EventTypes :
           /\ Emit(type)
           /\ type = "connected" =>
                 link[c] = "off" /\ SetLink(c, "served")
           /\ type = "disconnected" =>
                 link[c] = "closing" /\ SetLink(c, "over")
           /\ type = "activity" => UNCHANGED link
    BY <1>3 DEF Connect, Activity, Report, EventTypes
  <2>2. /\ n \in Nat /\ Len(emitted') = n + 1
        /\ \A t : \A k \in 0..n : Number(emitted', t, k) = Number(emitted, t, k)
        /\ Number(emitted', type, Len(emitted')) = Number(emitted, type, n) + 1
        /\ \A t : t # type =>
              Number(emitted', t, Len(emitted')) = Number(emitted, t, n)
    BY <1>0, <2>1, EmitNumbers
  <2>3. /\ IsFiniteSet(Known) /\ IsFiniteSet(Over)
        /\ Cardinality(Known) \in Nat /\ Cardinality(Over) \in Nat
    <3>1. IsFiniteSet(Known) /\ Over \in SUBSET Known
      BY <1>0 DEF TallyInv, Sessions
    <3> QED BY <3>1, FS_Subset, FS_CardinalityType
  <2>4. /\ IsFiniteSet(Known') /\ Over' \subseteq Known'
        /\ type = "connected" => Cardinality(Known') = Cardinality(Known) + 1
        /\ type # "connected" => Known' = Known
        /\ type = "disconnected" => Cardinality(Over') = Cardinality(Over) + 1
        /\ type # "disconnected" => Over' = Over
    <3>1. Over' \subseteq Known'
      BY DEF Sessions
    <3>2. CASE type = "connected"
      <4>1. Known' = Known \cup {c} /\ Over' = Over \ {c}
        BY <1>0, <2>1, <3>2, LinkStep
      <4>2. c \notin Known /\ c \notin Over
        BY <2>1, <3>2 DEF Sessions
      <4>3. Over' = Over
        BY <4>1, <4>2
      <4> HIDE DEF Known, Over
      <4>4. /\ IsFiniteSet(Known \cup {c})
            /\ Cardinality(Known \cup {c}) = Cardinality(Known) + 1
        BY <2>3, <4>2, FS_AddElement
      <4> QED BY <2>3, <3>1, <3>2, <4>1, <4>3, <4>4
    <3>3. CASE type = "disconnected"
      <4>1. Known' = Known \cup {c} /\ Over' = Over \cup {c}
        BY <1>0, <2>1, <3>3, LinkStep
      <4>2. c \in Known /\ c \notin Over
        BY <2>1, <3>3 DEF Sessions
      <4>3. Known' = Known
        BY <4>1, <4>2
      <4> HIDE DEF Known, Over
      <4>4. Cardinality(Over \cup {c}) = Cardinality(Over) + 1
        BY <2>3, <4>2, FS_AddElement
      <4> QED BY <2>3, <3>1, <3>3, <4>1, <4>3, <4>4
    <3>4. CASE type = "activity"
      <4>1. Known' = Known /\ Over' = Over
        BY <2>1, <3>4 DEF Sessions
      <4> HIDE DEF Known, Over
      <4> QED BY <2>3, <3>1, <3>4, <4>1
    <3> QED BY <3>2, <3>3, <3>4 DEF EventTypes
  <2>5. /\ Number(emitted', "connected", Len(emitted')) = Cardinality(Known')
        /\ Number(emitted', "disconnected", Len(emitted')) = Cardinality(Over')
    BY <1>0, <2>2, <2>4 DEF TallyInv
  <2>6. Cardinality(Over') <= Cardinality(Known')
    BY <2>4, FS_Subset
  <2>7. \A k \in 0..Len(emitted') : Number(emitted', "disconnected", k)
                                    <= Number(emitted', "connected", k)
    <3>1. \A k \in 0..n : Number(emitted', "disconnected", k)
                          <= Number(emitted', "connected", k)
      BY <1>0, <2>2 DEF TallyInv
    <3>2. \A k \in 0..Len(emitted') : k \in 0..n \/ k = Len(emitted')
      BY <2>2
    <3> QED BY <2>5, <2>6, <3>1, <3>2
  <2> QED BY <2>4, <2>5, <2>7 DEF TallyInv
<1>4. (\A c \in Clients : ~ Session(c)) => UNCHANGED <<link, emitted>>
  BY StepCases DEF Window, Render, Break, Task, Take, Deliver, SendLost,
     SendFails, Unsubscribe, Notice, Subscribe, vars, busVars
<1> QED BY <1>1, <1>2, <1>3, <1>4 DEF Session

\* What a session's reports to the registry do to the list of connected
\* machines.
LEMMA ListStep ==
    ASSUME NEW table, NEW m, NEW s
    PROVE  /\ ListConnected(OnConnect(table, m, m, s)) =
                 ListConnected(table) \cup {m}
           /\ ListConnected(OnDisconnect(table, m, 0)) =
                 ListConnected(table) \ {m}
<1>1. ASSUME NEW x
      PROVE  ListConnected(Store(table, m, x)) =
                IF x.connected THEN ListConnected(table) \cup {m}
                ELSE ListConnected(table) \ {m}
  BY DEF ListConnected, Store
<1>2. \E x : OnConnect(table, m, m, s) = Store(table, m, x) /\ x.connected = TRUE
  BY DEF OnConnect
<1>3. CASE m \in DOMAIN table
  <2>1. \E x : /\ OnDisconnect(table, m, 0) = Store(table, m, x)
               /\ x.connected = FALSE
    BY <1>3 DEF OnDisconnect
  <2> QED BY <1>1, <1>2, <2>1
<1>4. CASE m \notin DOMAIN table
  <2>1. /\ OnDisconnect(table, m, 0) = table
        /\ m \notin ListConnected(table)
    BY <1>4 DEF OnDisconnect, ListConnected
  <2> QED BY <1>1, <1>2, <2>1
<1> QED BY <1>3, <1>4

\* While no machine has two sessions, the list follows the sessions.
LEMMA TableStep ==
    ASSUME CountInv, [Next]_vars PROVE TableInv'
<1> DEFINE Served == Sessions({"served"})
           Present == Sessions({"served", "closing"})
<1>0. TypeOK /\ TableInv
  BY DEF CountInv, BusInv
<1>1. CASE UNCHANGED <<link, machines, overlap>>
  <2>1. Served' = Served /\ Present' = Present
    BY <1>1 DEF Sessions
  <2> QED BY <1>0, <1>1, <2>1 DEF TableInv
<1>2. ASSUME NEW c \in Clients, Connect(c), ~ overlap' PROVE TableInv'
  <2>1. /\ link[c] = "off" /\ SetLink(c, "served") /\ ~ overlap
        /\ machines' = OnConnect(machines, PeerOf[c], PeerOf[c], c)
        /\ \A d \in Present : PeerOf[d] # PeerOf[c]
    BY <1>2 DEF Connect, Sessions
  <2>2. Served' = Served \cup {c} /\ Present' = Present \cup {c}
    BY <1>0, <2>1, LinkStep
  <2>3. ListConnected(machines') = ListConnected(machines) \cup {PeerOf[c]}
    BY <2>1, ListStep
  <2>4. /\ ListConnected(machines) = {PeerOf[d] : d \in Served}
        /\ \A d, e \in Present : PeerOf[d] = PeerOf[e] => d = e
    BY <1>0, <2>1 DEF TableInv
  <2>5. ListConnected(machines') = {PeerOf[d] : d \in Served'}
    BY <2>2, <2>3, <2>4
  <2>6. \A d, e \in Present' : PeerOf[d] = PeerOf[e] => d = e
    BY <2>1, <2>2, <2>4
  <2> QED BY <2>5, <2>6 DEF TableInv
<1>3. ASSUME NEW c \in Clients, Leave(c), ~ overlap' PROVE TableInv'
  <2>1. /\ link[c] = "served" /\ SetLink(c, "closing") /\ ~ overlap
        /\ machines' = OnDisconnect(machines, PeerOf[c], 0)
    BY <1>3 DEF Leave
  <2>2. Served' = Served \ {c} /\ Present' = Present \cup {c}
    BY <1>0, <2>1, LinkStep
  <2>3. c \in Present /\ Served \subseteq Present
    BY <2>1 DEF Sessions
  <2>4. ListConnected(machines') = ListConnected(machines) \ {PeerOf[c]}
    BY <2>1, ListStep
  <2>5. /\ ListConnected(machines) = {PeerOf[d] : d \in Served}
        /\ \A d, e \in Present : PeerOf[d] = PeerOf[e] => d = e
    BY <1>0, <2>1 DEF TableInv
  <2>6. ListConnected(machines') = {PeerOf[d] : d \in Served'}
    BY <2>2, <2>3, <2>4, <2>5
  <2> QED BY <2>2, <2>3, <2>5, <2>6 DEF TableInv
<1>4. ASSUME NEW c \in Clients, Report(c), ~ overlap' PROVE TableInv'
  <2>1. /\ link[c] = "closing" /\ SetLink(c, "over") /\ ~ overlap
        /\ machines' = machines
    BY <1>4 DEF Report
  <2>2. Served' = Served \ {c} /\ Present' = Present \ {c}
    BY <1>0, <2>1, LinkStep
  <2>3. c \notin Served
    BY <2>1 DEF Sessions
  <2> QED BY <1>0, <2>1, <2>2, <2>3 DEF TableInv
<1>5. overlap' => TableInv'
  BY DEF TableInv
<1>6. (\A c \in Clients : ~ (Connect(c) \/ Leave(c) \/ Report(c)))
         => UNCHANGED <<link, machines, overlap>>
  BY StepCases DEF Session, Activity, Window, Render, Break, Task, Take,
     Deliver, SendLost, SendFails, Unsubscribe, Notice, Subscribe, vars
<1> QED BY <1>1, <1>2, <1>3, <1>4, <1>5, <1>6

\* When no session is between its two reports, the list is as long as the
\* events say.
LEMMA ListedCount ==
    ASSUME TypeOK, TallyInv, TableInv, ~ overlap,
           \A c \in Clients : link[c] # "closing"
    PROVE  Cardinality(ListConnected(machines)) =
              Number(emitted, "connected", Len(emitted))
              - Number(emitted, "disconnected", Len(emitted))
<1> DEFINE Known == Sessions({"served", "closing", "over"})
           Over  == Sessions({"over"})
           Served == Sessions({"served"})
           machine == [c \in Served |-> PeerOf[c]]
<1>1. Served = Known \ Over /\ Over \subseteq Known
  BY DEF Sessions
<1>2. IsFiniteSet(Known) /\ IsFiniteSet(Over) /\ IsFiniteSet(Served)
  BY <1>1, FS_Subset DEF TallyInv
<1>3. Cardinality(Served) = Cardinality(Known) - Cardinality(Over)
  <2>1. Known \cap Over = Over
    BY <1>1
  <2> HIDE DEF Known, Over, Served
  <2> QED BY <1>1, <1>2, <2>1, FS_Difference
<1>4. machine \in Bijection(Served, ListConnected(machines))
  <2>1. /\ ListConnected(machines) = {PeerOf[c] : c \in Served}
        /\ \A c, d \in Served : PeerOf[c] = PeerOf[d] => c = d
    BY DEF TableInv, Sessions
  <2> HIDE DEF Served
  <2>2. machine \in [Served -> ListConnected(machines)]
    BY <2>1
  <2>3. \A c, d \in Served : machine[c] = machine[d] => c = d
    BY <2>1
  <2>4. \A m \in ListConnected(machines) : \E c \in Served : machine[c] = m
    BY <2>1
  <2> QED BY <2>2, <2>3, <2>4 DEF Bijection, Injection, Surjection, IsInjective
<1>5. Cardinality(ListConnected(machines)) = Cardinality(Served)
  <2>1. ExistsBijection(Served, ListConnected(machines))
    BY <1>4 DEF ExistsBijection
  <2> QED BY <1>2, <2>1, FS_Bijection
<1> QED BY <1>3, <1>5 DEF TallyInv

\* A connection is open for as long as it was, to the same window, and what
\* the window has got and accounts for is what it was.
LEMMA WindowKept ==
    ASSUME TypeOK, WindowInv,
           \A w \in Sockets :
              task'[w] \in {"waiting", "sending", "leaving"} =>
                 w \in subscribers',
           \A w \in Sockets :
              wire'[w] = "open" =>
                 /\ wire[w] = "open"
                 /\ pageOf'[w] = pageOf[w] /\ since'[w] = since[w]
                 /\ got'[w] = got[w]
                 /\ page'[pageOf[w]] = page[pageOf[w]]
                 /\ heard'[pageOf[w]] = heard[pageOf[w]]
    PROVE  WindowInv'
BY DEF WindowInv

\* A page that subscribes has heard of nothing later.
LEMMA SubscribeWindow ==
    ASSUME BusInv, WindowInv, NEW w \in Sockets, NEW p \in Pages,
           Subscribe(w, p)
    PROVE  WindowInv'
<1>0. TypeOK /\ \A v \in Sockets : SocketInv(v)
  BY DEF BusInv
<1>1. /\ UNCHANGED <<emitted, got, heard>>
      /\ subscribers' = subscribers \cup {w}
      /\ page[p] # "live" /\ page' = [page EXCEPT ![p] = "live"]
      /\ task'[w] = "waiting" /\ wire'[w] = "open" /\ pageOf'[w] = p
      /\ since'[w] = Len(emitted)
  BY <1>0 DEF Subscribe, TypeOK
<1>2. \A v \in Sockets \ {w} :
         /\ task'[v] = task[v] /\ wire'[v] = wire[v]
         /\ pageOf'[v] = pageOf[v] /\ since'[v] = since[v]
  BY <1>0 DEF Subscribe, TypeOK
<1>3. ASSUME NEW v \in Sockets \ {w}, wire[v] = "open"
      PROVE  pageOf[v] \in Pages /\ pageOf[v] # p /\ page[pageOf[v]] = "live"
  BY <1>0, <1>1, <1>3 DEF SocketInv, WindowInv
<1>4. \A e \in heard[p] : e <= Len(emitted)
  BY <1>0 DEF TypeOK, EventIds
<1>5. page'[p] = "live" /\ \A q \in Pages \ {p} : page'[q] = page[q]
  BY <1>0, <1>1 DEF TypeOK
<1>6. SUFFICES ASSUME NEW v \in Sockets
               PROVE  /\ task'[v] \in {"waiting", "sending", "leaving"} =>
                            v \in subscribers'
                      /\ wire'[v] = "open" =>
                            /\ page'[pageOf'[v]] = "live"
                            /\ \A u \in Sockets :
                                  /\ wire'[u] = "open"
                                  /\ pageOf'[u] = pageOf'[v]
                                  => u = v
                            /\ \A e \in heard'[pageOf'[v]] :
                                  \/ e <= since'[v]
                                  \/ \E n \in 1..Len(got'[v]) : got'[v][n] = e
  BY DEF WindowInv
<1>7. CASE v = w
  BY <1>1, <1>2, <1>3, <1>4, <1>5, <1>7
<1>8. CASE v # w
  BY <1>1, <1>2, <1>3, <1>5, <1>8 DEF WindowInv
<1> QED BY <1>7, <1>8

\* An event on its way is later than all those its page accounts for, and
\* has been emitted.
LEMMA NextHeard ==
    ASSUME BusInv, WindowInv, NEW w \in Sockets, Deliver(w)
    PROVE  /\ pageOf[w] \in Pages /\ page[pageOf[w]] = "live"
           /\ holding[w] \in EventIds
           /\ \A e \in heard[pageOf[w]] : e < holding[w]
<1>1. /\ TypeOK /\ SocketInv(w) /\ task[w] = "sending" /\ wire[w] = "open"
      /\ w \in subscribers
  BY DEF BusInv, Deliver, WindowInv
<1>2. /\ pageOf[w] \in Pages /\ holding[w] \in EventIds
      /\ page[pageOf[w]] = "live"
  BY <1>1 DEF SocketInv, WindowInv
<1>3. /\ got[w] \in Seq(Nat) /\ queue[w] \in Seq(Nat) /\ holding[w] \in Nat
      /\ Feed(w) = (got[w] \o <<holding[w]>>) \o queue[w]
  BY <1>1, FeedShape
<1>4. Complete(Feed(w), dropped[w], since[w], Len(emitted))
  BY <1>1 DEF BusInv, FeedInv
<1> DEFINE n == Len(got[w])
<1>5. /\ n \in Nat /\ n + 1 \in 1..Len(Feed(w))
      /\ Feed(w)[n + 1] = holding[w]
      /\ \A i \in 1..n : i \in 1..Len(Feed(w)) /\ Feed(w)[i] = got[w][i]
  <2> DEFINE front == got[w] \o <<holding[w]>>
  <2>1. /\ front \in Seq(Nat) /\ n \in Nat /\ Len(front) = n + 1
        /\ front[n + 1] = holding[w] /\ \A i \in 1..n : front[i] = got[w][i]
    BY <1>3
  <2> HIDE DEF front
  <2>2. /\ Len(front \o queue[w]) = Len(front) + Len(queue[w])
        /\ Len(queue[w]) \in Nat
        /\ \A i \in 1..Len(front) : (front \o queue[w])[i] = front[i]
    <3>1. Len(queue[w]) \in Nat /\ Len(front) \in Nat
      BY <1>3, <2>1
    <3>2. /\ Len(front \o queue[w]) = Len(front) + Len(queue[w])
          /\ \A i \in 1..Len(front) + Len(queue[w]) :
                (front \o queue[w])[i] =
                   IF i <= Len(front) THEN front[i]
                   ELSE queue[w][i - Len(front)]
      BY ONLY <1>3, <2>1, ConcatProperties
    <3> QED BY <3>1, <3>2
  <2>3. Feed(w) = front \o queue[w]
    BY <1>3 DEF front
  <2>4. n + 1 \in 1..Len(front) /\ \A i \in 1..n : i \in 1..Len(front)
    BY <2>1
  <2>5. \A i \in 1..Len(front) :
           i \in 1..Len(Feed(w)) /\ Feed(w)[i] = front[i]
    BY <2>1, <2>2, <2>3
  <2> QED BY <2>1, <2>4, <2>5
<1>6. \A i \in 1..n : got[w][i] < holding[w]
  BY <1>4, <1>5 DEF Complete
<1>7. since[w] < holding[w]
  <2>1. Feed(w)[n + 1] \in {i \in 1..Len(emitted) : i > since[w]}
    BY <1>4, <1>5 DEF Complete
  <2>2. since[w] \in Nat
    BY <1>1 DEF TypeOK
  <2> QED BY <1>3, <1>5, <2>1, <2>2
<1>8. heard[pageOf[w]] \subseteq Nat
  BY <1>1, <1>2 DEF TypeOK, EventIds
<1>9. \A e \in heard[pageOf[w]] :
         e <= since[w] \/ \E i \in 1..n : got[w][i] = e
  BY <1>1 DEF WindowInv
<1>10. since[w] \in Nat
  BY <1>1 DEF TypeOK
<1>11. ASSUME NEW e \in heard[pageOf[w]] PROVE e < holding[w]
  <2>1. e \in Nat
    BY <1>8
  <2>2. CASE e <= since[w]
    BY <1>3, <1>7, <1>10, <2>1, <2>2
  <2>3. CASE \E i \in 1..n : got[w][i] = e
    BY <1>6, <2>3
  <2> QED BY <1>9, <2>2, <2>3
<1> QED BY <1>2, <1>11

\* What the page gets, it accounts for.
LEMMA DeliverWindow ==
    ASSUME BusInv, WindowInv, NEW w \in Sockets, Deliver(w)
    PROVE  WindowInv'
<1> DEFINE p == pageOf[w]
<1>0. TypeOK /\ wire[w] = "open" /\ task[w] = "sending"
  BY DEF BusInv, Deliver
<1>1. /\ UNCHANGED <<subscribers, wire, pageOf, since, page>>
      /\ task' = [task EXCEPT ![w] = "waiting"]
      /\ got' = [got EXCEPT ![w] = Append(got[w], holding[w])]
      /\ heard' = [heard EXCEPT ![p] = heard[p] \cup {holding[w]}]
  BY DEF Deliver, busVars
<1>2. /\ got[w] \in Seq(EventIds) /\ holding[w] \in EventIds /\ p \in Pages
  BY <1>0, NextHeard DEF TypeOK
<1>3. /\ Len(got'[w]) = Len(got[w]) + 1 /\ Len(got[w]) \in Nat
      /\ got'[w][Len(got[w]) + 1] = holding[w]
      /\ \A i \in 1..Len(got[w]) : got'[w][i] = got[w][i]
  <2>1. got'[w] = Append(got[w], holding[w])
    BY <1>0, <1>1 DEF TypeOK
  <2> QED BY <1>2, <2>1, AppendProperties
<1>4. heard'[p] = heard[p] \cup {holding[w]}
  BY <1>0, <1>1, <1>2 DEF TypeOK
<1>5. \A e \in heard'[p] :
         e <= since[w] \/ \E n \in 1..Len(got'[w]) : got'[w][n] = e
  <2>1. ASSUME NEW e \in heard[p], ~ e <= since[w]
        PROVE  \E n \in 1..Len(got'[w]) : got'[w][n] = e
    <3>1. PICK n \in 1..Len(got[w]) : got[w][n] = e
      BY <1>0, <2>1 DEF WindowInv
    <3>2. n \in 1..Len(got'[w]) /\ got'[w][n] = e
      BY <1>3, <3>1
    <3> QED BY <3>2
  <2>2. \E n \in 1..Len(got'[w]) : got'[w][n] = holding[w]
    BY <1>3
  <2> QED BY <1>4, <2>1, <2>2
<1>6. ASSUME NEW v \in Sockets, v # w
      PROVE  /\ got'[v] = got[v] /\ task'[v] = task[v]
             /\ wire[v] = "open" => heard'[pageOf[v]] = heard[pageOf[v]]
  <2>1. wire[v] = "open" => pageOf[v] # p
    BY <1>0, <1>6 DEF WindowInv
  <2> QED BY <1>0, <1>1, <1>6, <2>1 DEF TypeOK
<1>7. w \in subscribers
  BY <1>0 DEF WindowInv
<1> QED BY <1>0, <1>1, <1>5, <1>6, <1>7 DEF WindowInv

\* Every step keeps a window's connection and its number in step.
LEMMA WindowStep ==
    ASSUME CountInv, [Next]_vars PROVE WindowInv'
<1>0. /\ BusInv /\ TypeOK /\ WindowInv
      /\ \A w \in Sockets : SocketInv(w)
  BY DEF CountInv, BusInv
<1>1. ASSUME UNCHANGED <<subscribers, taskVars, page, heard>>
      PROVE  WindowInv'
  <2>1. UNCHANGED <<task, wire, pageOf, since, got>>
    BY <1>1 DEF taskVars
  <2> QED BY <1>0, <1>1, <2>1, WindowKept DEF WindowInv
<1>2. ASSUME NEW c \in Clients, Session(c) PROVE WindowInv'
  <2>1. UNCHANGED <<subscribers, taskVars, page, heard>>
    BY <1>2 DEF Session, Connect, Activity, Leave, Report, Emit, busVars,
                pageVars
  <2> QED BY <1>1, <2>1
<1>3. ASSUME NEW w \in Sockets, Task(w) \/ Notice(w), ~ Deliver(w)
      PROVE  WindowInv'
  <2>1. /\ UNCHANGED <<pageOf, since, got, page, heard>>
        /\ \A v \in Sockets : wire'[v] = "open" => wire[v] = "open"
    BY <1>0, <1>3 DEF Task, Take, SendLost, SendFails, Unsubscribe, Notice,
                      pageVars, TypeOK
  <2>2. \A v \in Sockets : task'[v] \in {"waiting", "sending", "leaving"} =>
                              v \in subscribers'
    <3>1. CASE Unsubscribe(w)
      BY <1>0, <3>1 DEF Unsubscribe, TypeOK, WindowInv
    <3>2. CASE Take(w) \/ SendLost(w) \/ SendFails(w) \/ Notice(w)
      <4>1. /\ subscribers' = subscribers
            /\ \A v \in Sockets \ {w} : task'[v] = task[v]
            /\ task'[w] = task[w] \/ task[w] \in {"waiting", "sending"}
        BY <1>0, <3>2 DEF Take, SendLost, SendFails, Notice, busVars, TypeOK
      <4> QED BY <1>0, <4>1 DEF WindowInv
    <3> QED BY <1>3, <3>1, <3>2 DEF Task
  <2> QED BY <1>0, <2>1, <2>2, WindowKept
<1>4. ASSUME NEW p \in Pages, Render(p) PROVE WindowInv'
  <2>1. /\ UNCHANGED <<subscribers, task, wire, pageOf, since, got>>
        /\ page[p] = "none"
        /\ page' = [page EXCEPT ![p] = "rendered"]
        /\ heard' = [heard EXCEPT ![p] = EventIds]
    BY <1>4 DEF Render, busVars, taskVars
  <2>2. ASSUME NEW w \in Sockets, wire[w] = "open"
        PROVE  /\ page'[pageOf[w]] = page[pageOf[w]]
               /\ heard'[pageOf[w]] = heard[pageOf[w]]
    <3>1. pageOf[w] \in Pages /\ pageOf[w] # p
      BY <1>0, <2>1, <2>2 DEF SocketInv, WindowInv
    <3> QED BY <1>0, <2>1, <3>1 DEF TypeOK
  <2>3. \A w \in Sockets : task'[w] \in {"waiting", "sending", "leaving"} =>
                              w \in subscribers'
    BY <1>0, <2>1 DEF WindowInv
  <2> QED BY <1>0, <2>1, <2>2, <2>3, WindowKept
<1>5. ASSUME NEW p \in Pages, NEW next \in {"none", "lost"}, Break(p, next)
      PROVE  WindowInv'
  <2>1. /\ UNCHANGED <<subscribers, task>>
        /\ page' = [page EXCEPT ![p] = next]
        /\ \A q \in Pages \ {p} : heard'[q] = heard[q]
    BY <1>0, <1>5 DEF Break, Forget, TypeOK
  <2>2. ASSUME NEW w \in Sockets, wire'[w] = "open"
        PROVE  /\ wire[w] = "open" /\ pageOf[w] # p
               /\ pageOf'[w] = pageOf[w] /\ since'[w] = since[w]
               /\ got'[w] = got[w]
    BY <1>0, <1>5, <2>2 DEF Break
  <2>3. ASSUME NEW w \in Sockets, wire'[w] = "open"
        PROVE  /\ page'[pageOf[w]] = page[pageOf[w]]
               /\ heard'[pageOf[w]] = heard[pageOf[w]]
    <3>1. pageOf[w] \in Pages /\ pageOf[w] # p
      BY <1>0, <2>2, <2>3 DEF SocketInv
    <3> QED BY <1>0, <2>1, <3>1 DEF TypeOK
  <2>4. \A w \in Sockets : task'[w] \in {"waiting", "sending", "leaving"} =>
                              w \in subscribers'
    BY <1>0, <2>1 DEF WindowInv
  <2> QED BY <1>0, <2>2, <2>3, <2>4, WindowKept
<1>6. CASE UNCHANGED vars
  BY <1>1, <1>6 DEF vars, busVars, pageVars
<1> QED BY <1>0, <1>2, <1>3, <1>4, <1>5, <1>6, StepCases, SubscribeWindow,
           DeliverWindow DEF Window, Task

\* A page whose number, events and place in time are what they were shows
\* what it should.
LEMMA NumberKept ==
    ASSUME NumberInv, emitted' = emitted, overlap' = overlap,
           NEW p \in Pages, page'[p] # "none" => page[p] # "none",
           p \in early => p \in early',
           page'[p] # "none" => count'[p] = count[p] /\ heard'[p] = heard[p],
           page'[p] # "none" /\ ~ overlap' /\ p \notin early',
           NEW k \in 0..Len(emitted'), CaughtUp(p, k)'
    PROVE  count'[p] = Number(emitted', "connected", k)
                       - Number(emitted', "disconnected", k)
BY DEF NumberInv, CaughtUp

\* An event that was only emitted leaves no page caught up with it, unless
\* it is one that pages do not count.
LEMMA EmitKeepsNumber ==
    ASSUME CountInv, NEW type \in EventTypes, Emit(type),
           UNCHANGED pageVars, overlap => overlap'
    PROVE  NumberInv'
<1>0. TypeOK /\ NumberInv
  BY DEF CountInv, BusInv
<1> DEFINE n == Len(emitted)
<1>1. /\ n \in Nat /\ Len(emitted') = n + 1
      /\ \A i \in 1..n : emitted'[i] = emitted[i]
      /\ emitted'[n + 1] = type
      /\ \A t : \A k \in 0..n : Number(emitted', t, k) = Number(emitted, t, k)
      /\ \A t : t # type => Number(emitted', t, n + 1) = Number(emitted, t, n)
  BY <1>0, EmitNumbers
<1>2. UNCHANGED <<page, count, heard, early>>
  BY DEF pageVars
<1>3. SUFFICES ASSUME NEW p \in Pages, page[p] # "none", ~ overlap, p \notin early,
                      NEW k \in 0..Len(emitted'), CaughtUp(p, k)'
               PROVE  count[p] = Number(emitted', "connected", k)
                                 - Number(emitted', "disconnected", k)
  BY <1>2 DEF NumberInv
<1>4. /\ heard[p] \subseteq 1..k /\ heard[p] \subseteq 1..n
      /\ \A i \in 1..k : emitted'[i] # "activity" => i \in heard[p]
  BY <1>0, <1>2, <1>3 DEF CaughtUp, TypeOK, EventIds
<1>5. CASE k \in 0..n
  <2>1. CaughtUp(p, k)
    BY <1>1, <1>4, <1>5 DEF CaughtUp
  <2> QED BY <1>0, <1>1, <1>3, <1>5, <2>1 DEF NumberInv
<1>6. CASE k = n + 1
  <2>1. type = "activity"
    BY <1>1, <1>4, <1>6
  <2>2. CaughtUp(p, n)
    BY <1>1, <1>4, <1>6 DEF CaughtUp
  <2>3. n \in 0..n
    BY <1>1
  <2>4. count[p] = Number(emitted, "connected", n)
                   - Number(emitted, "disconnected", n)
    BY <1>0, <1>3, <2>2, <2>3 DEF NumberInv
  <2> QED BY <1>1, <1>6, <2>1, <2>4
<1> QED BY <1>1, <1>3, <1>5, <1>6

\* After an event has reached its page, the number accounts for it as well:
\* it was not at zero before a machine's disconnection.
LEMMA DeliverKeepsNumber ==
    ASSUME CountInv, NEW w \in Sockets, Deliver(w)
    PROVE  NumberInv'
<1> DEFINE p == pageOf[w]
           e == holding[w]
           C(k) == Number(emitted, "connected", k)
           D(k) == Number(emitted, "disconnected", k)
<1>0. /\ TypeOK /\ BusInv /\ TallyInv /\ WindowInv /\ NumberInv
      /\ UNCHANGED <<emitted, page, early, overlap>>
  BY DEF CountInv, BusInv, Deliver, busVars
<1>1. /\ p \in Pages /\ page[p] = "live" /\ e \in 1..Len(emitted)
      /\ \A i \in heard[p] : i < e
  BY <1>0, NextHeard DEF EventIds
<1>2. /\ Len(emitted) \in Nat /\ e \in Nat /\ e - 1 \in Nat
      /\ e - 1 \in 0..Len(emitted)
      /\ heard[p] \subseteq 1..Len(emitted) /\ count[p] \in Nat
      /\ emitted[e] \in EventTypes
  BY <1>0, <1>1 DEF TypeOK, EventIds
<1>3. /\ heard' = [heard EXCEPT ![p] = heard[p] \cup {e}]
      /\ count' = [count EXCEPT ![p] = Count(count[p], emitted[e])]
  BY DEF Deliver
<1>4. /\ heard'[p] = heard[p] \cup {e}
      /\ count'[p] = Count(count[p], emitted[e])
      /\ \A q \in Pages \ {p} : heard'[q] = heard[q] /\ count'[q] = count[q]
  BY <1>0, <1>1, <1>3 DEF TypeOK
<1>5. SUFFICES ASSUME NEW q \in Pages,
                      page'[q] # "none" /\ ~ overlap' /\ q \notin early',
                      NEW k \in 0..Len(emitted'), CaughtUp(q, k)'
               PROVE  count'[q] = Number(emitted', "connected", k)
                                  - Number(emitted', "disconnected", k)
  BY DEF NumberInv
<1>6. CASE q # p
  BY <1>0, <1>4, <1>5, <1>6, NumberKept
<1>7. CASE q = p
  <2>1. /\ heard[p] \cup {e} \subseteq 1..k /\ k \in Nat /\ k <= Len(emitted)
        /\ \A i \in 1..k : emitted[i] # "activity" => i \in heard[p] \cup {e}
    BY <1>0, <1>2, <1>4, <1>5, <1>7 DEF CaughtUp
  <2>2. CaughtUp(p, e - 1)
    <3>1. ASSUME NEW i \in heard[p] PROVE i \in 1..e - 1
      <4>1. i < e /\ i \in 1..Len(emitted)
        BY <1>1, <1>2
      <4> QED BY <1>2, <4>1
    <3>2. ASSUME NEW i \in 1..e - 1, emitted[i] # "activity"
          PROVE  i \in heard[p]
      <4>1. e \in 1..k /\ i # e
        BY <1>2, <2>1
      <4>2. i \in 1..k
        BY <1>2, <2>1, <4>1
      <4> QED BY <2>1, <3>2, <4>1, <4>2
    <3> QED BY <3>1, <3>2 DEF CaughtUp
  <2>3. count[p] = C(e - 1) - D(e - 1)
    BY <1>0, <1>1, <1>2, <1>5, <1>7, <2>2 DEF NumberInv
  <2>4. ASSUME NEW t, t # "activity"
        PROVE  Number(emitted, t, k) = Number(emitted, t, e)
    <3>1. ASSUME NEW i \in 1..k, i > e PROVE emitted[i] = "activity"
      <4>1. i \notin heard[p]
        BY <1>1, <1>2, <3>1
      <4>2. i # e
        BY <1>2, <3>1
      <4> QED BY <2>1, <4>1, <4>2
    <3>2. {i \in 1..k : emitted[i] = t} = {i \in 1..e : emitted[i] = t}
      BY <1>1, <1>2, <2>1, <2>4, <3>1
    <3> QED BY <3>2 DEF Number
  <2>5. C(k) = C(e) /\ D(k) = D(e)
    BY <2>4
  <2>6. /\ C(e - 1) \in Nat /\ D(e - 1) \in Nat
        /\ (e - 1) + 1 = e
    BY <1>2, NumberNext
  <2>7. ASSUME NEW t
        PROVE  /\ emitted[e] = t =>
                     Number(emitted, t, e) = Number(emitted, t, e - 1) + 1
               /\ emitted[e] # t =>
                     Number(emitted, t, e) = Number(emitted, t, e - 1)
    <3>1. /\ emitted[(e - 1) + 1] = t => Number(emitted, t, (e - 1) + 1) =
                                            Number(emitted, t, e - 1) + 1
          /\ emitted[(e - 1) + 1] # t => Number(emitted, t, (e - 1) + 1) =
                                            Number(emitted, t, e - 1)
      BY <1>2, NumberNext
    <3> QED BY <2>6, <3>1
  <2>8. D(e) <= C(e)
    <3>1. e \in 0..Len(emitted)
      BY <1>1, <1>2
    <3> QED BY <1>0, <3>1 DEF TallyInv
  <2>9. count'[p] = C(e) - D(e)
    <3>1. CASE emitted[e] = "connected"
      BY <1>4, <2>3, <2>6, <2>7, <3>1 DEF Count
    <3>2. CASE emitted[e] = "disconnected"
      <4>1. C(e) = C(e - 1) /\ D(e) = D(e - 1) + 1
        BY <2>7, <3>2
      <4>2. count[p] > 0
        BY <2>3, <2>6, <2>8, <4>1
      <4>3. count'[p] = count[p] - 1
        BY <1>4, <3>2, <4>2 DEF Count
      <4> QED BY <2>3, <2>6, <4>1, <4>3
    <3>3. CASE emitted[e] = "activity"
      <4>1. count'[p] = count[p]
        BY <1>4, <3>3 DEF Count
      <4> QED BY <2>3, <2>7, <3>3, <4>1
    <3> QED BY <1>2, <3>1, <3>2, <3>3 DEF EventTypes
  <2> QED BY <1>0, <1>7, <2>5, <2>9
<1> QED BY <1>6, <1>7

\* A page is rendered with the number the events so far add up to.
LEMMA RenderKeepsNumber ==
    ASSUME CountInv, NEW p \in Pages, Render(p)
    PROVE  NumberInv'
<1>0. /\ TypeOK /\ TallyInv /\ TableInv /\ NumberInv
      /\ UNCHANGED <<emitted, overlap>>
  BY DEF CountInv, BusInv, Render, busVars
<1>1. /\ page' = [page EXCEPT ![p] = "rendered"]
      /\ count' = [count EXCEPT ![p] = Cardinality(ListConnected(machines))]
      /\ heard' = [heard EXCEPT ![p] = EventIds]
      /\ early' = IF \E c \in Clients : link[c] = "closing"
                  THEN early \cup {p} ELSE early \ {p}
  BY DEF Render
<1>2. SUFFICES ASSUME NEW q \in Pages,
                      page'[q] # "none" /\ ~ overlap' /\ q \notin early',
                      NEW k \in 0..Len(emitted'), CaughtUp(q, k)'
               PROVE  count'[q] = Number(emitted', "connected", k)
                                  - Number(emitted', "disconnected", k)
  BY DEF NumberInv
<1>3. CASE q # p
  <2>1. /\ page'[q] = page[q] /\ count'[q] = count[q] /\ heard'[q] = heard[q]
        /\ q \in early => q \in early'
    BY <1>0, <1>1, <1>3 DEF TypeOK
  <2> QED BY <1>0, <1>2, <2>1, NumberKept
<1>4. CASE q = p
  <2>1. \A c \in Clients : link[c] # "closing"
    BY <1>1, <1>2, <1>4
  <2>2. /\ count'[p] = Cardinality(ListConnected(machines))
        /\ heard'[p] = EventIds
    BY <1>0, <1>1 DEF TypeOK
  <2>3. count'[p] = Number(emitted, "connected", Len(emitted))
                    - Number(emitted, "disconnected", Len(emitted))
    BY <1>0, <1>2, <2>1, <2>2, ListedCount
  <2>4. k = Len(emitted)
    <3>1. Len(emitted) \in Nat /\ k \in 0..Len(emitted)
      BY <1>0, <1>2 DEF TypeOK
    <3>2. 1..Len(emitted) \subseteq 1..k
      BY <1>2, <1>4, <2>2 DEF CaughtUp, EventIds
    <3>3. Len(emitted) = 0 \/ Len(emitted) \in 1..k
      BY <3>1, <3>2
    <3> QED BY <3>1, <3>3
  <2> QED BY <1>0, <1>4, <2>3, <2>4
<1> QED BY <1>3, <1>4

\* Every step keeps the numbers shown in step with the events heard.
LEMMA NumberStep ==
    ASSUME CountInv, [Next]_vars PROVE NumberInv'
<1>0. TypeOK /\ BusInv /\ NumberInv
  BY DEF CountInv, BusInv
<1>1. ASSUME UNCHANGED <<emitted, overlap, count, heard, early>>,
             \A p \in Pages : page'[p] # "none" => page[p] # "none"
      PROVE  NumberInv'
  BY <1>0, <1>1, NumberKept DEF NumberInv
<1>2. ASSUME NEW c \in Clients, Session(c) PROVE NumberInv'
  <2>1. CASE Leave(c)
    BY <1>1, <2>1 DEF Leave, busVars, pageVars
  <2>2. CASE Connect(c) \/ Activity(c) \/ Report(c)
    <3>1. PICK type \in EventTypes : Emit(type)
      BY <2>2 DEF Connect, Activity, Report, EventTypes
    <3>2. UNCHANGED pageVars
      BY <2>2 DEF Connect, Activity, Report
    <3>3. overlap => overlap'
      <4>1. Connect(c) => (overlap => overlap')
        BY DEF Connect
      <4>2. Activity(c) \/ Report(c) => overlap' = overlap
        BY DEF Activity, Report
      <4> QED BY <2>2, <4>1, <4>2
    <3> QED BY <3>1, <3>2, <3>3, EmitKeepsNumber
  <2> QED BY <1>2, <2>1, <2>2 DEF Session
<1>3. ASSUME NEW w \in Sockets, Task(w) \/ Notice(w), ~ Deliver(w)
      PROVE  NumberInv'
  BY <1>1, <1>3 DEF Task, Take, SendLost, SendFails, Unsubscribe, Notice,
                    busVars, pageVars
<1>4. ASSUME NEW w \in Sockets, NEW p \in Pages, Subscribe(w, p)
      PROVE  NumberInv'
  <2>1. \A q \in Pages : page'[q] # "none" => page[q] # "none"
    BY <1>0, <1>4 DEF Subscribe, TypeOK
  <2> QED BY <1>1, <1>4, <2>1 DEF Subscribe
<1>5. ASSUME NEW p \in Pages, NEW next \in {"none", "lost"}, Break(p, next)
      PROVE  NumberInv'
  <2>1. /\ UNCHANGED <<emitted, overlap>>
        /\ page[p] = "live" /\ page' = [page EXCEPT ![p] = next]
        /\ IF next = "none" THEN Forget(p) ELSE UNCHANGED <<count, heard, early>>
    BY <1>5 DEF Break
  <2>2. CASE next = "lost"
    <3>1. \A q \in Pages : page'[q] # "none" => page[q] # "none"
      BY <1>0, <2>1 DEF TypeOK
    <3> QED BY <1>1, <2>1, <2>2, <3>1
  <2>3. CASE next = "none"
    <3>1. ASSUME NEW q \in Pages
          PROVE  /\ page'[q] # "none" => /\ page[q] # "none"
                                         /\ count'[q] = count[q]
                                         /\ heard'[q] = heard[q]
                 /\ q \in early /\ page'[q] # "none" => q \in early'
      BY <1>0, <2>1, <2>3 DEF Forget, TypeOK
    <3> QED BY <1>0, <2>1, <3>1 DEF NumberInv, CaughtUp
  <2> QED BY <2>2, <2>3
<1>6. CASE UNCHANGED vars
  BY <1>1, <1>6 DEF vars, busVars, pageVars
<1> QED BY <1>2, <1>3, <1>4, <1>5, <1>6, StepCases, DeliverKeepsNumber,
           RenderKeepsNumber DEF Window, Task

\* A page that has heard of everything shows what the registry lists.
LEMMA NumbersAgree == CountInv => CountAgrees
<1> SUFFICES ASSUME CountInv, NEW p \in Pages,
                    page[p] \notin {"none", "lost"}, ~ overlap, p \notin early,
                    \A c \in Clients : link[c] # "closing",
                    \A i \in EventIds \ heard[p] : emitted[i] = "activity"
             PROVE  count[p] = Cardinality(ListConnected(machines))
  BY DEF CountAgrees
<1>1. TypeOK /\ TallyInv /\ TableInv /\ NumberInv
  BY DEF CountInv, BusInv
<1>2. Len(emitted) \in Nat /\ heard[p] \subseteq EventIds
  BY <1>1 DEF TypeOK
<1>3. CaughtUp(p, Len(emitted)) /\ Len(emitted) \in 0..Len(emitted)
  BY <1>2 DEF CaughtUp, EventIds
<1> QED BY <1>1, <1>3, ListedCount DEF NumberInv

\* Whatever sessions, pages and sockets do, the number a page shows is that
\* of the registry as soon as the page has heard of every connect and
\* disconnect, if none was between its two reports when it was rendered, none
\* is now, and no machine has ever had two sessions at once.
THEOREM CountsAgree == Spec => []CountAgrees
<1>1. Init => CountInv
  <2> SUFFICES ASSUME Init PROVE CountInv
    OBVIOUS
  <2>1. emitted = <<>> /\ Len(emitted) = 0
    BY DEF Init
  <2>2. \A states : "off" \notin states => Sessions(states) = {}
    BY DEF Init, Sessions
  <2>3. TallyInv
    <3>1. \A type : Number(emitted, type, 0) = 0
      BY NumberNext
    <3>2. /\ Sessions({"served", "closing", "over"}) = {}
          /\ Sessions({"over"}) = {}
      BY <2>2
    <3> QED BY <2>1, <3>1, <3>2, FS_EmptySet DEF TallyInv
  <2>4. TableInv
    BY <2>2 DEF Init, TableInv, ListConnected, EmptyTable
  <2>5. WindowInv /\ NumberInv
    BY DEF Init, WindowInv, NumberInv
  <2> QED BY <2>3, <2>4, <2>5, BusInit DEF CountInv
<1>2. CountInv /\ [Next]_vars => CountInv'
  BY BusStep, TallyStep, TableStep, WindowStep, NumberStep DEF CountInv
<1> QED BY <1>1, <1>2, NumbersAgree, PTL DEF Spec
=============================================================================
