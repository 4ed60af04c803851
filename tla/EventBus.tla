------------------------------ MODULE EventBus ------------------------------
(***************************************************************************)
(* Events on their way to the dashboard: the bus with one bounded queue    *)
(* per subscriber (event_bus.py), the WebSocket task that empties it       *)
(* (web/websocket.py), and the page that was rendered with the number of   *)
(* connected machines and counts on from there (dashboard.py, app.js).     *)
(*                                                                         *)
(* The emitters are the sessions of PCU20Server, reduced to the steps at   *)
(* which they change the machine registry or emit.  An event is named by   *)
(* its place in the order of emission.                                     *)
(***************************************************************************)
EXTENDS MachineRegistry, Sequences, FiniteSets

CONSTANTS
    Clients,      \* sessions of machines with the PCU20 server
    Ips,          \* machines
    PeerOf,       \* the machine of a session
    Pages,        \* browser windows
    NoPage,       \* no window
    QueueSize,    \* max_size of a subscriber's queue
    MaxActivity,  \* bound: session.activity events
    MaxSockets    \* bound: WebSocket connections

ASSUME BusAssumption ==
    /\ NoSession \notin Clients
    /\ NoPage \notin Pages
    /\ PeerOf \in [Clients -> Ips]
    /\ IsFiniteSet(Ips)
    /\ QueueSize \in Nat \ {0}
    /\ MaxActivity \in Nat
    /\ MaxSockets \in Nat

\* WebSocket connections, in the order in which they are accepted.
Sockets == 1..MaxSockets

VARIABLES
    link,         \* off, served, closing (in writer.wait_closed), over
    machines,     \* MachineRegistry._machines
    emitted,      \* history: the types of the events emitted
    subscribers,  \* EventBus._subscribers, each queue named by its socket
    queue,        \* events waiting for a socket's task
    task,         \* none, waiting (q.get), sending, leaving, done
    holding,      \* the event a task is sending
    wire,         \* none, open, closed, noticed (the server knows)
    pageOf,       \* the window at the other end
    page,         \* none, rendered, live, lost (its socket is gone)
    count,        \* the number the page shows
    since,        \* history: events emitted when the socket subscribed
    got,          \* history: events its page has received, in order
    dropped,      \* history: events its queue had no room for
    heard,        \* history: events a page's number accounts for
    early,        \* history: rendered between a session's two reports
    overlap       \* history: some machine has had two sessions at once

busVars == <<emitted, subscribers, queue, dropped>>
taskVars == <<task, holding, wire, pageOf, since, got>>
pageVars == <<page, count, heard, early>>
vars == <<link, machines, overlap, busVars, taskVars, pageVars>>

EventTypes == {"connected", "disconnected", "activity"}

EventIds == 1..Len(emitted)

TypeOK ==
    /\ link \in [Clients -> {"off", "served", "closing", "over"}]
    /\ DOMAIN machines \subseteq Ips
    /\ machines \in [DOMAIN machines -> Machine(Ips, Clients)]
    /\ emitted \in Seq(EventTypes)
    /\ subscribers \subseteq Sockets
    /\ queue \in [Sockets -> Seq(EventIds)]
    /\ \A w \in Sockets : Len(queue[w]) <= QueueSize
    /\ task \in [Sockets -> {"none", "waiting", "sending", "leaving", "done"}]
    /\ holding \in [Sockets -> Nat]
    /\ wire \in [Sockets -> {"none", "open", "closed", "noticed"}]
    /\ pageOf \in [Sockets -> Pages \cup {NoPage}]
    /\ page \in [Pages -> {"none", "rendered", "live", "lost"}]
    /\ count \in [Pages -> Nat]
    /\ since \in [Sockets -> Nat]
    /\ got \in [Sockets -> Seq(EventIds)]
    /\ dropped \in [Sockets -> SUBSET EventIds]
    /\ heard \in [Pages -> SUBSET EventIds]
    /\ early \subseteq Pages
    /\ overlap \in BOOLEAN

Init ==
    /\ link = [c \in Clients |-> "off"]
    /\ machines = EmptyTable
    /\ emitted = <<>>
    /\ subscribers = {}
    /\ queue = [w \in Sockets |-> <<>>]
    /\ task = [w \in Sockets |-> "none"]
    /\ holding = [w \in Sockets |-> 0]
    /\ wire = [w \in Sockets |-> "none"]
    /\ pageOf = [w \in Sockets |-> NoPage]
    /\ page = [p \in Pages |-> "none"]
    /\ count = [p \in Pages |-> 0]
    /\ since = [w \in Sockets |-> 0]
    /\ got = [w \in Sockets |-> <<>>]
    /\ dropped = [w \in Sockets |-> {}]
    /\ heard = [p \in Pages |-> {}]
    /\ early = {}
    /\ overlap = FALSE

-----------------------------------------------------------------------------
(* emit                                                                    *)

Full(w) == Len(queue[w]) >= QueueSize

\* Mutant: one full queue ends the loop over the subscribers.
EmitUntilFull(type) ==
    LET event == Len(emitted) + 1
        room == \A w \in subscribers : ~ Full(w)
    IN  /\ emitted' = Append(emitted, type)
        /\ queue' = [w \in Sockets |->
                        IF w \in subscribers /\ room
                        THEN Append(queue[w], event) ELSE queue[w]]
        /\ dropped' = [w \in Sockets |->
                          IF w \in subscribers /\ wire[w] = "open" /\ Full(w)
                          THEN dropped[w] \cup {event} ELSE dropped[w]]
        /\ UNCHANGED subscribers

\* Mutant: the queues are unbounded.
EmitUnbounded(type) ==
    LET event == Len(emitted) + 1
    IN  /\ emitted' = Append(emitted, type)
        /\ queue' = [w \in Sockets |->
                        IF w \in subscribers
                        THEN Append(queue[w], event) ELSE queue[w]]
        /\ UNCHANGED <<subscribers, dropped>>

\* Every subscriber's queue takes the event, or drops it if it is full.
Emit(type) ==
    LET event == Len(emitted) + 1
    IN  /\ emitted' = Append(emitted, type)
        /\ queue' = [w \in Sockets |->
                        IF w \in subscribers /\ ~ Full(w)
                        THEN Append(queue[w], event) ELSE queue[w]]
        /\ dropped' = [w \in Sockets |->
                          IF w \in subscribers /\ wire[w] = "open" /\ Full(w)
                          THEN dropped[w] \cup {event} ELSE dropped[w]]
        /\ UNCHANGED subscribers

-----------------------------------------------------------------------------
(* The PCU20 server's sessions                                             *)

SetLink(c, l) == link' = [link EXCEPT ![c] = l]

\* The registry and the bus hear of a connection in one step.
Connect(c) ==
    /\ link[c] = "off"
    /\ SetLink(c, "served")
    /\ machines' = OnConnect(machines, PeerOf[c], PeerOf[c], c)
    /\ overlap' = (overlap \/ \E d \in Clients :
                      /\ PeerOf[d] = PeerOf[c]
                      /\ link[d] \in {"served", "closing"})
    /\ Emit("connected")
    /\ UNCHANGED <<taskVars, pageVars>>

\* Data has been handled.
Activity(c) ==
    /\ link[c] = "served"
    /\ Cardinality({i \in EventIds : emitted[i] = "activity"}) < MaxActivity
    /\ Emit("activity")
    /\ UNCHANGED <<link, machines, overlap, taskVars, pageVars>>

\* The session ends: the registry hears of it before writer.wait_closed ...
Leave(c) ==
    /\ link[c] = "served"
    /\ SetLink(c, "closing")
    /\ machines' = OnDisconnect(machines, PeerOf[c], 0)
    /\ UNCHANGED <<overlap, busVars, taskVars, pageVars>>

\* ... and the bus after it.
Report(c) ==
    /\ link[c] = "closing"
    /\ SetLink(c, "over")
    /\ Emit("disconnected")
    /\ UNCHANGED <<machines, overlap, taskVars, pageVars>>

-----------------------------------------------------------------------------
(* The WebSocket's task                                                    *)

\* websocket_endpoint: accepted, the task subscribes and waits for events.
\* The page is a new one, or one whose socket was lost and that tries again.
Subscribe(w, p) ==
    /\ task[w] = "none"
    /\ \A v \in Sockets : v < w => task[v] # "none"
    /\ page[p] \in {"rendered", "lost"}
    /\ subscribers' = subscribers \cup {w}
    /\ task' = [task EXCEPT ![w] = "waiting"]
    /\ wire' = [wire EXCEPT ![w] = "open"]
    /\ pageOf' = [pageOf EXCEPT ![w] = p]
    /\ since' = [since EXCEPT ![w] = Len(emitted)]
    /\ page' = [page EXCEPT ![p] = "live"]
    /\ UNCHANGED <<link, machines, overlap, emitted, queue, dropped, holding,
                   got, count, heard, early>>

\* q.get returns and send_json starts.
Take(w) ==
    /\ task[w] = "waiting"
    /\ queue[w] # <<>>
    /\ task' = [task EXCEPT ![w] = "sending"]
    /\ holding' = [holding EXCEPT ![w] = Head(queue[w])]
    /\ queue' = [queue EXCEPT ![w] = Tail(@)]
    /\ UNCHANGED <<link, machines, overlap, emitted, subscribers, dropped,
                   wire, pageOf, since, got, pageVars>>

\* Mutant: the class test of the activity feed, type.includes('connected').
CountIncluded(n, type) == IF type \in {"connected", "disconnected"}
                          THEN n + 1 ELSE n

\* handleEvent: the number shown after an event.
Count(n, type) ==
    CASE type = "connected"              -> n + 1
      [] type = "disconnected" /\ n > 0  -> n - 1
      [] OTHER                           -> n

\* The event reaches the page.
Deliver(w) ==
    LET p == pageOf[w]
    IN  /\ task[w] = "sending"
        /\ wire[w] = "open"
        /\ task' = [task EXCEPT ![w] = "waiting"]
        /\ holding' = [holding EXCEPT ![w] = 0]
        /\ got' = [got EXCEPT ![w] = Append(@, holding[w])]
        /\ count' = [count EXCEPT ![p] = Count(@, emitted[holding[w]])]
        /\ heard' = [heard EXCEPT ![p] = @ \cup {holding[w]}]
        /\ UNCHANGED <<link, machines, overlap, busVars, wire, pageOf, since,
                       page, early>>

\* It is sent after the page has gone and before the server knows.
SendLost(w) ==
    /\ task[w] = "sending"
    /\ wire[w] = "closed"
    /\ task' = [task EXCEPT ![w] = "waiting"]
    /\ holding' = [holding EXCEPT ![w] = 0]
    /\ UNCHANGED <<link, machines, overlap, busVars, wire, pageOf, since,
                   got, pageVars>>

\* Mutant: the error is caught around send_json, inside the loop.
SendFailsInLoop(w) ==
    /\ task[w] = "sending"
    /\ wire[w] = "noticed"
    /\ task' = [task EXCEPT ![w] = "waiting"]
    /\ holding' = [holding EXCEPT ![w] = 0]
    /\ UNCHANGED <<link, machines, overlap, busVars, wire, pageOf, since,
                   got, pageVars>>

\* send_json raises: the loop over the events is left.
SendFails(w) ==
    /\ task[w] = "sending"
    /\ wire[w] = "noticed"
    /\ task' = [task EXCEPT ![w] = "leaving"]
    /\ holding' = [holding EXCEPT ![w] = 0]
    /\ UNCHANGED <<link, machines, overlap, busVars, wire, pageOf, since,
                   got, pageVars>>

\* The abandoned generator is closed: its finally removes the queue.
Unsubscribe(w) ==
    /\ task[w] = "leaving"
    /\ task' = [task EXCEPT ![w] = "done"]
    /\ subscribers' = subscribers \ {w}
    /\ queue' = [queue EXCEPT ![w] = <<>>]
    /\ UNCHANGED <<link, machines, overlap, emitted, dropped, holding, wire,
                   pageOf, since, got, pageVars>>

-----------------------------------------------------------------------------
(* The browser                                                             *)

\* GET /: the page is rendered with the number of connected machines.  It is
\* of interest while there are sockets left for it.
Render(p) ==
    /\ page[p] = "none"
    /\ \E w \in Sockets : task[w] = "none"
    /\ page' = [page EXCEPT ![p] = "rendered"]
    /\ count' = [count EXCEPT ![p] = Cardinality(ListConnected(machines))]
    /\ heard' = [heard EXCEPT ![p] = EventIds]
    /\ early' = IF \E c \in Clients : link[c] = "closing"
                THEN early \cup {p} ELSE early \ {p}
    /\ UNCHANGED <<link, machines, overlap, busVars, taskVars>>

Forget(p) ==
    /\ count' = [count EXCEPT ![p] = 0]
    /\ heard' = [heard EXCEPT ![p] = {}]
    /\ early' = early \ {p}

\* The window is closed or left for another page (next = "none"), or its
\* connection breaks and it will try again (next = "lost").
Break(p, next) ==
    /\ page[p] = "live"
    /\ page' = [page EXCEPT ![p] = next]
    /\ wire' = [w \in Sockets |->
                   IF pageOf[w] = p /\ wire[w] = "open" THEN "closed"
                   ELSE wire[w]]
    /\ pageOf' = [w \in Sockets |-> IF pageOf[w] = p THEN NoPage
                                   ELSE pageOf[w]]
    /\ got' = [w \in Sockets |-> IF pageOf[w] = p THEN <<>> ELSE got[w]]
    /\ since' = [w \in Sockets |-> IF pageOf[w] = p THEN 0 ELSE since[w]]
    /\ dropped' = [w \in Sockets |-> IF pageOf[w] = p THEN {} ELSE dropped[w]]
    /\ UNCHANGED <<link, machines, overlap, emitted, subscribers, queue, task,
                   holding>>
    /\ IF next = "none" THEN Forget(p) ELSE UNCHANGED <<count, heard, early>>

\* The server's side of the WebSocket sees the connection end.
Notice(w) ==
    /\ wire[w] = "closed"
    /\ wire' = [wire EXCEPT ![w] = "noticed"]
    /\ UNCHANGED <<link, machines, overlap, busVars, task, holding, pageOf,
                   since, got, pageVars>>

\* Every machine has come and gone and nothing is left to deliver.
Quiet ==
    /\ \A c \in Clients : link[c] = "over"
    /\ \A w \in subscribers : queue[w] = <<>> /\ task[w] = "waiting"
    /\ UNCHANGED vars

Task(w) ==
    Take(w) \/ Deliver(w) \/ SendLost(w) \/ SendFails(w) \/ Unsubscribe(w)

Next ==
    \/ \E c \in Clients :
          Connect(c) \/ Activity(c) \/ Leave(c) \/ Report(c)
    \/ \E w \in Sockets :
          \/ Task(w) \/ Notice(w)
          \/ \E p \in Pages : Subscribe(w, p)
    \/ \E p \in Pages :
          Render(p) \/ \E next \in {"none", "lost"} : Break(p, next)
    \/ Quiet

Spec == Init /\ [][Next]_vars

\* The event loop runs the WebSocket tasks, pages take what they are sent,
\* and the end of a connection is noticed.  Nothing is assumed of machines
\* and of people.
Fairness ==
    \A w \in Sockets :
        /\ WF_vars(Task(w))
        /\ WF_vars(Notice(w))

FairSpec == Spec /\ Fairness

-----------------------------------------------------------------------------
(* Properties                                                              *)

\* The events a socket's page has, or is about to get, in order.
Feed(w) ==
    LET sending == IF task[w] = "sending" THEN <<holding[w]>> ELSE <<>>
    IN  got[w] \o sending \o queue[w]

\* As long as its connection is open, a subscriber's page gets every event
\* emitted since it subscribed, once and in order, but for those its queue
\* had no room for: whatever other subscribers do, come, go or fall behind.
FeedInOrder ==
    \A w \in subscribers :
        wire[w] = "open" =>
            LET feed == Feed(w)
                ids == {feed[i] : i \in 1..Len(feed)}
            IN  /\ \A i, j \in 1..Len(feed) : i < j => feed[i] < feed[j]
                /\ ids \cup dropped[w] = {i \in EventIds : i > since[w]}
                /\ ids \cap dropped[w] = {}

\* The page adds one per session, the registry one per machine, and they are
\* told at different times.  The two numbers agree for a page that has heard
\* of every connect and disconnect since it was rendered, if no session was
\* between its two reports then, none is now, and no machine has ever had
\* two sessions at once.  Each of these conditions can fail.
CountAgrees ==
    \A p \in Pages :
        \/ page[p] \in {"none", "lost"}
        \/ overlap \/ p \in early
        \/ \E c \in Clients : link[c] = "closing"
        \/ \E i \in EventIds \ heard[p] : emitted[i] # "activity"
        \/ count[p] = Cardinality(ListConnected(machines))

\* A subscriber whose connection has ended is gone after the next event.
DeadSubscribersLeave ==
    \A w \in Sockets :
        (wire[w] = "noticed" /\ queue[w] # <<>>) ~> w \notin subscribers
=============================================================================
