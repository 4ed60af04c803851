--------------------------- MODULE FocasConnector ---------------------------
(***************************************************************************)
(* The connector for FOCAS2 machines (focas/connector.py) with its poller  *)
(* (focas/poller.py), started and stopped by run_app: machines are         *)
(* connected one after the other in threads, polled one after the other    *)
(* by a task, and disconnected one after the other when that task has been *)
(* cancelled.  An action goes from one await to the next.                  *)
(*                                                                         *)
(* A FocasClient's calls may succeed or raise: the client is a placeholder *)
(* for the library, and the connector is written for both.  The four reads *)
(* of one poll are one await, since nothing is changed between them.       *)
(***************************************************************************)
EXTENDS MachineRegistry, Sequences

CONSTANTS
    Ids,      \* machine ids
    Hosts     \* their addresses

VARIABLES
    app,       \* how far run_app has come with this connector
    list,      \* config.focas.machines
    enabled,   \* config.focas.enabled
    machines,  \* MachineRegistry._machines
    at,        \* entries of the list that a running start() has dealt with
    clients,   \* FocasConnector._clients, in the dict's order
    poller,    \* none, created, reading, sleeping, cancelled, ended
    todo,      \* clients the poll, or stop()'s loop, has still to visit
    last       \* history: the last event emitted about a machine

configVars == <<list, enabled>>
focasVars == <<app, machines, at, clients, poller, todo, last>>

Entry == [id : Ids, host : Hosts, enabled : BOOLEAN]

IdsOf(entries) == {entries[i].id : i \in 1..Len(entries)}

\*   starting, connecting     start(), between two machines or in a thread
\*   running                  until the shutdown is requested
\*   stopping                 stop() awaits the cancelled poll task
\*   closing, disconnecting   stop(), between two clients or in a thread
\*   down                     stop() has returned, or the process is dead
Phases == {"starting", "connecting", "running", "stopping", "closing",
           "disconnecting", "down"}

Online == {"connected", "status", "error"}

ConnectorTypeOK ==
    /\ app \in Phases
    /\ list \in Seq(Entry)
    /\ enabled \in BOOLEAN
    /\ DOMAIN machines \subseteq Ids
    /\ machines \in [DOMAIN machines -> Machine(Hosts, Ids)]
    /\ at \in 0..Len(list)
    /\ clients \in Seq(Ids)
    /\ poller \in {"none", "created", "reading", "sleeping", "cancelled",
                   "ended"}
    /\ todo \in Seq(Ids)
    /\ last \in [Ids -> {"none", "disconnected"} \cup Online]

\* run_app builds the connector only for an enabled, non-empty list.
FirstPhase(entries, on) ==
    IF on /\ entries # <<>> THEN "starting" ELSE "running"

ConnectorInit ==
    /\ app = FirstPhase(list, enabled)
    /\ machines = EmptyTable
    /\ at = 0
    /\ clients = <<>>
    /\ poller = "none"
    /\ todo = <<>>
    /\ last = [m \in Ids |-> "none"]

\* The process's memory is lost; run_app is where phase says.
Forget(phase) ==
    /\ app' = phase
    /\ machines' = EmptyTable
    /\ at' = 0
    /\ clients' = <<>>
    /\ poller' = "none"
    /\ todo' = <<>>
    /\ last' = [m \in Ids |-> "none"]

EmitAbout(m, event) == last' = [last EXCEPT ![m] = event]

-----------------------------------------------------------------------------
(* start                                                                   *)

SkipDisabled ==
    /\ app = "starting"
    /\ at < Len(list)
    /\ ~ list[at + 1].enabled
    /\ at' = at + 1
    /\ UNCHANGED <<configVars, app, machines, clients, poller, todo, last>>

\* The machine is registered, and connect starts in a thread.
StartConnect ==
    LET entry == list[at + 1]
    IN  /\ app = "starting"
        /\ at < Len(list)
        /\ entry.enabled
        /\ machines' = RegisterConfigured(machines, entry.id, entry.host)
        /\ app' = "connecting"
        /\ UNCHANGED <<configVars, at, clients, poller, todo, last>>

\* The client enters the table, the registry and the bus hear of it.
ConnectOk ==
    LET entry == list[at + 1]
    IN  /\ app = "connecting"
        /\ clients' = IF \E i \in 1..Len(clients) : clients[i] = entry.id
                      THEN clients ELSE Append(clients, entry.id)
        /\ machines' = OnConnect(machines, entry.id, entry.host, entry.id)
        /\ EmitAbout(entry.id, "connected")
        /\ at' = at + 1
        /\ app' = "starting"
        /\ UNCHANGED <<configVars, poller, todo>>

\* Mutant: the entry after the failed one is skipped too.
ConnectFailsTwice ==
    /\ app = "connecting"
    /\ at' = at + 2
    /\ app' = "starting"
    /\ UNCHANGED <<configVars, machines, clients, poller, todo, last>>

\* Logged; the machine is not tried again.
ConnectFails ==
    /\ app = "connecting"
    /\ at' = at + 1
    /\ app' = "starting"
    /\ UNCHANGED <<configVars, machines, clients, poller, todo, last>>

\* The poll task is created if there is a client, and the web server started.
Started ==
    /\ app = "starting"
    /\ at = Len(list)
    /\ app' = "running"
    /\ poller' = IF clients = <<>> THEN "none" ELSE "created"
    /\ at' = 0
    /\ UNCHANGED <<configVars, machines, clients, todo, last>>

-----------------------------------------------------------------------------
(* FocasPoller.run                                                         *)

\* The clients' is_connected stays set while the task lives.
PollPass ==
    /\ poller \in {"created", "sleeping"}
    /\ poller' = "reading"
    /\ todo' = clients
    /\ UNCHANGED <<configVars, app, machines, at, clients, last>>

\* What the reads brought, or that one raised, is told; the next one's turn.
PollMachine(event) ==
    /\ poller = "reading"
    /\ EmitAbout(Head(todo), event)
    /\ todo' = Tail(todo)
    /\ poller' = IF Tail(todo) = <<>> THEN "sleeping" ELSE "reading"
    /\ UNCHANGED <<configVars, app, machines, at, clients>>

PollOk == PollMachine("status")

PollFails == PollMachine("error")

-----------------------------------------------------------------------------
(* stop                                                                    *)

\* Mutant: the poll task is neither cancelled nor awaited.
StopKeepsPolling ==
    /\ app = "running"
    /\ app' = "closing"
    /\ todo' = clients
    /\ UNCHANGED <<configVars, machines, at, clients, poller, last>>

\* The shutdown reaches stop(), which cancels the poll task if there is one.
Stop ==
    /\ app = "running"
    /\ IF poller = "none"
       THEN app' = "closing" /\ poller' = poller /\ todo' = clients
       ELSE app' = "stopping" /\ poller' = "cancelled" /\ todo' = <<>>
    /\ UNCHANGED <<configVars, machines, at, clients, last>>

\* Mutant: the poll's except clause catches the cancellation too.
PollerSwallows ==
    /\ poller = "cancelled"
    /\ poller' = "sleeping"
    /\ UNCHANGED <<configVars, app, machines, at, clients, todo, last>>

\* The task ends at the await it was suspended in, and stop() goes on.
PollerEnds ==
    /\ poller = "cancelled"
    /\ poller' = "ended"
    /\ app' = "closing"
    /\ todo' = clients
    /\ UNCHANGED <<configVars, machines, at, clients, last>>

StartDisconnect ==
    /\ app = "closing"
    /\ todo # <<>>
    /\ app' = "disconnecting"
    /\ UNCHANGED <<configVars, machines, at, clients, poller, todo, last>>

\* Whether disconnect raised or not, the machine is reported offline.
Disconnected ==
    /\ app = "disconnecting"
    /\ machines' = OnDisconnect(machines, Head(todo), 0)
    /\ EmitAbout(Head(todo), "disconnected")
    /\ todo' = Tail(todo)
    /\ app' = "closing"
    /\ UNCHANGED <<configVars, at, clients, poller>>

Stopped ==
    /\ app = "closing"
    /\ todo = <<>>
    /\ clients' = <<>>
    /\ app' = "down"
    /\ UNCHANGED <<configVars, machines, at, poller, todo, last>>

Starting == SkipDisabled \/ StartConnect \/ ConnectOk \/ ConnectFails \/ Started

Polling == PollPass \/ PollOk \/ PollFails

Stopping == PollerEnds \/ StartDisconnect \/ Disconnected \/ Stopped

ConnectorNext == Starting \/ Polling \/ Stop \/ Stopping

-----------------------------------------------------------------------------
(* Properties                                                              *)

\* The registry shows a machine connected exactly if the last event about it
\* said so, and only while it has a client; a client is offline only once
\* stop() has reached it.  No poll speaks of a machine after its disconnect.
PresenceAgrees ==
    \A m \in Ids :
        LET shown == m \in ListConnected(machines)
            client == \E i \in 1..Len(clients) : clients[i] = m
        IN  /\ shown <=> last[m] \in Online
            /\ shown => client
            /\ client => shown \/ app \in {"closing", "disconnecting"}

\* stop() returns, whatever the poll task was doing when it was called.
StopReturns == app = "stopping" ~> app = "down"
=============================================================================
