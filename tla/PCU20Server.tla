----------------------------- MODULE PCU20Server -----------------------------
(***************************************************************************)
(* The inbound TCP file server: one asyncio task per CNC connection        *)
(* (protocol/server.py _handle_connection), the command dispatcher it      *)
(* calls for every frame (commands.py, handlers.py), the session it owns   *)
(* (session.py), the shared session and machine tables, and the shutdown   *)
(* path PCU20Server.stop() followed by the cancellation of every task left *)
(* when asyncio.run returns (app.py, cli.py).                              *)
(*                                                                         *)
(* One action is the code between two points where the task may be         *)
(* suspended.  The frame loop can be suspended in writer.drain() after     *)
(* each response, so each frame is an action; between two frames with no   *)
(* suspension the task keeps the event loop (LoopFree).  A frame's command *)
(* is chosen when it is dispatched: before, only the number of frames left *)
(* matters.                                                                *)
(* Byte counters and the file system are data this module does not follow: *)
(* a file operation is a job in the thread pool with an outcome.           *)
(***************************************************************************)
EXTENDS MachineRegistry, FiniteSets

CONSTANTS
    Conns,            \* TCP connections; each gets one Session, so also its id
    Ips,              \* peer addresses; PCU20 machines are keyed by their ip
    PeerOf,           \* the ip a connection comes from
    NumPorts,         \* config.pcu20.num_ports
    PortOf,           \* the listening port a connection arrives on
    Readers,          \* connections whose client keeps reading its responses
    MaxFrames,        \* bound: frames all clients together send
    WaitClosedWaits   \* whether Server.wait_closed() waits for the open
                      \* connections (Python >= 3.12.1) or returns at once

ASSUME ServerAssumption ==
    /\ IsFiniteSet(Conns)
    /\ NoSession \notin Conns
    /\ PeerOf \in [Conns -> Ips]
    /\ NumPorts \in Nat \ {0}
    /\ PortOf \in [Conns -> 1..NumPorts]
    /\ Readers \subseteq Conns
    /\ MaxFrames \in Nat
    /\ WaitClosedWaits \in BOOLEAN

VARIABLES
    pc,         \* where each connection's task is suspended
    state,      \* session.state
    pending,    \* frames of the current codec.feed() not dispatched yet
    budget,     \* frames the clients may still send
    files,      \* session.files_transferred
    job,        \* the command whose thread job the handler awaits
    reset,      \* connections the client has reset
    cancelled,  \* tasks with a pending CancelledError
    sessions,   \* PCU20Server.sessions
    machines,   \* MachineRegistry._machines
    announced,  \* sessions whose "machine.connected" event was emitted
    retracted,  \* sessions whose "machine.disconnected" event was emitted
    app,        \* run_app: running, stopping (inside stop()), stopped, teardown
    closed      \* ports whose asyncio.Server has been closed, in order 1..closed

connVars == <<pc, state, pending, budget, files, job, reset, cancelled>>
vars == <<pc, state, pending, budget, files, job, reset, cancelled,
          sessions, machines, announced, retracted, app, closed>>

States == {"CONNECTED", "AUTHENTICATED", "DISCONNECTED"}

\* Suspension points of a connection's task.
\*   idle      no connection yet          thread   in asyncio.to_thread
\*   accepted  task created, not run      version  in on_file_written
\*   reading   in reader.read             drain    in writer.drain
\*   frames    next frame of the batch    closing  in writer.wait_closed
PCs == {"idle", "accepted", "reading", "frames", "thread", "version",
        "drain", "closing", "done"}

\* Inside the try block of _handle_connection.
Serving == {"reading", "frames", "thread", "version", "drain"}

\* Commands whose handler does its work in a thread.  QUERY stands for
\* STAT_FILE, READ_DIR, MKDIR, RMDIR and GET_FREE_MEM.
FileCommands == {"READ", "WRITE", "QUERY"}

NoJob == "none"

TypeOK ==
    /\ pc \in [Conns -> PCs]
    /\ state \in [Conns -> States]
    /\ pending \in [Conns -> Nat]
    /\ budget \in Nat
    /\ files \in [Conns -> Nat]
    /\ job \in [Conns -> FileCommands \cup {NoJob}]
    /\ reset \subseteq Conns
    /\ cancelled \subseteq Conns
    /\ sessions \subseteq Conns
    /\ DOMAIN machines \subseteq Ips
    /\ machines \in [DOMAIN machines -> Machine(Ips, Conns)]
    /\ announced \subseteq Conns
    /\ retracted \subseteq Conns
    /\ app \in {"running", "stopping", "stopped", "teardown"}
    /\ closed \in 0..NumPorts

Init ==
    /\ pc = [c \in Conns |-> "idle"]
    /\ state = [c \in Conns |-> "CONNECTED"]
    /\ pending = [c \in Conns |-> 0]
    /\ budget = MaxFrames
    /\ files = [c \in Conns |-> 0]
    /\ job = [c \in Conns |-> NoJob]
    /\ reset = {}
    /\ cancelled = {}
    /\ sessions = {}
    /\ machines = EmptyTable
    /\ announced = {}
    /\ retracted = {}
    /\ app = "running"
    /\ closed = 0

-----------------------------------------------------------------------------
(* Helpers                                                                 *)

\* No task is in the middle of a batch: the event loop may run another one.
LoopFree == \A c \in Conns : pc[c] # "frames"

\* c's task is suspended at l and resumes normally, or it has the loop.
At(c, l) ==
    /\ pc[c] = l
    /\ c \notin cancelled
    /\ l = "frames" \/ LoopFree

Goto(c, l) == pc' = [pc EXCEPT ![c] = l]

\* The transport of c is gone, so its asyncio.Server no longer counts it.
Detached(c) == pc[c] \in {"idle", "done"} \/ c \in reset

\* Mutant: the session is left in the table.
LeaveKeepsSession(c) ==
    /\ state' = [state EXCEPT ![c] = "DISCONNECTED"]
    /\ machines' = OnDisconnect(machines, PeerOf[c], files[c])
    /\ pending' = [pending EXCEPT ![c] = 0]
    /\ job' = [job EXCEPT ![c] = NoJob]
    /\ Goto(c, "closing")
    /\ UNCHANGED sessions

\* Mutant: a session that is already disconnected is thought to be cleaned up.
LeaveOnlyOnce(c) ==
    /\ state' = [state EXCEPT ![c] = "DISCONNECTED"]
    /\ sessions' = sessions \ {c}
    /\ machines' = IF state[c] = "DISCONNECTED" THEN machines
                   ELSE OnDisconnect(machines, PeerOf[c], files[c])
    /\ pending' = [pending EXCEPT ![c] = 0]
    /\ job' = [job EXCEPT ![c] = NoJob]
    /\ Goto(c, "closing")

\* The finally block up to its await: close handles, disconnect, drop the
\* session, record the machine's disconnection, close the writer.
Leave(c) ==
    /\ state' = [state EXCEPT ![c] = "DISCONNECTED"]
    /\ sessions' = sessions \ {c}
    /\ machines' = OnDisconnect(machines, PeerOf[c], files[c])
    /\ pending' = [pending EXCEPT ![c] = 0]
    /\ job' = [job EXCEPT ![c] = NoJob]
    /\ Goto(c, "closing")

\* The next frame of the batch is taken by the dispatcher.
TakeFrame(c) ==
    /\ At(c, "frames")
    /\ pending[c] > 0
    /\ pending' = [pending EXCEPT ![c] = @ - 1]

-----------------------------------------------------------------------------
(* The client and the event loop's accept                                  *)

\* asyncio accepts the connection and creates the handler's task.
Accept(c) ==
    /\ At(c, "idle")
    /\ PortOf[c] > closed
    /\ app \in {"running", "stopping"}
    /\ Goto(c, "accepted")
    /\ UNCHANGED <<state, pending, budget, files, job, reset, cancelled,
                   sessions, machines, announced, retracted, app, closed>>

\* The client aborts the connection.
ClientReset(c) ==
    /\ LoopFree
    /\ pc[c] \in Serving \cup {"accepted", "closing"}
    /\ reset' = reset \cup {c}
    /\ UNCHANGED <<pc, state, pending, budget, files, job, cancelled,
                   sessions, machines, announced, retracted, app, closed>>

-----------------------------------------------------------------------------
(* _handle_connection                                                      *)

\* First step of the task: session, session table, registry, event.
Begin(c) ==
    /\ At(c, "accepted")
    /\ Goto(c, "reading")
    /\ sessions' = sessions \cup {c}
    /\ machines' = OnConnect(machines, PeerOf[c], PeerOf[c], c)
    /\ announced' = announced \cup {c}
    /\ UNCHANGED <<state, pending, budget, files, job, reset, cancelled,
                   retracted, app, closed>>

\* read() returns data that completes n frames.  Data that completes none
\* is charged like one frame, so that a client sends finitely much.
ReadData(c, n) ==
    /\ At(c, "reading")
    /\ c \notin reset
    /\ budget > 0
    /\ n <= budget
    /\ budget' = budget - (IF n = 0 THEN 1 ELSE n)
    /\ pending' = [pending EXCEPT ![c] = n]
    /\ Goto(c, "frames")
    /\ UNCHANGED <<state, files, job, reset, cancelled, sessions, machines,
                   announced, retracted, app, closed>>

\* read() returns b"": the client closed its side.
ReadEof(c) ==
    /\ At(c, "reading")
    /\ c \notin reset
    /\ Leave(c)
    /\ UNCHANGED <<budget, files, reset, cancelled, announced, retracted,
                   app, closed>>

\* Mutant: continue instead of break.
IdleTimeoutContinues(c) ==
    /\ At(c, "reading")
    /\ UNCHANGED vars

\* wait_for(read, 300) times out.
IdleTimeout(c) ==
    /\ At(c, "reading")
    /\ Leave(c)
    /\ UNCHANGED <<budget, files, reset, cancelled, announced, retracted,
                   app, closed>>

\* read() raises ConnectionResetError.
ReadReset(c) ==
    /\ At(c, "reading")
    /\ c \in reset
    /\ Leave(c)
    /\ UNCHANGED <<budget, files, reset, cancelled, announced, retracted,
                   app, closed>>

\* codec.feed raises, or the trace write of the data, of an unknown command
\* or of a response does: caught by "except Exception".
LoopError(c) ==
    /\ \/ At(c, "reading") /\ c \notin reset /\ budget > 0
       \/ At(c, "frames") /\ pending[c] > 0
       \/ At(c, "drain")
    /\ Leave(c)
    /\ UNCHANGED <<budget, files, reset, cancelled, announced, retracted,
                   app, closed>>

\* Login: the session is authenticated when the credentials are valid,
\* whatever its state was.
HandleLogin(c) ==
    /\ TakeFrame(c)
    /\ \/ state' = [state EXCEPT ![c] = "AUTHENTICATED"]
       \/ UNCHANGED state
    /\ Goto(c, "drain")
    /\ UNCHANGED <<budget, files, job, reset, cancelled, sessions, machines,
                   announced, retracted, app, closed>>

\* Mutant: TERMINATE also reports the machine's disconnection.
HandleTerminateReports(c) ==
    /\ TakeFrame(c)
    /\ state' = [state EXCEPT ![c] = "DISCONNECTED"]
    /\ machines' = OnDisconnect(machines, PeerOf[c], files[c])
    /\ Goto(c, "drain")
    /\ UNCHANGED <<budget, files, job, reset, cancelled, sessions,
                   announced, retracted, app, closed>>

HandleTerminate(c) ==
    /\ TakeFrame(c)
    /\ state' = [state EXCEPT ![c] = "DISCONNECTED"]
    /\ Goto(c, "drain")
    /\ UNCHANGED <<budget, files, job, reset, cancelled, sessions, machines,
                   announced, retracted, app, closed>>

\* GetVersion answers at once and needs no authentication.
HandleVersion(c) ==
    /\ TakeFrame(c)
    /\ Goto(c, "drain")
    /\ UNCHANGED <<state, budget, files, job, reset, cancelled, sessions,
                   machines, announced, retracted, app, closed>>

\* Nothing is sent back for a command without a handler, nor when a handler
\* raises before its first await (a path with an embedded NUL).
NoAnswer(c) ==
    /\ TakeFrame(c)
    /\ UNCHANGED <<pc, state, budget, files, job, reset, cancelled, sessions,
                   machines, announced, retracted, app, closed>>

\* _require_auth answers AUTH_REQUIRED.
RequireAuth(c) ==
    /\ TakeFrame(c)
    /\ state[c] # "AUTHENTICATED"
    /\ Goto(c, "drain")
    /\ UNCHANGED <<state, budget, files, job, reset, cancelled, sessions,
                   machines, announced, retracted, app, closed>>

\* Answered before any thread is used: NOT_FOUND, PERMISSION_DENIED, ERROR
\* for a malformed WRITE, or zero free memory when no share is configured.
AnswerAtOnce(c) ==
    /\ TakeFrame(c)
    /\ state[c] = "AUTHENTICATED"
    /\ Goto(c, "drain")
    /\ UNCHANGED <<state, budget, files, job, reset, cancelled, sessions,
                   machines, announced, retracted, app, closed>>

\* Mutant: a handler without its _require_auth.
SubmitJobUnchecked(c, cmd) ==
    /\ TakeFrame(c)
    /\ job' = [job EXCEPT ![c] = cmd]
    /\ Goto(c, "thread")
    /\ UNCHANGED <<state, budget, files, reset, cancelled, sessions,
                   machines, announced, retracted, app, closed>>

\* The handler hands its file operation to a thread and awaits it.
SubmitJob(c, cmd) ==
    /\ TakeFrame(c)
    /\ state[c] = "AUTHENTICATED"
    /\ job' = [job EXCEPT ![c] = cmd]
    /\ Goto(c, "thread")
    /\ UNCHANGED <<state, budget, files, reset, cancelled, sessions,
                   machines, announced, retracted, app, closed>>

\* The thread returns: READ and WRITE count a file; WRITE goes on to version
\* the file, the others have their response.
JobDone(c) ==
    /\ At(c, "thread")
    /\ files' = IF job[c] = "QUERY" THEN files
                ELSE [files EXCEPT ![c] = @ + 1]
    /\ Goto(c, IF job[c] = "WRITE" THEN "version" ELSE "drain")
    /\ job' = IF job[c] = "WRITE" THEN job
              ELSE [job EXCEPT ![c] = NoJob]
    /\ UNCHANGED <<state, pending, budget, reset, cancelled, sessions,
                   machines, announced, retracted, app, closed>>

\* The thread raises OSError: the handler answers ERROR.
JobFails(c) ==
    /\ At(c, "thread")
    /\ Goto(c, "drain")
    /\ job' = [job EXCEPT ![c] = NoJob]
    /\ UNCHANGED <<state, pending, budget, files, reset, cancelled, sessions,
                   machines, announced, retracted, app, closed>>

\* Any other exception reaches dispatch, which logs it and sends nothing: a
\* file too large for the size field, a name with no latin-1 encoding.
JobRaises(c) ==
    /\ At(c, "thread")
    /\ job[c] \in {"READ", "QUERY"}
    /\ Goto(c, "frames")
    /\ job' = [job EXCEPT ![c] = NoJob]
    /\ files' \in {files, IF job[c] = "READ"
                          THEN [files EXCEPT ![c] = @ + 1] ELSE files}
    /\ UNCHANGED <<state, pending, budget, reset, cancelled, sessions,
                   machines, announced, retracted, app, closed>>

\* on_file_written returns; it swallows its own errors.
VersionDone(c) ==
    /\ At(c, "version")
    /\ Goto(c, "drain")
    /\ job' = [job EXCEPT ![c] = NoJob]
    /\ UNCHANGED <<state, pending, budget, files, reset, cancelled, sessions,
                   machines, announced, retracted, app, closed>>

\* The response leaves the write buffer (at once unless the client stalls).
Drain(c) ==
    /\ At(c, "drain")
    /\ c \notin reset
    /\ Goto(c, "frames")
    /\ UNCHANGED <<state, pending, budget, files, job, reset, cancelled,
                   sessions, machines, announced, retracted, app, closed>>

DrainReset(c) ==
    /\ At(c, "drain")
    /\ c \in reset
    /\ Leave(c)
    /\ UNCHANGED <<budget, files, reset, cancelled, announced, retracted,
                   app, closed>>

\* The batch is finished: read again, or leave the loop if the session is
\* now disconnected.
EndBatch(c) ==
    /\ At(c, "frames")
    /\ pending[c] = 0
    /\ IF state[c] = "DISCONNECTED"
       THEN Leave(c)
       ELSE /\ Goto(c, "reading")
            /\ UNCHANGED <<state, pending, job, sessions, machines>>
    /\ UNCHANGED <<budget, files, reset, cancelled, announced, retracted,
                   app, closed>>

\* Mutant: the exception of wait_closed() is not swallowed.
FinishRaises(c) ==
    /\ At(c, "closing")
    /\ Goto(c, "done")
    /\ retracted' = IF c \in reset THEN retracted ELSE retracted \cup {c}
    /\ UNCHANGED <<state, pending, budget, files, job, reset, cancelled,
                   sessions, machines, announced, app, closed>>

\* writer.wait_closed() returns or raises; the last event is emitted.
Finish(c) ==
    /\ At(c, "closing")
    /\ Goto(c, "done")
    /\ retracted' = retracted \cup {c}
    /\ UNCHANGED <<state, pending, budget, files, job, reset, cancelled,
                   sessions, machines, announced, app, closed>>

\* Mutant: "except BaseException" inside the frame loop.
CancelledSwallowed(c) ==
    /\ LoopFree
    /\ c \in cancelled
    /\ cancelled' = cancelled \ {c}
    /\ \/ pc[c] \in Serving /\ UNCHANGED pc
       \/ pc[c] \in {"accepted", "closing"} /\ Goto(c, "done")
    /\ UNCHANGED <<state, pending, budget, files, job, reset, sessions,
                   machines, announced, retracted, app, closed>>

\* CancelledError is delivered.  It is not an Exception: no handler of the
\* connection catches it and only the finally block runs.
Cancelled(c) ==
    /\ LoopFree
    /\ c \in cancelled
    /\ cancelled' = cancelled \ {c}
    /\ \/ pc[c] \in Serving /\ Leave(c)
       \/ /\ pc[c] \in {"accepted", "closing"}
          /\ Goto(c, "done")
          /\ UNCHANGED <<state, pending, job, sessions, machines>>
    /\ UNCHANGED <<budget, files, reset, announced, retracted, app, closed>>

-----------------------------------------------------------------------------
(* Shutdown                                                                *)

\* run_app's shutdown event: it calls PCU20Server.stop().
Shutdown ==
    /\ LoopFree
    /\ app = "running"
    /\ app' = "stopping"
    /\ UNCHANGED <<connVars, sessions, machines, announced, retracted, closed>>

\* server.wait_closed() of the port closed last has returned.
WaitClosedDone ==
    WaitClosedWaits => \A c \in Conns : PortOf[c] = closed => Detached(c)

\* Mutant: the loop runs past the last port.
ClosePortUnbounded ==
    /\ LoopFree
    /\ app = "stopping"
    /\ WaitClosedDone
    /\ closed' = closed + 1
    /\ UNCHANGED <<connVars, sessions, machines, announced, retracted, app>>

\* server.close() on the next port: the loop of stop() goes port by port.
ClosePort ==
    /\ LoopFree
    /\ app = "stopping"
    /\ closed < NumPorts
    /\ WaitClosedDone
    /\ closed' = closed + 1
    /\ UNCHANGED <<connVars, sessions, machines, announced, retracted, app>>

\* Mutant: no self.sessions.clear().
StopSessionsKeepsTable ==
    /\ LoopFree
    /\ app = "stopping"
    /\ closed = NumPorts
    /\ WaitClosedDone
    /\ app' = "stopped"
    /\ state' = [c \in Conns |->
                    IF c \in sessions THEN "DISCONNECTED" ELSE state[c]]
    /\ UNCHANGED <<pc, pending, budget, files, job, reset, cancelled,
                   sessions, machines, announced, retracted, closed>>

\* The rest of stop(): mark every session in the table disconnected and
\* clear the table.  The writers are not closed.
StopSessions ==
    /\ LoopFree
    /\ app = "stopping"
    /\ closed = NumPorts
    /\ WaitClosedDone
    /\ app' = "stopped"
    /\ state' = [c \in Conns |->
                    IF c \in sessions THEN "DISCONNECTED" ELSE state[c]]
    /\ sessions' = {}
    /\ UNCHANGED <<pc, pending, budget, files, job, reset, cancelled,
                   machines, announced, retracted, closed>>

\* run_app returns and asyncio.run cancels the tasks that are left.
Teardown ==
    /\ LoopFree
    /\ app = "stopped"
    /\ app' = "teardown"
    /\ cancelled' = {c \in Conns : pc[c] \notin {"idle", "done"}}
    /\ UNCHANGED <<pc, state, pending, budget, files, job, reset,
                   sessions, machines, announced, retracted, closed>>

-----------------------------------------------------------------------------

\* What the connection's own task does when the event loop runs it.
Task(c) ==
    \/ Begin(c)
    \/ ReadReset(c)
    \/ HandleLogin(c)
    \/ HandleTerminate(c)
    \/ HandleVersion(c)
    \/ NoAnswer(c)
    \/ RequireAuth(c)
    \/ AnswerAtOnce(c)
    \/ \E cmd \in FileCommands : SubmitJob(c, cmd)
    \/ VersionDone(c)
    \/ DrainReset(c)
    \/ EndBatch(c)
    \/ c \in reset /\ Finish(c)
    \/ Cancelled(c)

ThreadReturns(c) == JobDone(c) \/ JobFails(c) \/ JobRaises(c)

Client(c) ==
    \/ Accept(c)
    \/ ClientReset(c)
    \/ ReadEof(c)
    \/ \E n \in 0..MaxFrames : ReadData(c, n)

\* The write buffer empties because the client reads.
Flushed(c) == Drain(c) \/ Finish(c)

Stopping == ClosePort \/ StopSessions \/ Teardown

\* Every task ended and no client will come: the process is gone.
Terminated ==
    /\ app = "teardown"
    /\ \A c \in Conns : pc[c] \in {"idle", "done"}
    /\ UNCHANGED vars

Next ==
    \/ \E c \in Conns : Task(c)
    \/ \E c \in Conns : ThreadReturns(c)
    \/ \E c \in Conns : IdleTimeout(c)
    \/ \E c \in Conns : LoopError(c)
    \/ \E c \in Conns : Flushed(c)
    \/ \E c \in Conns : Client(c)
    \/ Shutdown
    \/ Stopping
    \/ Terminated

Spec == Init /\ [][Next]_vars

\* The event loop runs every ready task, the thread pool finishes every job
\* (its queue is not blocked by other users of the pool), the idle timer
\* fires, and the clients in Readers take their responses.  Nothing is
\* assumed of the other clients, nor that a shutdown is ever requested.
Fairness ==
    /\ \A c \in Conns : WF_vars(Task(c))
    /\ \A c \in Conns : WF_vars(ThreadReturns(c))
    /\ \A c \in Conns : WF_vars(IdleTimeout(c))
    /\ \A c \in Readers : WF_vars(Flushed(c))
    /\ WF_vars(Stopping)

FairSpec == Spec /\ Fairness

\* Even if every connection being closed could flush its last response.
PromptCloseSpec == FairSpec /\ \A c \in Conns : WF_vars(Finish(c))
-----------------------------------------------------------------------------
(* Properties                                                              *)

\* The connections _handle_connection is serving.
Live == {c \in Conns : pc[c] \in Serving}

\* The sessions that ended: their finally block has run.
Ended == {c \in announced : pc[c] \in {"closing", "done"}}

\* The session table read by the dashboard and the API lists exactly the
\* connections being served, whichever way each of them ends; after stop()
\* has cleared the table it lists only connections being served.
TableTracksConnections ==
    /\ sessions \subseteq Live
    /\ app \in {"running", "stopping"} => Live \subseteq sessions

\* A machine is shown connected exactly while it names a current session, and
\* that session is one being served for this very machine: no order of
\* connects and disconnects of the same machine leaves a ghost behind.
PresenceSound ==
    \A i \in DOMAIN machines :
        /\ machines[i].ip = i
        /\ machines[i].connected <=> machines[i].session # NoSession
        /\ machines[i].connected =>
              /\ machines[i].session \in Live
              /\ PeerOf[machines[i].session] = i

\* The files that the ended sessions of machine i transferred, each named by
\* its session and its place in it.
FilesOf(i) ==
    UNION {{c} \X (1..files[c]) : c \in {d \in Ended : PeerOf[d] = i}}

\* A machine's totals are exactly the connections it opened and the files of
\* its sessions that ended: each session is added once, on every exit path.
TotalsExact ==
    \A i \in DOMAIN machines :
        /\ machines[i].connections = Cardinality({c \in announced : PeerOf[c] = i})
        /\ machines[i].files = Cardinality(FilesOf(i))

\* A listener that follows the events sees every session that connected
\* disconnect once, after its last step; only the teardown of the process may
\* swallow the second event.
EventsPaired ==
    /\ retracted \subseteq announced
    /\ \A c \in retracted : pc[c] = "done"
    /\ app # "teardown" => \A c \in Ended : pc[c] = "done" => c \in retracted

\* A file operation in the thread pool belongs to a session that is logged
\* in, or that stop() has marked disconnected under its feet; and a task
\* away from the thread pool holds no operation.
JobsOwned ==
    \A c \in Conns :
        /\ job[c] # NoJob <=> pc[c] \in {"thread", "version"}
        /\ job[c] # NoJob /\ state[c] # "AUTHENTICATED" =>
              /\ app \in {"stopped", "teardown"}
              /\ c \notin sessions

\* Whose "machine.connected" event is out, who cannot be logged in yet and when
\* a task can be cancelled: what the properties above need to be inductive.
History ==
    /\ \A c \in Conns : pc[c] \in Serving \cup {"closing"} => c \in announced
    /\ \A c \in Conns : pc[c] \in {"idle", "accepted"} =>
                            c \notin announced /\ state[c] = "CONNECTED"
    /\ cancelled # {} => app = "teardown"

ServerInv ==
    /\ TypeOK
    /\ TableTracksConnections
    /\ PresenceSound
    /\ EventsPaired
    /\ JobsOwned
    /\ History

\* What the server promises its clients (FileService): the phase of a client
\* is read off its task and its session, and its work is the thread job.
Phase ==
    [c \in Conns |->
        IF pc[c] \in {"idle", "accepted"} THEN "absent"
        ELSE IF pc[c] \in {"closing", "done"} THEN "gone"
        ELSE IF state[c] = "AUTHENTICATED" THEN "authed" ELSE "open"]

Busy == {c \in Conns : pc[c] = "thread"}

Service == INSTANCE FileService WITH
    Clients <- Conns, phase <- Phase, busy <- Busy, moved <- files

\* Every behaviour of the server is one of the file service: logins gate file
\* operations, at most one runs per client and counts at most once, stop()
\* withdraws every login in one step, and no client returns from the dead.
ImplementsFileService == Service!FSSpec

\* A connection of a client that keeps reading ends, whatever it sends and
\* however it stops: the idle timer bounds its silence.
QuietConnectionsEnd == \A c \in Readers : pc[c] = "accepted" ~> pc[c] = "done"

\* stop() completes once requested, the process is torn down, and no task is
\* left serving a client, not even one that never reads its responses.
StopCompletes == app = "stopping" ~> app = "teardown" /\ Live = {}
=============================================================================
