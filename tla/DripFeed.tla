------------------------------- MODULE DripFeed -------------------------------
(***************************************************************************)
(* Drip feeding a program to a CNC: over RS-232 (serial/drip_feed.py,      *)
(* DripFeeder.send_sync in a thread of the default executor) and to a LAN  *)
(* unit (serial/tcp_drip.py, TCPDripFeeder.send in an asyncio task), with  *)
(* the routes that start and cancel a session (web/routes/probe.py).       *)
(*                                                                         *)
(* A serial session runs in a thread, so the event loop's cancel() and the *)
(* machine at the other end interleave with every step: one action reads   *)
(* or writes the flag, the port or the status once.  A LAN session runs on *)
(* the event loop: one action is the code up to the next await.            *)
(*                                                                         *)
(* The routes always leave flow_control at "xon_xoff", so the port is      *)
(* opened with xonxoff=True.  Whether the operating system's driver then   *)
(* acts on XON and XOFF itself and hides them from the program (POSIX      *)
(* terminals) or passes them on is the driver's choice: both are explored. *)
(***************************************************************************)
EXTENDS Integers, Sequences, FiniteSets

CONSTANTS
    Serial,    \* sessions started by POST drip-feed/serial
    Tcp,       \* sessions started by POST drip-feed/tcp
    Ports,     \* serial ports
    PortOf,    \* the port of a serial session
    Lines,     \* number of lines of a session's program
    Workers,   \* threads of the default executor
    Takers,    \* LAN sessions whose unit keeps taking lines
    MaxPosts,  \* bound: sessions requested in all
    MaxChars,  \* bound: control characters a machine sends of its own accord
    Drivers    \* {"acts", "passes"}, or one of them

Sessions == Serial \cup Tcp

ASSUME DripAssumption ==
    /\ IsFiniteSet(Sessions)
    /\ Serial \cap Tcp = {}
    /\ PortOf \in [Serial -> Ports]
    /\ Lines \in [Sessions -> Nat]
    /\ Workers \in Nat \ {0}
    /\ Takers \subseteq Tcp
    /\ MaxPosts \in Nat
    /\ MaxChars \in Nat
    /\ Drivers \subseteq {"acts", "passes"}

VARIABLES
    pc,       \* where each session's thread or task is
    status,   \* status.state
    sent,     \* status.lines_sent
    cancel,   \* _cancel
    open,     \* serial sessions that hold their port open
    rx,       \* per port, the characters received and not read
    stopped,  \* ports whose machine asked to stop (its last word is XOFF)
    held,     \* ports whose output the driver holds back
    chars,    \* per port, characters the machine may still volunteer
    driver,   \* what the driver does with XON and XOFF
    late      \* history: lines a session sent after its flag was set

sessionVars == <<pc, status, sent, cancel, late>>
lineVars == <<rx, stopped, held, chars, driver>>
vars == <<pc, status, sent, cancel, open, rx, stopped, held, chars, driver, late>>

States == {"IDLE", "WAITING", "SENDING", "PAUSED",
           "COMPLETED", "ERROR", "CANCELLED"}

\*   new       not requested yet         check    in _check_flow_control
\*   queued    handed to the executor    paused   in its wait for XON
\*   starting  before the flag's reset   write    about to write a line
\*   opening   about to open the port    flushing in writer.drain
\*   waiting   in _wait_for_ready        closing  before the finally's close
\*   ready     after it                  ended    returned
\*   line      at the top of the loop
PCs == {"new", "queued", "starting", "opening", "waiting", "ready", "line",
        "check", "paused", "write", "flushing", "closing", "ended"}

\* From the reset of the flag to the last look at it.
Listening == {"opening", "waiting", "ready", "line", "check", "paused",
              "write", "flushing"}

Controls == {"XON", "XOFF", "DC2"}

TypeOK ==
    /\ pc \in [Sessions -> PCs]
    /\ status \in [Sessions -> States]
    /\ sent \in [Sessions -> Nat] /\ \A s \in Sessions : sent[s] <= Lines[s]
    /\ cancel \in [Sessions -> BOOLEAN]
    /\ open \subseteq Serial
    /\ rx \in [Ports -> Seq(Controls)]
    /\ stopped \subseteq Ports
    /\ held \subseteq Ports
    /\ chars \in [Ports -> Nat]
    /\ driver \in {"acts", "passes"}
    /\ late \in [Sessions -> Nat]

Init ==
    /\ pc = [s \in Sessions |-> "new"]
    /\ status = [s \in Sessions |-> "IDLE"]
    /\ sent = [s \in Sessions |-> 0]
    /\ cancel = [s \in Sessions |-> FALSE]
    /\ open = {}
    /\ rx = [p \in Ports |-> <<>>]
    /\ stopped = {}
    /\ held = {}
    /\ chars = [p \in Ports |-> MaxChars]
    /\ driver \in Drivers
    /\ late = [s \in Sessions |-> 0]

-----------------------------------------------------------------------------
(* Helpers                                                                 *)

Goto(s, l) == pc' = [pc EXCEPT ![s] = l]

Show(s, st) == status' = [status EXCEPT ![s] = st]

Posted == {s \in Sessions : pc[s] # "new"}

\* The executor's threads at work: queued sessions wait for a free one.
Running == {s \in Serial : pc[s] \notin {"new", "queued", "ended"}}

Opened(p) == \E s \in open : PortOf[s] = p

\* The next character of s's port, and the port without it.
NextChar(s) == Head(rx[PortOf[s]])
Pending(s) == rx[PortOf[s]] # <<>>
TakeChar(s) == rx' = [rx EXCEPT ![PortOf[s]] = Tail(@)]

CountLine(s) ==
    /\ sent' = [sent EXCEPT ![s] = @ + 1]
    /\ late' = [late EXCEPT ![s] = IF cancel[s] THEN @ + 1 ELSE @]

-----------------------------------------------------------------------------
(* The routes                                                              *)

\* POST drip-feed/serial or drip-feed/tcp: the feeder is stored under a new
\* session id and handed to the executor or to the event loop.
Post(s) ==
    /\ pc[s] = "new"
    /\ Cardinality(Posted) < MaxPosts
    /\ Goto(s, "queued")
    /\ UNCHANGED <<status, sent, cancel, open, late, lineVars>>

\* Mutant: cancel() also sets the status, which the thread then overwrites.
CancelShows(s) ==
    /\ pc[s] \notin {"new", "ended"}
    /\ cancel' = [cancel EXCEPT ![s] = TRUE]
    /\ Show(s, "CANCELLED")
    /\ UNCHANGED <<pc, sent, open, late, lineVars>>

\* POST drip-feed/cancel of a known session: it only sets the flag, which
\* nobody reads once the session has ended.
Cancel(s) ==
    /\ pc[s] \notin {"new", "ended"}
    /\ cancel' = [cancel EXCEPT ![s] = TRUE]
    /\ UNCHANGED <<pc, status, sent, open, late, lineVars>>

-----------------------------------------------------------------------------
(* DripFeeder.send_sync                                                    *)

\* A thread is free and takes the session; the status is replaced.
Start(s) ==
    /\ s \in Serial
    /\ pc[s] = "queued"
    /\ Cardinality(Running) < Workers
    /\ Goto(s, "starting")
    /\ Show(s, "WAITING")
    /\ UNCHANGED <<sent, cancel, open, late, lineVars>>

\* self._cancel = False, whatever it was.
ResetFlag(s) ==
    /\ pc[s] = "starting"
    /\ cancel' = [cancel EXCEPT ![s] = FALSE]
    /\ Goto(s, "opening")
    /\ UNCHANGED <<status, sent, open, late, lineVars>>

\* serial.Serial(...) opens the port, which flushes its input.  Two sessions
\* may have one port open: nothing asks for exclusive access.
OpenPort(s) ==
    /\ s \in Serial
    /\ pc[s] = "opening"
    /\ open' = open \cup {s}
    /\ rx' = [rx EXCEPT ![PortOf[s]] = <<>>]
    /\ Goto(s, "waiting")
    /\ UNCHANGED <<status, sent, cancel, late, stopped, held, chars, driver>>

\* An iteration of _wait_for_ready sees the flag.
WaitCancelled(s) ==
    /\ pc[s] = "waiting"
    /\ cancel[s]
    /\ Goto(s, "ready")
    /\ UNCHANGED <<status, sent, cancel, open, late, lineVars>>

\* It reads everything received; XON or DC2 among it means ready.
WaitReads(s) ==
    /\ pc[s] = "waiting"
    /\ Pending(s)
    /\ rx' = [rx EXCEPT ![PortOf[s]] = <<>>]
    /\ IF \E i \in DOMAIN rx[PortOf[s]] : rx[PortOf[s]][i] \in {"XON", "DC2"}
       THEN Goto(s, "ready")
       ELSE UNCHANGED pc
    /\ UNCHANGED <<status, sent, cancel, open, late, stopped, held, chars, driver>>

\* Mutant: the deadline is computed anew in every iteration.
WaitForever(s) ==
    /\ pc[s] = "waiting"
    /\ UNCHANGED vars

\* 60 seconds passed: the program starts anyway.
WaitTimesOut(s) ==
    /\ pc[s] = "waiting"
    /\ Goto(s, "ready")
    /\ UNCHANGED <<status, sent, cancel, open, late, lineVars>>

\* Ready, or at the top of either feeder's loop: the flag is seen.
SeesCancel(s) ==
    /\ pc[s] = "ready" \/ (pc[s] = "line" /\ sent[s] < Lines[s])
    /\ cancel[s]
    /\ Show(s, "CANCELLED")
    /\ Goto(s, "closing")
    /\ UNCHANGED <<sent, cancel, open, late, lineVars>>

BeginSending(s) ==
    /\ pc[s] = "ready"
    /\ ~cancel[s]
    /\ Show(s, "SENDING")
    /\ Goto(s, "line")
    /\ UNCHANGED <<sent, cancel, open, late, lineVars>>

\* Mutant: the loop runs once too often.
NextLineTooFar(s) ==
    /\ s \in Serial
    /\ pc[s] = "line"
    /\ sent[s] <= Lines[s]
    /\ ~cancel[s]
    /\ Goto(s, "check")
    /\ UNCHANGED <<status, sent, cancel, open, late, lineVars>>

\* Mutant: the flag is looked at once, before the loop.
NextLineUnchecked(s) ==
    /\ s \in Serial
    /\ pc[s] = "line"
    /\ sent[s] < Lines[s]
    /\ Goto(s, "check")
    /\ UNCHANGED <<status, sent, cancel, open, late, lineVars>>

\* The next line is due: first the flow control is checked.
NextLine(s) ==
    /\ s \in Serial
    /\ pc[s] = "line"
    /\ sent[s] < Lines[s]
    /\ ~cancel[s]
    /\ Goto(s, "check")
    /\ UNCHANGED <<status, sent, cancel, open, late, lineVars>>

\* Either feeder's loop is over; a cancel after the last line changes nothing.
Complete(s) ==
    /\ pc[s] = "line"
    /\ sent[s] = Lines[s]
    /\ Show(s, "COMPLETED")
    /\ Goto(s, "closing")
    /\ UNCHANGED <<sent, cancel, open, late, lineVars>>

\* _check_flow_control finds nothing received.
CheckEmpty(s) ==
    /\ pc[s] = "check"
    /\ ~Pending(s)
    /\ Goto(s, "write")
    /\ UNCHANGED <<status, sent, cancel, open, late, lineVars>>

\* It reads one character: XOFF pauses, anything else is dropped.
CheckReads(s) ==
    /\ pc[s] = "check"
    /\ Pending(s)
    /\ TakeChar(s)
    /\ IF NextChar(s) = "XOFF"
       THEN Show(s, "PAUSED") /\ Goto(s, "paused")
       ELSE UNCHANGED <<status, pc>>
    /\ UNCHANGED <<sent, cancel, open, late, stopped, held, chars, driver>>

\* Mutant: any character resumes.
PausedReadsAny(s) ==
    /\ pc[s] = "paused"
    /\ ~cancel[s]
    /\ Pending(s)
    /\ TakeChar(s)
    /\ Goto(s, "write")
    /\ UNCHANGED <<status, sent, cancel, open, late, stopped, held, chars, driver>>

\* While paused, characters are read one by one until XON.
PausedReads(s) ==
    /\ pc[s] = "paused"
    /\ ~cancel[s]
    /\ Pending(s)
    /\ TakeChar(s)
    /\ IF NextChar(s) = "XON"
       THEN Show(s, "SENDING") /\ Goto(s, "write")
       ELSE UNCHANGED <<status, pc>>
    /\ UNCHANGED <<sent, cancel, open, late, stopped, held, chars, driver>>

\* Mutant: only XON ends the wait.
PausedIgnoresCancel(s) ==
    /\ pc[s] = "paused"
    /\ cancel[s]
    /\ UNCHANGED vars

\* The flag ends the wait, and the status stays: back to the check's loop.
PausedSeesCancel(s) ==
    /\ pc[s] = "paused"
    /\ cancel[s]
    /\ Goto(s, "check")
    /\ UNCHANGED <<status, sent, cancel, open, late, lineVars>>

\* write and flush: the flush returns when the driver has let the line out.
WriteLine(s) ==
    /\ pc[s] = "write"
    /\ PortOf[s] \notin held
    /\ CountLine(s)
    /\ Goto(s, "line")
    /\ UNCHANGED <<status, cancel, open, lineVars>>

\* Opening, reading or writing raises: the device is missing or unplugged.
SerialFails(s) ==
    /\ s \in Serial
    /\ pc[s] \in {"opening", "waiting", "check", "paused", "write"}
    /\ Show(s, "ERROR")
    /\ Goto(s, "closing")
    /\ UNCHANGED <<sent, cancel, open, late, lineVars>>

\* Mutant: the port is closed at the end of the try block, not in finally.
ClosePortUnlessCancelled(s) ==
    /\ s \in Serial
    /\ pc[s] = "closing"
    /\ open' = IF status[s] = "CANCELLED" THEN open ELSE open \ {s}
    /\ held' = {p \in held : \E t \in open' : PortOf[t] = p}
    /\ Goto(s, "ended")
    /\ UNCHANGED <<status, sent, cancel, late, rx, stopped, chars, driver>>

\* finally: the port is closed, and the last one to close it frees the driver.
ClosePort(s) ==
    /\ s \in Serial
    /\ pc[s] = "closing"
    /\ open' = open \ {s}
    /\ held' = {p \in held : \E t \in open' : PortOf[t] = p}
    /\ Goto(s, "ended")
    /\ UNCHANGED <<status, sent, cancel, late, rx, stopped, chars, driver>>

-----------------------------------------------------------------------------
(* TCPDripFeeder.send.  drain() may or may not suspend the task; a cancel   *)
(* between it and the top of the loop acts like one that came during it.   *)

\* The task's first step, up to the connection attempt.
TcpBegin(s) ==
    /\ s \in Tcp
    /\ pc[s] = "queued"
    /\ Show(s, "WAITING")
    /\ cancel' = [cancel EXCEPT ![s] = FALSE]
    /\ Goto(s, "opening")
    /\ UNCHANGED <<sent, open, late, lineVars>>

\* Connected: on to the loop.
TcpConnected(s) ==
    /\ s \in Tcp
    /\ pc[s] = "opening"
    /\ Show(s, "SENDING")
    /\ Goto(s, "line")
    /\ UNCHANGED <<sent, cancel, open, late, lineVars>>

\* It writes the next line and waits for the buffer.
TcpWrite(s) ==
    /\ s \in Tcp
    /\ pc[s] = "line"
    /\ sent[s] < Lines[s]
    /\ ~cancel[s]
    /\ Goto(s, "flushing")
    /\ UNCHANGED <<status, sent, cancel, open, late, lineVars>>

\* The unit took the line.
TcpDrained(s) ==
    /\ s \in Tcp
    /\ pc[s] = "flushing"
    /\ CountLine(s)
    /\ Goto(s, "line")
    /\ UNCHANGED <<status, cancel, open, lineVars>>

\* Timed out, refused or lost: the exception skips the close.
TcpFails(s) ==
    /\ s \in Tcp
    /\ pc[s] \in {"opening", "flushing"}
    /\ Show(s, "ERROR")
    /\ Goto(s, "ended")
    /\ UNCHANGED <<sent, cancel, open, late, lineVars>>

\* writer.wait_closed() returns or raises.
TcpClosed(s) ==
    /\ s \in Tcp
    /\ pc[s] = "closing"
    /\ Goto(s, "ended")
    /\ UNCHANGED <<status, sent, cancel, open, late, lineVars>>

-----------------------------------------------------------------------------
(* The machine at the other end of the serial line                         *)

\* A character arrives.  Nobody gets it while the port is closed; the driver
\* acts on XON and XOFF itself, or queues them like any other character.
Receive(p, ch) ==
    LET acts == driver = "acts" /\ ch # "DC2"
    IN  /\ rx' = IF Opened(p) /\ ~acts THEN [rx EXCEPT ![p] = Append(@, ch)] ELSE rx
        /\ held' = IF Opened(p) /\ acts
                   THEN IF ch = "XOFF" THEN held \cup {p} ELSE held \ {p}
                   ELSE held

\* Its buffer is full: XOFF.
MachineStops(p) ==
    /\ chars[p] > 0
    /\ chars' = [chars EXCEPT ![p] = @ - 1]
    /\ stopped' = stopped \cup {p}
    /\ Receive(p, "XOFF")
    /\ UNCHANGED <<sessionVars, open, driver>>

\* It has room again: XON.
MachineResumes(p) ==
    /\ p \in stopped
    /\ stopped' = stopped \ {p}
    /\ Receive(p, "XON")
    /\ UNCHANGED <<sessionVars, open, chars, driver>>

\* The operator presses READ: XON or DC2 says that it is ready.
MachineReady(p) ==
    /\ chars[p] > 0
    /\ p \notin stopped
    /\ chars' = [chars EXCEPT ![p] = @ - 1]
    /\ \E ch \in {"XON", "DC2"} : Receive(p, ch)
    /\ UNCHANGED <<sessionVars, open, stopped, driver>>

-----------------------------------------------------------------------------

\* What a thread or a task does by itself.
Task(s) ==
    \/ Start(s) \/ ResetFlag(s) \/ OpenPort(s)
    \/ WaitCancelled(s) \/ WaitReads(s)
    \/ SeesCancel(s) \/ BeginSending(s)
    \/ NextLine(s) \/ Complete(s)
    \/ CheckEmpty(s) \/ CheckReads(s)
    \/ PausedReads(s) \/ PausedSeesCancel(s)
    \/ WriteLine(s) \/ ClosePort(s)
    \/ TcpBegin(s) \/ TcpWrite(s)

\* What it does when the unit at the other end of the LAN answers.
Answered(s) == TcpDrained(s) \/ TcpClosed(s)

Requested(s) == Post(s) \/ Cancel(s)

Machine(p) == MachineStops(p) \/ MachineResumes(p) \/ MachineReady(p)

\* Every session allowed by the bound has ended.
AllEnded ==
    /\ \A s \in Posted : pc[s] = "ended"
    /\ Cardinality(Posted) >= MaxPosts
    /\ UNCHANGED vars

Next ==
    \/ \E s \in Sessions : Task(s)
    \/ \E s \in Sessions : WaitTimesOut(s)
    \/ \E s \in Sessions : SerialFails(s)
    \/ \E s \in Sessions : TcpConnected(s) \/ TcpFails(s)
    \/ \E s \in Sessions : Answered(s)
    \/ \E s \in Sessions : Requested(s)
    \/ \E p \in Ports : Machine(p)
    \/ AllEnded

Spec == Init /\ [][Next]_vars

\* Threads and tasks run, the two timeouts expire, and some LAN units take
\* what is sent.  Nothing is assumed of the machines, nor of the requests.
Fairness ==
    /\ \A s \in Sessions : WF_vars(Task(s))
    /\ \A s \in Serial : WF_vars(WaitTimesOut(s))
    /\ \A s \in Tcp :
          WF_vars(pc[s] = "opening" /\ (TcpConnected(s) \/ TcpFails(s)))
    /\ \A s \in Takers : WF_vars(Answered(s))

FairSpec == Spec /\ Fairness

-----------------------------------------------------------------------------
(* Properties                                                              *)

\* After cancel() has set the flag of a session that watches it, at most one
\* more line reaches the machine, wherever the session was.
LateLines == \A s \in Sessions : late[s] <= 1

\* Nothing is sent while the status says PAUSED: the machine asked to stop.
\* The exception is a cancelled pause, which lets out the line it held back.
SilentWhilePaused ==
    [][\A s \in Sessions :
          status[s] = "PAUSED" /\ sent'[s] # sent[s] => cancel[s]]_vars

\* A session keeps its port from opening to the end, and gives it back on
\* every path; no more sessions run than there are threads; and the driver
\* holds output back only for an open port whose machine asked for it.
PortsInOrder ==
    /\ \A s \in Serial :
          /\ pc[s] \in Listening \ {"opening"} => s \in open
          /\ s \in open => pc[s] \in (Listening \ {"opening"}) \cup {"closing"}
    /\ Cardinality(Running) <= Workers
    /\ \A p \in held : p \in stopped /\ Opened(p)

\* What the dashboard's polls can see is a drip feed job.
Job == INSTANCE DripJob WITH
    Jobs <- Sessions, Total <- Lines, phase <- status, count <- sent

\* Every session's status and line count follow the life of a job: it is
\* COMPLETED only when every line is out, and what ended stays as it ended
\* whatever is cancelled, read or unplugged afterwards.
ImplementsDripJob == Job!JobSpec

\* Once the flag is set for a session that watches it, the session ends, even
\* if the machine never sends XON: unless the driver itself holds the line.
CancelEnds ==
    \A s \in Serial \cup Takers :
        (cancel[s] /\ pc[s] \in Listening)
            ~> (pc[s] = "ended" \/ (s \in Serial /\ PortOf[s] \in held))

\* Two sessions have the same port open.
Contended == \E s, t \in open : s # t /\ PortOf[s] = PortOf[t]

\* A serial session that was requested ends, provided no machine stops for
\* good and no two sessions ever take characters from the same port.
FeedEnds ==
    ((\A p \in Ports : []<>(p \notin stopped)) /\ []~Contended)
        => \A s \in Serial : pc[s] = "queued" ~> pc[s] = "ended"

-----------------------------------------------------------------------------
(* What the comments of the code say, and the code does not do             *)

\* probe.py: "Cancel an active drip feed session."  A session whose cancel was
\* answered before its first line does not send the whole program.
CancelHonoured ==
    \A s \in Sessions :
        [](cancel[s] /\ sent[s] = 0 /\ Lines[s] > 1 => [](status[s] # "COMPLETED"))
=============================================================================
