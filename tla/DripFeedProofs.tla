---------------------------- MODULE DripFeedProofs ----------------------------
(***************************************************************************)
(* Proofs about DripFeed for any sessions, ports, programs, number of      *)
(* threads and either kind of driver.                                      *)
(***************************************************************************)
EXTENDS DripFeed, FiniteSetTheorems, TLAPS

\* Where each kind of session can be, and what its status and flag are there.
SessionInv(s) ==
    /\ pc[s] \in {"starting", "waiting", "ready", "check", "paused", "write"}
          => s \in Serial
    /\ pc[s] = "flushing" => s \in Tcp
    /\ pc[s] \in {"new", "queued"} => status[s] = "IDLE"
    /\ pc[s] \in {"starting", "opening", "waiting", "ready"} => status[s] = "WAITING"
    /\ pc[s] \in {"line", "check", "write", "flushing"} =>
          status[s] \in {"SENDING", "PAUSED"}
    /\ pc[s] = "paused" => status[s] = "PAUSED"
    /\ pc[s] \in {"closing", "ended"} => status[s] \in Job!Final
    /\ status[s] = "PAUSED" => s \in Serial /\ (pc[s] = "paused" \/ cancel[s])
    /\ pc[s] \in {"check", "paused", "write", "flushing"} => sent[s] < Lines[s]
    /\ pc[s] \in {"line", "closing", "ended"} \/ late[s] = 0
    /\ late[s] <= 1
    /\ pc[s] = "line" /\ late[s] > 0 => cancel[s]

\* Which sessions have their port open.
PortInv(s) ==
    /\ pc[s] \in Listening \ {"opening"} => s \in open
    /\ s \in open => pc[s] \in (Listening \ {"opening"}) \cup {"closing"}

\* Every action of a session.
Act(s) ==
    \/ Start(s) \/ ResetFlag(s) \/ OpenPort(s) \/ WaitCancelled(s)
    \/ WaitReads(s) \/ WaitTimesOut(s) \/ SeesCancel(s) \/ BeginSending(s)
    \/ NextLine(s) \/ Complete(s) \/ CheckEmpty(s) \/ CheckReads(s)
    \/ PausedReads(s) \/ PausedSeesCancel(s) \/ WriteLine(s) \/ SerialFails(s)
    \/ ClosePort(s) \/ TcpBegin(s) \/ TcpWrite(s) \/ TcpConnected(s)
    \/ TcpFails(s) \/ TcpDrained(s) \/ TcpClosed(s) \/ Post(s)
    \/ Cancel(s)

\* The driver holds back only what the machine asked it to.
HeldInv ==
    /\ \A p \in held : p \in stopped /\ Opened(p)
    /\ held # {} => driver = "acts"

DripInv ==
    /\ TypeOK
    /\ \A s \in Sessions : SessionInv(s)
    /\ \A s \in Serial : PortInv(s)
    /\ Cardinality(Running) <= Workers
    /\ HeldInv


\* What a step is: one action of one session, a step of a machine, or nothing.
LEMMA StepCases ==
    ASSUME [Next]_vars
    PROVE  \/ \E s \in Sessions : Act(s)
           \/ \E p \in Ports : Machine(p)
           \/ UNCHANGED vars
BY DEF Next, Act, Task, Answered, Requested, AllEnded

\* Taking the next character leaves a queue of characters.
LEMMA TakeCharType ==
    ASSUME TypeOK, NEW s \in Serial, Pending(s), TakeChar(s)
    PROVE  rx' \in [Ports -> Seq(Controls)]
<1>1. PortOf[s] \in Ports
  BY DripAssumption
<1>2. rx[PortOf[s]] \in Seq(Controls) /\ rx[PortOf[s]] # <<>>
  BY <1>1 DEF TypeOK, Pending
<1>3. Tail(rx[PortOf[s]]) \in Seq(Controls)
  BY <1>2
<1> QED
  BY <1>3 DEF TypeOK, TakeChar

\* Every action keeps the types.
LEMMA ActType ==
    ASSUME TypeOK, NEW s \in Sessions, SessionInv(s), Act(s)
    PROVE  TypeOK'
<1> USE DripAssumption DEF TypeOK, States, PCs, Goto, Show, CountLine,
        sessionVars, lineVars, SessionInv
<1>1. CASE Start(s)
  BY <1>1 DEF Start
<1>2. CASE ResetFlag(s)
  BY <1>2 DEF ResetFlag
<1>3. CASE OpenPort(s)
  BY <1>3 DEF OpenPort
<1>4. CASE WaitCancelled(s)
  BY <1>4 DEF WaitCancelled
<1>5. CASE WaitReads(s)
  <2>1. pc' = pc \/ pc' = [pc EXCEPT ![s] = "ready"]
    BY <1>5 DEF WaitReads
  <2>2. rx' = [rx EXCEPT ![PortOf[s]] = <<>>]
    BY <1>5 DEF WaitReads
  <2>3. rx' \in [Ports -> Seq(Controls)]
    <3>1. <<>> \in Seq(Controls)
      OBVIOUS
    <3>2. rx \in [Ports -> Seq(Controls)]
      OBVIOUS
    <3> QED
      BY <2>2, <3>1, <3>2
  <2>4. pc' \in [Sessions -> PCs]
    BY <2>1
  <2> QED
    BY <1>5, <2>3, <2>4 DEF WaitReads
<1>6. CASE WaitTimesOut(s)
  BY <1>6 DEF WaitTimesOut
<1>7. CASE SeesCancel(s)
  BY <1>7 DEF SeesCancel
<1>8. CASE BeginSending(s)
  BY <1>8 DEF BeginSending
<1>9. CASE NextLine(s)
  BY <1>9 DEF NextLine
<1>10. CASE Complete(s)
  BY <1>10 DEF Complete
<1>11. CASE CheckEmpty(s)
  BY <1>11 DEF CheckEmpty
<1>12. CASE CheckReads(s)
  BY <1>12, TakeCharType DEF CheckReads
<1>13. CASE PausedReads(s)
  BY <1>13, TakeCharType DEF PausedReads
<1>14. CASE PausedSeesCancel(s)
  BY <1>14 DEF PausedSeesCancel
<1>15. CASE WriteLine(s)
  BY <1>15 DEF WriteLine
<1>16. CASE SerialFails(s)
  BY <1>16 DEF SerialFails
<1>17. CASE ClosePort(s)
  BY <1>17 DEF ClosePort
<1>18. CASE TcpBegin(s)
  BY <1>18 DEF TcpBegin
<1>19. CASE TcpWrite(s)
  BY <1>19 DEF TcpWrite
<1>20. CASE TcpConnected(s)
  BY <1>20 DEF TcpConnected
<1>21. CASE TcpFails(s)
  BY <1>21 DEF TcpFails
<1>22. CASE TcpDrained(s)
  BY <1>22 DEF TcpDrained
<1>23. CASE TcpClosed(s)
  BY <1>23 DEF TcpClosed
<1>24. CASE Post(s)
  BY <1>24 DEF Post
<1>25. CASE Cancel(s)
  BY <1>25 DEF Cancel
<1> QED
  BY <1>1, <1>2, <1>3, <1>4, <1>5, <1>6, <1>7, <1>8, <1>9, <1>10,
     <1>11, <1>12, <1>13, <1>14, <1>15, <1>16, <1>17, <1>18, <1>19, <1>20,
     <1>21, <1>22, <1>23, <1>24, <1>25 DEF Act

\* Every action keeps what is known of its own session and of the others.
LEMMA ActSession ==
    ASSUME TypeOK, NEW s \in Sessions, NEW t \in Sessions,
           SessionInv(s), SessionInv(t), Act(s)
    PROVE  SessionInv(t)'
<1> USE DripAssumption DEF TypeOK, States, PCs, Goto, Show, CountLine,
        sessionVars, lineVars, SessionInv, Job!Final, Sessions
<1>1. CASE Start(s)
  BY <1>1 DEF Start
<1>2. CASE ResetFlag(s)
  BY <1>2 DEF ResetFlag
<1>3. CASE OpenPort(s)
  BY <1>3 DEF OpenPort
<1>4. CASE WaitCancelled(s)
  BY <1>4 DEF WaitCancelled
<1>5. CASE WaitReads(s)
  BY <1>5 DEF WaitReads
<1>6. CASE WaitTimesOut(s)
  BY <1>6 DEF WaitTimesOut
<1>7. CASE SeesCancel(s)
  BY <1>7 DEF SeesCancel
<1>8. CASE BeginSending(s)
  BY <1>8 DEF BeginSending
<1>9. CASE NextLine(s)
  BY <1>9 DEF NextLine
<1>10. CASE Complete(s)
  BY <1>10 DEF Complete
<1>11. CASE CheckEmpty(s)
  BY <1>11 DEF CheckEmpty
<1>12. CASE CheckReads(s)
  BY <1>12 DEF CheckReads
<1>13. CASE PausedReads(s)
  BY <1>13 DEF PausedReads
<1>14. CASE PausedSeesCancel(s)
  BY <1>14 DEF PausedSeesCancel
<1>15. CASE WriteLine(s)
  BY <1>15 DEF WriteLine
<1>16. CASE SerialFails(s)
  BY <1>16 DEF SerialFails
<1>17. CASE ClosePort(s)
  BY <1>17 DEF ClosePort
<1>18. CASE TcpBegin(s)
  BY <1>18 DEF TcpBegin
<1>19. CASE TcpWrite(s)
  BY <1>19 DEF TcpWrite
<1>20. CASE TcpConnected(s)
  BY <1>20 DEF TcpConnected
<1>21. CASE TcpFails(s)
  BY <1>21 DEF TcpFails
<1>22. CASE TcpDrained(s)
  BY <1>22 DEF TcpDrained
<1>23. CASE TcpClosed(s)
  BY <1>23 DEF TcpClosed
<1>24. CASE Post(s)
  BY <1>24 DEF Post
<1>25. CASE Cancel(s)
  BY <1>25 DEF Cancel
<1> QED
  BY <1>1, <1>2, <1>3, <1>4, <1>5, <1>6, <1>7, <1>8, <1>9, <1>10,
     <1>11, <1>12, <1>13, <1>14, <1>15, <1>16, <1>17, <1>18, <1>19, <1>20,
     <1>21, <1>22, <1>23, <1>24, <1>25 DEF Act

\* Every action keeps what is known of the open ports.
LEMMA ActPort ==
    ASSUME TypeOK, NEW s \in Sessions, NEW t \in Serial,
           SessionInv(s), PortInv(s) \/ s \in Tcp, PortInv(t), Act(s)
    PROVE  PortInv(t)'
<1> USE DripAssumption DEF TypeOK, PCs, Goto, Listening,
        sessionVars, lineVars, SessionInv, PortInv, Sessions
<1>1. CASE Start(s)
  BY <1>1 DEF Start
<1>2. CASE ResetFlag(s)
  BY <1>2 DEF ResetFlag
<1>3. CASE OpenPort(s)
  BY <1>3 DEF OpenPort
<1>4. CASE WaitCancelled(s)
  BY <1>4 DEF WaitCancelled
<1>5. CASE WaitReads(s)
  BY <1>5 DEF WaitReads
<1>6. CASE WaitTimesOut(s)
  BY <1>6 DEF WaitTimesOut
<1>7. CASE SeesCancel(s)
  BY <1>7 DEF SeesCancel
<1>8. CASE BeginSending(s)
  BY <1>8 DEF BeginSending
<1>9. CASE NextLine(s)
  BY <1>9 DEF NextLine
<1>10. CASE Complete(s)
  BY <1>10 DEF Complete
<1>11. CASE CheckEmpty(s)
  BY <1>11 DEF CheckEmpty
<1>12. CASE CheckReads(s)
  BY <1>12 DEF CheckReads
<1>13. CASE PausedReads(s)
  BY <1>13 DEF PausedReads
<1>14. CASE PausedSeesCancel(s)
  BY <1>14 DEF PausedSeesCancel
<1>15. CASE WriteLine(s)
  BY <1>15 DEF WriteLine
<1>16. CASE SerialFails(s)
  BY <1>16 DEF SerialFails
<1>17. CASE ClosePort(s)
  BY <1>17 DEF ClosePort
<1>18. CASE TcpBegin(s)
  BY <1>18 DEF TcpBegin
<1>19. CASE TcpWrite(s)
  BY <1>19 DEF TcpWrite
<1>20. CASE TcpConnected(s)
  BY <1>20 DEF TcpConnected
<1>21. CASE TcpFails(s)
  BY <1>21 DEF TcpFails
<1>22. CASE TcpDrained(s)
  BY <1>22 DEF TcpDrained
<1>23. CASE TcpClosed(s)
  BY <1>23 DEF TcpClosed
<1>24. CASE Post(s)
  BY <1>24 DEF Post
<1>25. CASE Cancel(s)
  BY <1>25 DEF Cancel
<1> QED
  BY <1>1, <1>2, <1>3, <1>4, <1>5, <1>6, <1>7, <1>8, <1>9, <1>10,
     <1>11, <1>12, <1>13, <1>14, <1>15, <1>16, <1>17, <1>18, <1>19, <1>20,
     <1>21, <1>22, <1>23, <1>24, <1>25 DEF Act

\* A machine's step leaves the sessions alone.
LEMMA MachineStep ==
    ASSUME DripInv, NEW p \in Ports, Machine(p)
    PROVE  TypeOK' /\ UNCHANGED <<pc, status, sent, cancel, late, open>>
<1> USE DEF Machine, MachineStops, MachineResumes, MachineReady, sessionVars
<1>1. UNCHANGED <<pc, status, sent, cancel, late, open>>
  OBVIOUS
<1>2. ASSUME NEW ch \in Controls, Receive(p, ch)
      PROVE  rx' \in [Ports -> Seq(Controls)] /\ held' \subseteq Ports
  <2>1. Append(rx[p], ch) \in Seq(Controls)
    BY DEF DripInv, TypeOK
  <2> QED
    BY <1>2, <2>1 DEF Receive, DripInv, TypeOK
<1>3. rx' \in [Ports -> Seq(Controls)] /\ held' \subseteq Ports
  BY <1>2 DEF Controls
<1>4. chars' \in [Ports -> Nat] /\ stopped' \subseteq Ports /\ driver' = driver
  <2> USE DEF DripInv, TypeOK
  <2>1. CASE MachineStops(p)
    BY <2>1
  <2>2. CASE MachineResumes(p)
    BY <2>2
  <2>3. CASE MachineReady(p)
    BY <2>3
  <2> QED
    BY <2>1, <2>2, <2>3
<1> QED
  BY <1>1, <1>3, <1>4 DEF DripInv, TypeOK

\* At most as many sessions run as there are threads: only Start adds one.
LEMMA WorkersStep ==
    ASSUME DripInv, NEW s \in Sessions, Act(s)
    PROVE  Cardinality(Running') <= Workers
<1>1. IsFiniteSet(Serial) /\ Workers \in Nat
  BY DripAssumption, FS_Subset DEF Sessions
<1>2. Running \subseteq Serial /\ Running' \subseteq Serial
  BY DEF Running
<1>3. IsFiniteSet(Running) /\ IsFiniteSet(Running')
  BY <1>1, <1>2, FS_Subset
<1>4. Cardinality(Running) \in Nat /\ Cardinality(Running') \in Nat
  BY <1>3, FS_CardinalityType
<1>5. CASE Start(s)
  <2>1. Running' = Running \cup {s} /\ Cardinality(Running) < Workers
    BY <1>5 DEF Start, Goto, Running, DripInv, TypeOK
  <2>2. Cardinality(Running') <= Cardinality(Running) + 1
    BY <2>1, <1>3, <1>4, FS_AddElement
  <2> QED
    BY <1>1, <1>4, <2>1, <2>2
<1>6. CASE ~Start(s)
  <2>1. pc[s] \in {"new", "queued"} => pc'[s] \in {"new", "queued"} \/ s \in Tcp
    BY <1>6 DEF Act, Start, ResetFlag, OpenPort, WaitCancelled, WaitReads, WaitTimesOut,
           SeesCancel, BeginSending, NextLine, Complete, CheckEmpty, CheckReads,
           PausedReads, PausedSeesCancel, WriteLine, SerialFails, ClosePort, TcpBegin,
           TcpWrite, TcpConnected, TcpFails, TcpDrained, TcpClosed, Post,
           Cancel, Goto, DripInv, TypeOK
  <2>2. \A t \in Sessions : t # s => pc'[t] = pc[t]
    BY DEF Act, Start, ResetFlag, OpenPort, WaitCancelled, WaitReads, WaitTimesOut,
           SeesCancel, BeginSending, NextLine, Complete, CheckEmpty, CheckReads,
           PausedReads, PausedSeesCancel, WriteLine, SerialFails, ClosePort, TcpBegin,
           TcpWrite, TcpConnected, TcpFails, TcpDrained, TcpClosed, Post,
           Cancel, Goto, DripInv, TypeOK
  <2>3. pc[s] = "ended" => pc'[s] = "ended"
    BY DEF Act, Start, ResetFlag, OpenPort, WaitCancelled, WaitReads, WaitTimesOut,
           SeesCancel, BeginSending, NextLine, Complete, CheckEmpty, CheckReads,
           PausedReads, PausedSeesCancel, WriteLine, SerialFails, ClosePort, TcpBegin,
           TcpWrite, TcpConnected, TcpFails, TcpDrained, TcpClosed, Post,
           Cancel, Goto, DripInv, TypeOK
  <2>4. Running' \subseteq Running
    BY <2>1, <2>2, <2>3, DripAssumption DEF Running, Sessions
  <2> QED
    BY <1>1, <1>3, <1>4, <2>4, FS_Subset, DripAssumption DEF DripInv
<1> QED
  BY <1>5, <1>6

\* Only closing a port and a machine's step change what the driver holds.
LEMMA ActHeld ==
    ASSUME DripInv, NEW s \in Sessions, Act(s)
    PROVE  HeldInv'
<1>1. CASE ClosePort(s)
  BY <1>1 DEF ClosePort, DripInv, HeldInv, Opened
<1>2. CASE ~ClosePort(s)
  <2>1. UNCHANGED <<held, stopped, driver>> /\ open \subseteq open'
    BY <1>2 DEF Act, lineVars,
           Start, ResetFlag, OpenPort, WaitCancelled, WaitReads, WaitTimesOut,
           SeesCancel, BeginSending, NextLine, Complete, CheckEmpty, CheckReads,
           PausedReads, PausedSeesCancel, WriteLine, SerialFails, TcpBegin, TcpWrite,
           TcpConnected, TcpFails, TcpDrained, TcpClosed, Post, Cancel
  <2> QED
    BY <2>1 DEF DripInv, HeldInv, Opened
<1> QED
  BY <1>1, <1>2

\* A machine's step never leaves output held that it did not ask to hold.
LEMMA MachineHeld ==
    ASSUME DripInv, NEW p \in Ports, Machine(p)
    PROVE  HeldInv'
<1> USE DEF DripInv, HeldInv, Receive, Opened
<1>1. CASE MachineStops(p)
  BY <1>1 DEF MachineStops
<1>2. CASE MachineResumes(p)
  BY <1>2 DEF MachineResumes
<1>3. CASE MachineReady(p)
  BY <1>3 DEF MachineReady
<1> QED
  BY <1>1, <1>2, <1>3 DEF Machine

\* The invariant behind the theorems below holds in every reachable state.
THEOREM DripInvariance == Spec => []DripInv
<1>1. Init => DripInv
  <2> SUFFICES ASSUME Init PROVE DripInv
    OBVIOUS
  <2> USE DripAssumption DEF Init, Sessions
  <2>1. TypeOK
    BY DEF TypeOK, States, PCs
  <2>2. \A s \in Sessions : SessionInv(s)
    BY DEF SessionInv
  <2>3. \A s \in Serial : PortInv(s)
    BY DEF PortInv, Listening
  <2>4. Cardinality(Running) <= Workers
    <3>1. Running = {}
      BY DEF Running
    <3> QED
      BY <3>1, FS_EmptySet
  <2>5. HeldInv
    BY DEF HeldInv
  <2> QED
    BY <2>1, <2>2, <2>3, <2>4, <2>5 DEF DripInv
<1>2. DripInv /\ [Next]_vars => DripInv'
  <2> SUFFICES ASSUME DripInv, [Next]_vars PROVE DripInv'
    OBVIOUS
  <2>1. ASSUME NEW s \in Sessions, Act(s) PROVE DripInv'
    <3>1. TypeOK /\ SessionInv(s) /\ (PortInv(s) \/ s \in Tcp)
      BY DEF DripInv, Sessions
    <3>2. TypeOK'
      BY <2>1, <3>1, ActType
    <3>3. \A t \in Sessions : SessionInv(t)'
      BY <2>1, <3>1, ActSession DEF DripInv
    <3>4. \A t \in Serial : PortInv(t)'
      BY <2>1, <3>1, ActPort DEF DripInv
    <3>5. HeldInv' /\ Cardinality(Running') <= Workers
      BY <2>1, ActHeld, WorkersStep
    <3> QED
      BY <3>2, <3>3, <3>4, <3>5 DEF DripInv
  <2>2. ASSUME NEW p \in Ports, Machine(p) PROVE DripInv'
    <3>1. TypeOK' /\ UNCHANGED <<pc, status, sent, cancel, late, open>>
      BY <2>2, MachineStep
    <3>2. HeldInv'
      BY <2>2, MachineHeld
    <3> QED
      BY <3>1, <3>2 DEF DripInv, SessionInv, PortInv, Running
  <2>3. CASE UNCHANGED vars
    BY <2>3 DEF vars, DripInv, TypeOK, SessionInv, PortInv, Running, HeldInv, Opened
  <2> QED
    BY <2>1, <2>2, <2>3, StepCases
<1> QED
  BY <1>1, <1>2, PTL DEF Spec

\* The variables keep their types, and no session sends more lines than its
\* program has.
THEOREM DripTypeCorrect == Spec => []TypeOK
<1>1. DripInv => TypeOK
  BY DEF DripInv
<1> QED
  BY <1>1, DripInvariance, PTL

\* At most one line leaves a session after its cancel flag was set.
THEOREM OneLateLine == Spec => []LateLines
<1>1. DripInv => LateLines
  BY DEF DripInv, SessionInv, LateLines
<1> QED
  BY <1>1, DripInvariance, PTL

\* Ports are held and given back in order, threads are not exceeded, and the
\* driver holds back only what the machine asked it to.
THEOREM PortsInOrderAlways == Spec => []PortsInOrder
<1>1. DripInv => PortsInOrder
  BY DEF DripInv, PortInv, HeldInv, PortsInOrder
<1> QED
  BY <1>1, DripInvariance, PTL

\* No line is sent while the status says PAUSED, unless the session was
\* cancelled.
THEOREM Silence == Spec => SilentWhilePaused
<1>1. DripInv /\ [Next]_vars =>
        [\A s \in Sessions :
            status[s] = "PAUSED" /\ sent'[s] # sent[s] => cancel[s]]_vars
  <2> SUFFICES ASSUME DripInv, [Next]_vars, NEW t \in Sessions,
                      status[t] = "PAUSED", sent'[t] # sent[t]
               PROVE  cancel[t]
    OBVIOUS
  <2>1. ASSUME NEW s \in Sessions, Act(s) PROVE cancel[t]
    <3>1. pc[t] # "paused"
      BY <2>1 DEF Act, CountLine, DripInv, TypeOK,
             Start, ResetFlag, OpenPort, WaitCancelled, WaitReads, WaitTimesOut,
             SeesCancel, BeginSending, NextLine, Complete, CheckEmpty, CheckReads,
             PausedReads, PausedSeesCancel, WriteLine, SerialFails, TcpBegin, TcpWrite,
             TcpConnected, TcpFails, TcpDrained, TcpClosed, Post, Cancel, ClosePort
    <3> QED
      BY <3>1 DEF DripInv, SessionInv
  <2>2. ASSUME NEW p \in Ports, Machine(p) PROVE cancel[t]
    BY <2>2, MachineStep
  <2>3. CASE UNCHANGED vars
    BY <2>3 DEF vars
  <2> QED
    BY <2>1, <2>2, <2>3, StepCases
<1> QED
  BY <1>1, DripInvariance, PTL DEF Spec, SilentWhilePaused

\* Every action of a session is a step of its job, or one that no poll of the
\* status sees.
LEMMA ActJob ==
    ASSUME DripInv, NEW s \in Sessions, Act(s)
    PROVE  Job!JobNext \/ UNCHANGED <<status, sent>>
<1> USE DEF Goto, Show
<1>0. /\ SessionInv(s)
      /\ status \in [Sessions -> States] /\ sent \in [Sessions -> Nat]
      /\ pc \in [Sessions -> PCs]
  BY DEF DripInv, TypeOK
<1>1. CASE Start(s)
  <2>1. Job!Begin(s)
    BY <1>0, <1>1 DEF Start, SessionInv, CountLine, Job!Begin, Job!Move
  <2> QED
    BY <2>1 DEF Job!JobNext
<1>2. CASE ResetFlag(s)
  BY <1>2 DEF ResetFlag
<1>3. CASE OpenPort(s)
  BY <1>3 DEF OpenPort
<1>4. CASE WaitCancelled(s)
  BY <1>4 DEF WaitCancelled
<1>5. CASE WaitReads(s)
  BY <1>5 DEF WaitReads
<1>6. CASE WaitTimesOut(s)
  BY <1>6 DEF WaitTimesOut
<1>7. CASE SeesCancel(s)
  <2>1. Job!Cancelled(s)
    BY <1>0, <1>7 DEF SeesCancel, SessionInv, CountLine, Job!Cancelled, Job!Move
  <2> QED
    BY <2>1 DEF Job!JobNext
<1>8. CASE BeginSending(s)
  <2>1. Job!Go(s)
    BY <1>0, <1>8 DEF BeginSending, SessionInv, CountLine, Job!Go, Job!Move
  <2> QED
    BY <2>1 DEF Job!JobNext
<1>9. CASE NextLine(s)
  BY <1>9 DEF NextLine
<1>10. CASE Complete(s)
  <2>1. Job!Completed(s)
    BY <1>0, <1>10 DEF Complete, SessionInv, CountLine, Job!Completed, Job!Move
  <2> QED
    BY <2>1 DEF Job!JobNext
<1>11. CASE CheckEmpty(s)
  BY <1>11 DEF CheckEmpty
<1>12. CASE CheckReads(s)
  <2>1. Job!Pause(s) \/ UNCHANGED <<status, sent>>
    BY <1>0, <1>12 DEF CheckReads, SessionInv, CountLine, Job!Pause, Job!Move
  <2> QED
    BY <2>1 DEF Job!JobNext
<1>13. CASE PausedReads(s)
  <2>1. Job!Resume(s) \/ UNCHANGED <<status, sent>>
    BY <1>0, <1>13 DEF PausedReads, SessionInv, CountLine, Job!Resume, Job!Move
  <2> QED
    BY <2>1 DEF Job!JobNext
<1>14. CASE PausedSeesCancel(s)
  BY <1>14 DEF PausedSeesCancel
<1>15. CASE WriteLine(s)
  <2>1. Job!SendLine(s)
    BY <1>0, <1>15 DEF WriteLine, SessionInv, CountLine, Job!SendLine, Job!Move
  <2> QED
    BY <2>1 DEF Job!JobNext
<1>16. CASE SerialFails(s)
  <2>1. Job!Failed(s)
    BY <1>0, <1>16 DEF SerialFails, SessionInv, CountLine, Job!Failed, Job!Move
  <2> QED
    BY <2>1 DEF Job!JobNext
<1>17. CASE ClosePort(s)
  BY <1>17 DEF ClosePort
<1>18. CASE TcpBegin(s)
  <2>1. Job!Begin(s)
    BY <1>0, <1>18 DEF TcpBegin, SessionInv, CountLine, Job!Begin, Job!Move
  <2> QED
    BY <2>1 DEF Job!JobNext
<1>19. CASE TcpWrite(s)
  BY <1>19 DEF TcpWrite
<1>20. CASE TcpConnected(s)
  <2>1. Job!Go(s)
    BY <1>0, <1>20 DEF TcpConnected, SessionInv, CountLine, Job!Go, Job!Move
  <2> QED
    BY <2>1 DEF Job!JobNext
<1>21. CASE TcpFails(s)
  <2>1. Job!Failed(s)
    BY <1>0, <1>21 DEF TcpFails, SessionInv, CountLine, Job!Failed, Job!Move
  <2> QED
    BY <2>1 DEF Job!JobNext
<1>22. CASE TcpDrained(s)
  <2>1. Job!SendLine(s)
    BY <1>0, <1>22 DEF TcpDrained, SessionInv, CountLine, Job!SendLine, Job!Move
  <2> QED
    BY <2>1 DEF Job!JobNext
<1>23. CASE TcpClosed(s)
  BY <1>23 DEF TcpClosed
<1>24. CASE Post(s)
  BY <1>24 DEF Post
<1>25. CASE Cancel(s)
  BY <1>25 DEF Cancel
<1> QED
  BY <1>1, <1>2, <1>3, <1>4, <1>5, <1>6, <1>7, <1>8, <1>9, <1>10,
     <1>11, <1>12, <1>13, <1>14, <1>15, <1>16, <1>17, <1>18, <1>19, <1>20,
     <1>21, <1>22, <1>23, <1>24, <1>25 DEF Act

\* The feeders implement the drip feed job: what a poll of the status can see
\* is the life of a job, for every interleaving with cancels and machines.
THEOREM JobRefinement == Spec => ImplementsDripJob
<1>1. Init => Job!JobInit
  BY DEF Init, Job!JobInit
<1>2. DripInv /\ [Next]_vars => [Job!JobNext]_<<status, sent>>
  <2> SUFFICES ASSUME DripInv, [Next]_vars
               PROVE  Job!JobNext \/ UNCHANGED <<status, sent>>
    OBVIOUS
  <2>1. ASSUME NEW s \in Sessions, Act(s)
        PROVE  Job!JobNext \/ UNCHANGED <<status, sent>>
    BY <2>1, ActJob
  <2>2. ASSUME NEW p \in Ports, Machine(p) PROVE UNCHANGED <<status, sent>>
    BY <2>2, MachineStep
  <2>3. CASE UNCHANGED vars
    BY <2>3 DEF vars
  <2> QED
    BY <2>1, <2>2, <2>3, StepCases
<1> QED
  BY <1>1, <1>2, DripInvariance, PTL DEF Spec, ImplementsDripJob, Job!JobSpec, Job!jobVars
=============================================================================
