-------------------------- MODULE PCU20ServerProofs --------------------------
(***************************************************************************)
(* Proofs about PCU20Server for any number of connections, machines and    *)
(* ports: type correctness, the inductive invariant behind the session     *)
(* table, the machine table, the events and the thread jobs, the totals a  *)
(* machine accumulates, and the refinement of FileService.                 *)
(***************************************************************************)
EXTENDS PCU20Server, FiniteSetTheorems, TLAPS

-----------------------------------------------------------------------------
(* The machine table                                                       *)

IsTable(t) == DOMAIN t \subseteq Ips /\ t \in [DOMAIN t -> Machine(Ips, Conns)]

\* Recording a connection keeps the table a table (on_connect).
LEMMA OnConnectTable ==
    ASSUME NEW t, IsTable(t), NEW i \in Ips, NEW s \in Conns
    PROVE  IsTable(OnConnect(t, i, i, s))
<1> DEFINE m == IF i \in DOMAIN t THEN t[i] ELSE NewMachine(i)
           r == [ip |-> m.ip, connected |-> TRUE, session |-> s,
                 connections |-> m.connections + 1, files |-> m.files]
<1>1. m \in Machine(Ips, Conns)
  BY DEF IsTable, Machine, NewMachine
<1>2. r \in Machine(Ips, Conns)
  BY <1>1 DEF Machine
<1>3. OnConnect(t, i, i, s) = [j \in DOMAIN t \cup {i} |-> IF j = i THEN r ELSE t[j]]
  BY DEF OnConnect, Store
<1> HIDE DEF r
<1> QED
  BY <1>2, <1>3 DEF IsTable

\* Recording a disconnection keeps the table a table (on_disconnect).
LEMMA OnDisconnectTable ==
    ASSUME NEW t, IsTable(t), NEW i \in Ips, NEW n \in Nat
    PROVE  IsTable(OnDisconnect(t, i, n))
<1>1. CASE i \notin DOMAIN t
  BY <1>1 DEF OnDisconnect
<1>2. CASE i \in DOMAIN t
  <2> DEFINE m == t[i]
             r == [ip |-> m.ip, connected |-> FALSE, session |-> NoSession,
                   connections |-> m.connections, files |-> m.files + n]
  <2>1. r \in Machine(Ips, Conns)
    BY <1>2 DEF IsTable, Machine
  <2>2. OnDisconnect(t, i, n) = [j \in DOMAIN t |-> IF j = i THEN r ELSE t[j]]
    BY <1>2 DEF OnDisconnect, Store
  <2> HIDE DEF r
  <2> QED
    BY <1>2, <2>1, <2>2 DEF IsTable
<1> QED
  BY <1>1, <1>2

\* It touches at most one entry, which no longer names a session.
LEMMA OnDisconnectEntries ==
    ASSUME NEW t, NEW i, NEW n
    PROVE  LET u == OnDisconnect(t, i, n)
           IN  /\ DOMAIN u = DOMAIN t
               /\ \A j \in DOMAIN t : j # i => u[j] = t[j]
               /\ i \in DOMAIN t => /\ ~u[i].connected
                                    /\ u[i].session = NoSession
                                    /\ u[i].ip = t[i].ip
BY DEF OnDisconnect, Store

-----------------------------------------------------------------------------
(* Type correctness                                                        *)

\* What the finally block does keeps the types.
LEMMA LeaveType ==
    ASSUME TypeOK, NEW c \in Conns, Leave(c)
    PROVE  /\ pc' \in [Conns -> PCs]
           /\ state' \in [Conns -> States]
           /\ pending' \in [Conns -> Nat]
           /\ job' \in [Conns -> FileCommands \cup {NoJob}]
           /\ sessions' \subseteq Conns
           /\ IsTable(machines')
<1>1. IsTable(machines) /\ PeerOf[c] \in Ips /\ files[c] \in Nat
  BY ServerAssumption DEF TypeOK, IsTable
<1>2. IsTable(machines')
  BY <1>1, OnDisconnectTable DEF Leave
<1> QED
  BY <1>2 DEF TypeOK, Leave, Goto, PCs, States

\* Every step keeps the types.
LEMMA TypeStep == TypeOK /\ [Next]_vars => TypeOK'
<1> SUFFICES ASSUME TypeOK, [Next]_vars PROVE TypeOK'
  OBVIOUS
<1>T. TypeOK' <=> /\ pc' \in [Conns -> PCs]
                  /\ state' \in [Conns -> States]
                  /\ pending' \in [Conns -> Nat]
                  /\ budget' \in Nat
                  /\ files' \in [Conns -> Nat]
                  /\ job' \in [Conns -> FileCommands \cup {NoJob}]
                  /\ reset' \subseteq Conns
                  /\ cancelled' \subseteq Conns
                  /\ sessions' \subseteq Conns
                  /\ IsTable(machines')
                  /\ announced' \subseteq Conns
                  /\ retracted' \subseteq Conns
                  /\ app' \in {"running", "stopping", "stopped", "teardown"}
                  /\ closed' \in 0..NumPorts
  BY DEF TypeOK, IsTable
<1>0. IsTable(machines)
  BY DEF TypeOK, IsTable
<1>1. ASSUME NEW c \in Conns, Begin(c) PROVE TypeOK'
  <2>1. PeerOf[c] \in Ips
    BY ServerAssumption
  <2>2. IsTable(machines')
    BY <1>0, <1>1, <2>1, OnConnectTable DEF Begin
  <2> QED
    BY <1>1, <1>T, <2>2 DEF TypeOK, Begin, At, Goto, PCs
<1>2. ASSUME NEW c \in Conns,
             \/ ReadEof(c) \/ IdleTimeout(c) \/ ReadReset(c)
             \/ LoopError(c) \/ DrainReset(c)
      PROVE  TypeOK'
  BY <1>2, <1>T, LeaveType
     DEF TypeOK, ReadEof, IdleTimeout, ReadReset, LoopError, DrainReset
<1>3. ASSUME NEW c \in Conns, EndBatch(c) PROVE TypeOK'
  <2>1. CASE Leave(c)
    BY <1>3, <2>1, <1>T, LeaveType DEF TypeOK, EndBatch
  <2>2. CASE ~Leave(c)
    BY <1>3, <2>2, <1>0, <1>T DEF TypeOK, EndBatch, Goto, PCs
  <2> QED
    BY <2>1, <2>2
<1>4. ASSUME NEW c \in Conns, Cancelled(c) PROVE TypeOK'
  <2>1. CASE Leave(c)
    BY <1>4, <2>1, <1>T, LeaveType DEF TypeOK, Cancelled
  <2>2. CASE ~Leave(c)
    BY <1>4, <2>2, <1>0, <1>T DEF TypeOK, Cancelled, Goto, PCs
  <2> QED
    BY <2>1, <2>2
<1>5. ASSUME NEW c \in Conns, NEW n \in 0..MaxFrames, ReadData(c, n)
      PROVE  TypeOK'
  <2>1. budget' \in Nat /\ n \in Nat
    BY <1>5, ServerAssumption DEF TypeOK, ReadData
  <2> QED
    BY <1>5, <2>1, <1>0, <1>T DEF TypeOK, ReadData, Goto, PCs
<1>6. ASSUME NEW c \in Conns,
             \/ HandleLogin(c) \/ HandleTerminate(c) \/ HandleVersion(c)
             \/ NoAnswer(c) \/ RequireAuth(c) \/ AnswerAtOnce(c)
      PROVE  TypeOK'
  <2>1. pending' \in [Conns -> Nat]
    BY <1>6 DEF TypeOK, HandleLogin, HandleTerminate, HandleVersion, NoAnswer,
                RequireAuth, AnswerAtOnce, TakeFrame
  <2>2. HandleLogin(c) \/ HandleTerminate(c) => TypeOK'
    BY <2>1, <1>0, <1>T DEF TypeOK, HandleLogin, HandleTerminate, Goto, PCs, States
  <2>3. HandleVersion(c) \/ NoAnswer(c) \/ RequireAuth(c) \/ AnswerAtOnce(c)
           => TypeOK'
    BY <2>1, <1>0, <1>T
       DEF TypeOK, HandleVersion, NoAnswer, RequireAuth, AnswerAtOnce, Goto, PCs
  <2> QED
    BY <1>6, <2>2, <2>3
<1>7. ASSUME NEW c \in Conns, NEW cmd \in FileCommands, SubmitJob(c, cmd)
      PROVE  TypeOK'
  BY <1>7, <1>0, <1>T DEF TypeOK, SubmitJob, TakeFrame, Goto, PCs
<1>8. ASSUME NEW c \in Conns,
             ThreadReturns(c) \/ VersionDone(c)
      PROVE  TypeOK'
  <2>1. files' \in [Conns -> Nat]
    BY <1>8 DEF TypeOK, ThreadReturns, JobDone, JobFails, JobRaises, VersionDone
  <2> QED
    BY <1>8, <2>1, <1>0, <1>T
       DEF TypeOK, ThreadReturns, JobDone, JobFails, JobRaises, VersionDone,
           Goto, PCs, FileCommands
<1>9. ASSUME NEW c \in Conns, Accept(c) \/ ClientReset(c) \/ Flushed(c)
      PROVE  TypeOK'
  BY <1>9, <1>0, <1>T
     DEF TypeOK, Accept, ClientReset, Flushed, Drain, Finish, Goto, PCs
<1>10. CASE Shutdown
  BY <1>10, <1>0, <1>T DEF TypeOK, Shutdown, connVars
<1>11. CASE ClosePort
  BY <1>11, <1>0, <1>T, ServerAssumption DEF TypeOK, ClosePort, connVars
<1>12. CASE StopSessions \/ Teardown
  BY <1>12, <1>0, <1>T DEF TypeOK, StopSessions, Teardown, States
<1>13. CASE UNCHANGED vars
  BY <1>13, <1>0, <1>T DEF TypeOK, vars
<1> QED
  BY <1>1, <1>2, <1>3, <1>4, <1>5, <1>6, <1>7, <1>8, <1>9, <1>10, <1>11,
     <1>12, <1>13
     DEF Next, Task, Client, Flushed, Stopping, Terminated

\* Every variable keeps to its type, whatever connections, machines, ports
\* and number of frames there are.
THEOREM TypeCorrect == Spec => []TypeOK
<1>1. Init => TypeOK
  BY ServerAssumption DEF Init, TypeOK, PCs, States, EmptyTable
<1> QED
  BY <1>1, TypeStep, PTL DEF Spec

-----------------------------------------------------------------------------
(* The inductive invariant                                                 *)

\* The steps a task takes inside the try block without leaving it.
Inner(c) ==
    \/ \E n \in 0..MaxFrames : ReadData(c, n)
    \/ HandleLogin(c) \/ HandleTerminate(c) \/ HandleVersion(c)
    \/ NoAnswer(c) \/ RequireAuth(c) \/ AnswerAtOnce(c)
    \/ \E cmd \in FileCommands : SubmitJob(c, cmd)
    \/ ThreadReturns(c) \/ VersionDone(c) \/ Drain(c)
    \/ EndBatch(c) /\ ~Leave(c)

\* The steps that run the finally block of a task.
Exit(c) ==
    /\ pc[c] \in Serving
    /\ Leave(c)
    /\ UNCHANGED <<files, announced, retracted, app>>
    /\ cancelled' \subseteq cancelled

\* Every step is one of these.
LEMMA StepCases ==
    ASSUME [Next]_vars
    PROVE  \/ \E c \in Conns :
                 \/ Inner(c) \/ Exit(c) \/ Accept(c) \/ ClientReset(c)
                 \/ Begin(c) \/ Finish(c)
                 \/ Cancelled(c) /\ pc[c] \notin Serving
           \/ Shutdown \/ Stopping \/ UNCHANGED vars
<1>1. ASSUME NEW c \in Conns,
             \/ ReadEof(c) \/ IdleTimeout(c) \/ ReadReset(c) \/ LoopError(c)
             \/ DrainReset(c) \/ (EndBatch(c) /\ Leave(c))
      PROVE  Exit(c)
  BY <1>1 DEF ReadEof, IdleTimeout, ReadReset, LoopError, DrainReset, EndBatch,
              Exit, At, Serving
<1>2. ASSUME NEW c \in Conns, Cancelled(c), pc[c] \in Serving
      PROVE  Exit(c)
  BY <1>2 DEF Cancelled, Exit, Serving
<1> DEFINE Case(c) == \/ Inner(c) \/ Exit(c) \/ Accept(c) \/ ClientReset(c)
                      \/ Begin(c) \/ Finish(c)
                      \/ Cancelled(c) /\ pc[c] \notin Serving
<1>3. ASSUME NEW c \in Conns, Task(c) PROVE Case(c)
  BY <1>1, <1>2, <1>3 DEF Task, Inner
<1>4. ASSUME NEW c \in Conns,
             ThreadReturns(c) \/ IdleTimeout(c) \/ LoopError(c) \/ Flushed(c)
      PROVE  Case(c)
  BY <1>1, <1>4 DEF Flushed, Inner
<1>5. ASSUME NEW c \in Conns, Client(c) PROVE Case(c)
  BY <1>1, <1>5 DEF Client, Inner
<1> HIDE DEF Case
<1>6. (\E c \in Conns : Case(c)) \/ Shutdown \/ Stopping \/ UNCHANGED vars
  BY <1>3, <1>4, <1>5 DEF Next, Terminated
<1> QED
  BY <1>6 DEF Case

\* An inner step stays inside the try block and leaves the shared tables
\* alone; it takes a job only for a session that is logged in, and does not
\* touch the login of a session that has one.
LEMMA InnerEffect ==
    ASSUME TypeOK, JobsOwned, NEW c \in Conns, Inner(c)
    PROVE  /\ pc[c] \in Serving
           /\ \E l \in Serving : Goto(c, l)
           /\ UNCHANGED <<sessions, machines, announced, retracted, app, cancelled>>
           /\ job'[c] # NoJob <=> pc'[c] \in {"thread", "version"}
           /\ job'[c] # NoJob =>
                 /\ state'[c] = state[c]
                 /\ job[c] # NoJob \/ state[c] = "AUTHENTICATED"
           /\ \A d \in Conns \ {c} : job'[d] = job[d] /\ state'[d] = state[d]
<1>1. ASSUME \/ \E n \in 0..MaxFrames : ReadData(c, n)
             \/ Drain(c)
      PROVE  /\ pc[c] \in {"reading", "drain"}
             /\ Goto(c, "frames")
             /\ UNCHANGED <<state, job, sessions, machines, announced, retracted,
                            app, cancelled>>
  BY <1>1 DEF ReadData, Drain, At
<1>2. ASSUME \/ HandleLogin(c) \/ HandleTerminate(c) \/ HandleVersion(c)
             \/ RequireAuth(c) \/ AnswerAtOnce(c)
      PROVE  /\ pc[c] = "frames"
             /\ Goto(c, "drain")
             /\ UNCHANGED <<job, sessions, machines, announced, retracted,
                            app, cancelled>>
             /\ \A d \in Conns \ {c} : state'[d] = state[d]
  BY <1>2 DEF HandleLogin, HandleTerminate, HandleVersion, RequireAuth,
              AnswerAtOnce, TakeFrame, At, TypeOK
<1>3. ASSUME NoAnswer(c)
      PROVE  /\ pc[c] = "frames"
             /\ Goto(c, "frames")
             /\ UNCHANGED <<state, job, sessions, machines, announced, retracted,
                            app, cancelled>>
  BY <1>3 DEF NoAnswer, TakeFrame, At, Goto, TypeOK
<1>4. ASSUME NEW cmd \in FileCommands, SubmitJob(c, cmd)
      PROVE  /\ pc[c] = "frames" /\ state[c] = "AUTHENTICATED"
             /\ Goto(c, "thread")
             /\ job' = [job EXCEPT ![c] = cmd] /\ cmd # NoJob
             /\ UNCHANGED <<state, sessions, machines, announced, retracted,
                            app, cancelled>>
  BY <1>4 DEF SubmitJob, TakeFrame, At, FileCommands, NoJob
<1>5. ASSUME ThreadReturns(c) \/ VersionDone(c)
      PROVE  /\ pc[c] \in {"thread", "version"}
             /\ \/ Goto(c, "version") /\ UNCHANGED job /\ job[c] # NoJob
                \/ \E l \in {"drain", "frames"} :
                      Goto(c, l) /\ job' = [job EXCEPT ![c] = NoJob]
             /\ UNCHANGED <<state, sessions, machines, announced, retracted,
                            app, cancelled>>
  BY <1>5 DEF ThreadReturns, JobDone, JobFails, JobRaises, VersionDone, At, NoJob
<1>6. ASSUME EndBatch(c), ~Leave(c)
      PROVE  /\ pc[c] = "frames"
             /\ Goto(c, "reading")
             /\ UNCHANGED <<state, job, sessions, machines, announced, retracted,
                            app, cancelled>>
  BY <1>6 DEF EndBatch, At
<1> QED
  BY <1>1, <1>2, <1>3, <1>4, <1>5, <1>6
     DEF Inner, TypeOK, JobsOwned, Goto, Serving, PCs

\* Inner steps keep the invariant: no table changes, and the set of served
\* connections does not either.
LEMMA InnerKeepsInv ==
    ASSUME ServerInv, NEW c \in Conns, Inner(c), TypeOK'
    PROVE  ServerInv'
<1>1. /\ pc[c] \in Serving
      /\ \E l \in Serving : Goto(c, l)
      /\ UNCHANGED <<sessions, machines, announced, retracted, app, cancelled>>
  BY InnerEffect DEF ServerInv
<1>2. /\ pc'[c] \in Serving
      /\ \A d \in Conns \ {c} : pc'[d] = pc[d]
  BY <1>1 DEF ServerInv, TypeOK, Goto
<1>3. Live' = Live
  BY <1>1, <1>2 DEF Live
<1>4. Ended' = Ended
  BY <1>1, <1>2 DEF Ended, Serving, ServerInv, TypeOK
<1>5. TableTracksConnections'
  BY <1>1, <1>3 DEF ServerInv, TableTracksConnections
<1>6. PresenceSound'
  BY <1>1, <1>3 DEF ServerInv, PresenceSound
<1>7. EventsPaired'
  BY <1>1, <1>2, <1>4 DEF ServerInv, EventsPaired, Ended, TypeOK, Serving
<1>8. JobsOwned'
  <2> SUFFICES ASSUME NEW d \in Conns
               PROVE  /\ job'[d] # NoJob <=> pc'[d] \in {"thread", "version"}
                      /\ job'[d] # NoJob /\ state'[d] # "AUTHENTICATED" =>
                            /\ app' \in {"stopped", "teardown"}
                            /\ d \notin sessions'
    BY DEF JobsOwned
  <2>1. CASE d = c
    BY <1>1, <2>1, InnerEffect DEF ServerInv, JobsOwned
  <2>2. CASE d # c
    BY <1>1, <1>2, <2>2, InnerEffect DEF ServerInv, JobsOwned
  <2> QED
    BY <2>1, <2>2
<1>9. History'
  BY <1>1, <1>2, InnerEffect DEF ServerInv, History, Serving
<1> QED
  BY <1>5, <1>6, <1>7, <1>8, <1>9 DEF ServerInv

\* The finally block keeps the invariant: its machine's entry is cleared, and
\* the entries of other machines name sessions that are still served.
LEMMA ExitKeepsInv ==
    ASSUME ServerInv, NEW c \in Conns, Exit(c), TypeOK'
    PROVE  ServerInv'
<1>1. /\ pc[c] \in Serving /\ pc' = [pc EXCEPT ![c] = "closing"]
      /\ UNCHANGED <<files, announced, retracted, app>>
      /\ cancelled' \subseteq cancelled
      /\ sessions' = sessions \ {c}
      /\ state' = [state EXCEPT ![c] = "DISCONNECTED"]
      /\ job' = [job EXCEPT ![c] = NoJob]
      /\ machines' = OnDisconnect(machines, PeerOf[c], files[c])
  BY DEF Exit, Leave, Goto
<1>2. TypeOK
  BY DEF ServerInv
<1>3. Live' = Live \ {c}
  BY <1>1, <1>2 DEF Live, Serving, TypeOK
<1>4. TableTracksConnections'
  BY <1>1, <1>3 DEF ServerInv, TableTracksConnections
<1>5. PresenceSound'
  <2>1. /\ DOMAIN machines' = DOMAIN machines
        /\ \A j \in DOMAIN machines : j # PeerOf[c] => machines'[j] = machines[j]
        /\ PeerOf[c] \in DOMAIN machines =>
              /\ ~machines'[PeerOf[c]].connected
              /\ machines'[PeerOf[c]].session = NoSession
              /\ machines'[PeerOf[c]].ip = machines[PeerOf[c]].ip
    BY <1>1, OnDisconnectEntries
  <2>2. SUFFICES ASSUME NEW i \in DOMAIN machines
                 PROVE  /\ machines'[i].ip = i
                        /\ machines'[i].connected <=> machines'[i].session # NoSession
                        /\ machines'[i].connected =>
                              /\ machines'[i].session \in Live'
                              /\ PeerOf[machines'[i].session] = i
    BY <2>1 DEF PresenceSound
  <2>3. CASE i = PeerOf[c]
    BY <2>1, <2>3 DEF ServerInv, PresenceSound
  <2>4. CASE i # PeerOf[c]
    BY <1>3, <2>1, <2>4 DEF ServerInv, PresenceSound
  <2> QED
    BY <2>3, <2>4
<1>6. EventsPaired'
  BY <1>1, <1>2 DEF ServerInv, EventsPaired, Ended, TypeOK, Serving
<1>7. JobsOwned'
  BY <1>1, <1>2 DEF ServerInv, JobsOwned, TypeOK
<1>8. History'
  BY <1>1, <1>2 DEF ServerInv, History, Serving, TypeOK
<1> QED
  BY <1>4, <1>5, <1>6, <1>7, <1>8 DEF ServerInv

\* The first step of a task keeps the invariant: the machine it came from now
\* names it, whatever session was named before.
LEMMA BeginKeepsInv ==
    ASSUME ServerInv, NEW c \in Conns, Begin(c), TypeOK'
    PROVE  ServerInv'
<1>1. /\ pc[c] = "accepted" /\ pc' = [pc EXCEPT ![c] = "reading"]
      /\ UNCHANGED <<state, job, retracted, app, cancelled>>
      /\ sessions' = sessions \cup {c}
      /\ announced' = announced \cup {c}
      /\ machines' = OnConnect(machines, PeerOf[c], PeerOf[c], c)
  BY DEF Begin, At, Goto
<1>2. TypeOK
  BY DEF ServerInv
<1>3. Live' = Live \cup {c}
  BY <1>1, <1>2 DEF Live, Serving, TypeOK
<1>4. TableTracksConnections'
  BY <1>1, <1>3 DEF ServerInv, TableTracksConnections
<1>5. PresenceSound'
  <2>1. /\ DOMAIN machines' = DOMAIN machines \cup {PeerOf[c]}
        /\ \A j \in DOMAIN machines : j # PeerOf[c] => machines'[j] = machines[j]
        /\ machines'[PeerOf[c]].connected
        /\ machines'[PeerOf[c]].session = c
        /\ machines'[PeerOf[c]].ip = PeerOf[c]
    <3>1. PeerOf[c] \in DOMAIN machines => machines[PeerOf[c]].ip = PeerOf[c]
      BY DEF ServerInv, PresenceSound
    <3> QED
      BY <1>1, <3>1 DEF OnConnect, Store, NewMachine
  <2>2. SUFFICES ASSUME NEW i \in DOMAIN machines \cup {PeerOf[c]}
                 PROVE  /\ machines'[i].ip = i
                        /\ machines'[i].connected <=> machines'[i].session # NoSession
                        /\ machines'[i].connected =>
                              /\ machines'[i].session \in Live'
                              /\ PeerOf[machines'[i].session] = i
    BY <2>1 DEF PresenceSound
  <2>3. CASE i = PeerOf[c]
    BY <1>3, <2>1, <2>3, ServerAssumption
  <2>4. CASE i # PeerOf[c]
    BY <1>3, <2>1, <2>4 DEF ServerInv, PresenceSound
  <2> QED
    BY <2>3, <2>4
<1>6. EventsPaired'
  BY <1>1, <1>2 DEF ServerInv, EventsPaired, Ended, TypeOK
<1>7. JobsOwned'
  BY <1>1, <1>2 DEF ServerInv, JobsOwned, TypeOK
<1>8. History'
  BY <1>1, <1>2 DEF ServerInv, History, Serving, TypeOK
<1> QED
  BY <1>4, <1>5, <1>6, <1>7, <1>8 DEF ServerInv

\* The steps outside the try block and those of stop() keep the invariant.
LEMMA OtherStepsKeepInv ==
    ASSUME ServerInv, TypeOK',
           \/ \E c \in Conns : \/ Accept(c) \/ ClientReset(c) \/ Finish(c)
                               \/ Cancelled(c) /\ pc[c] \notin Serving
           \/ Shutdown \/ Stopping \/ UNCHANGED vars
    PROVE  ServerInv'
<1>1. TypeOK
  BY DEF ServerInv
<1>2. ASSUME NEW c \in Conns,
             \/ Accept(c)
             \/ Finish(c)
             \/ Cancelled(c) /\ pc[c] \notin Serving
      PROVE  ServerInv'
  <2>1. /\ \/ pc[c] = "idle" /\ pc' = [pc EXCEPT ![c] = "accepted"]
           \/ pc[c] \in {"accepted", "closing"} /\ pc' = [pc EXCEPT ![c] = "done"]
        /\ UNCHANGED <<state, job, sessions, machines, announced, app>>
        /\ cancelled' \subseteq cancelled
    BY <1>2 DEF Accept, Finish, Cancelled, At, Goto
  <2>2. Live' = Live
    BY <2>1, <1>1 DEF Live, Serving, TypeOK
  <2>3. TableTracksConnections' /\ PresenceSound'
    BY <2>1, <2>2 DEF ServerInv, TableTracksConnections, PresenceSound
  <2>4. EventsPaired'
    <3>1. CASE Accept(c)
      BY <3>1, <1>1 DEF Accept, At, Goto, ServerInv, EventsPaired, Ended, TypeOK
    <3>2. CASE Finish(c)
      BY <3>2, <1>1 DEF Finish, At, Goto, ServerInv, EventsPaired, Ended, TypeOK,
                        History, Serving
    <3>3. CASE Cancelled(c) /\ pc[c] \notin Serving
      BY <3>3, <1>1 DEF Cancelled, Goto, ServerInv, EventsPaired, Ended, TypeOK,
                        History
    <3> QED
      BY <1>2, <3>1, <3>2, <3>3
  <2>5. JobsOwned'
    BY <2>1, <1>1 DEF ServerInv, JobsOwned, TypeOK
  <2>6. History'
    BY <2>1, <1>1 DEF ServerInv, History, Serving, TypeOK
  <2> QED
    BY <2>3, <2>4, <2>5, <2>6 DEF ServerInv
<1>3. ASSUME \/ \E c \in Conns : ClientReset(c)
             \/ Shutdown \/ ClosePort
             \/ UNCHANGED vars
      PROVE  ServerInv'
  <2>1. /\ UNCHANGED <<pc, state, job, sessions, machines, announced, retracted,
                       cancelled>>
        /\ app' = app \/ (app = "running" /\ app' = "stopping")
    BY <1>3 DEF ClientReset, Shutdown, ClosePort, vars, connVars
  <2>2. TableTracksConnections' /\ PresenceSound'
    BY <2>1 DEF ServerInv, TableTracksConnections, PresenceSound, Live
  <2>3. EventsPaired' /\ JobsOwned' /\ History'
    BY <2>1 DEF ServerInv, EventsPaired, Ended, JobsOwned, History
  <2> QED
    BY <2>2, <2>3 DEF ServerInv
<1>4. CASE StopSessions
  <2>1. /\ UNCHANGED <<pc, job, machines, announced, retracted, cancelled>>
        /\ app = "stopping" /\ app' = "stopped" /\ sessions' = {}
    BY <1>4 DEF StopSessions
  <2>2. TableTracksConnections' /\ PresenceSound'
    BY <2>1 DEF ServerInv, TableTracksConnections, PresenceSound, Live
  <2>3. EventsPaired' /\ JobsOwned'
    BY <2>1 DEF ServerInv, EventsPaired, Ended, JobsOwned
  <2>4. History'
    BY <1>4, <2>1, <1>1
       DEF StopSessions, ServerInv, History, TableTracksConnections, Live, Serving
  <2> QED
    BY <2>2, <2>3, <2>4 DEF ServerInv
<1>5. CASE Teardown
  <2>1. /\ UNCHANGED <<pc, state, job, sessions, machines, announced, retracted>>
        /\ app = "stopped" /\ app' = "teardown"
    BY <1>5 DEF Teardown
  <2>2. TableTracksConnections' /\ PresenceSound'
    BY <2>1 DEF ServerInv, TableTracksConnections, PresenceSound, Live
  <2>3. EventsPaired' /\ JobsOwned' /\ History'
    BY <2>1 DEF ServerInv, EventsPaired, Ended, JobsOwned, History
  <2> QED
    BY <2>2, <2>3 DEF ServerInv
<1> QED
  BY <1>2, <1>3, <1>4, <1>5 DEF Stopping

\* The strengthened invariant holds in every reachable state.
THEOREM Invariance == Spec => []ServerInv
<1>1. Init => ServerInv
  <2> SUFFICES ASSUME Init PROVE ServerInv
    OBVIOUS
  <2>1. TypeOK
    BY ServerAssumption DEF Init, TypeOK, PCs, States, EmptyTable
  <2>2. TableTracksConnections /\ PresenceSound
    BY DEF Init, TableTracksConnections, PresenceSound, Live, Serving, EmptyTable
  <2>3. EventsPaired /\ JobsOwned /\ History
    BY DEF Init, EventsPaired, Ended, JobsOwned, History, Serving
  <2> QED
    BY <2>1, <2>2, <2>3 DEF ServerInv
<1>2. ServerInv /\ [Next]_vars => ServerInv'
  <2> SUFFICES ASSUME ServerInv, [Next]_vars PROVE ServerInv'
    OBVIOUS
  <2>1. TypeOK'
    BY TypeStep DEF ServerInv
  <2> QED
    BY <2>1, StepCases, InnerKeepsInv, ExitKeepsInv, BeginKeepsInv,
       OtherStepsKeepInv
<1> QED
  BY <1>1, <1>2, PTL DEF Spec

\* The session table lists exactly the connections being served.
THEOREM SessionTable == Spec => []TableTracksConnections
<1>1. ServerInv => TableTracksConnections
  BY DEF ServerInv
<1> QED
  BY <1>1, Invariance, PTL

\* A machine shown connected names a session being served for it.
THEOREM Presence == Spec => []PresenceSound
<1>1. ServerInv => PresenceSound
  BY DEF ServerInv
<1> QED
  BY <1>1, Invariance, PTL

\* Listeners see every session that connected disconnect, until the teardown.
THEOREM Events == Spec => []EventsPaired
<1>1. ServerInv => EventsPaired
  BY DEF ServerInv
<1> QED
  BY <1>1, Invariance, PTL

\* A file operation belongs to a session that is logged in, or that stop()
\* has marked disconnected while the operation ran.
THEOREM Jobs == Spec => []JobsOwned
<1>1. ServerInv => JobsOwned
  BY DEF ServerInv
<1> QED
  BY <1>1, Invariance, PTL

-----------------------------------------------------------------------------
(* The totals of a machine                                                 *)

\* The files of each of a finite set of sessions are finitely many together.
LEMMA FilesFinite ==
    ASSUME NEW S, IsFiniteSet(S), NEW f, \A c \in S : f[c] \in Nat
    PROVE  IsFiniteSet(UNION {{c} \X (1..f[c]) : c \in S})
<1> DEFINE Parts == {{c} \X (1..f[c]) : c \in S}
           part == [c \in S |-> {c} \X (1..f[c])]
<1>1. part \in Surjection(S, Parts)
  BY DEF Surjection
<1>2. IsFiniteSet(Parts)
  BY <1>1, FS_Surjection
<1>3. ASSUME NEW c \in S PROVE IsFiniteSet({c} \X (1..f[c]))
  <2>1. IsFiniteSet({c})
    BY FS_Singleton
  <2>2. IsFiniteSet(1..f[c])
    <3>1. f[c] \in Nat
      BY <1>3
    <3> QED
      BY <3>1, FS_Interval
  <2> QED
    BY <2>1, <2>2, FS_Product
<1>4. \A P \in Parts : IsFiniteSet(P)
  BY <1>3
<1> QED
  BY <1>2, <1>4, FS_UNION

\* One more session adds as many files as it transferred.
LEMMA FilesAdded ==
    ASSUME NEW A, IsFiniteSet(A), NEW c, NEW n \in Nat,
           A \cap ({c} \X (1..n)) = {}
    PROVE  Cardinality(A \cup ({c} \X (1..n))) = Cardinality(A) + n
<1> DEFINE new == {c} \X (1..n)
<1>1. IsFiniteSet(1..n) /\ Cardinality(1..n) = n
  BY FS_Interval
<1>2. IsFiniteSet({c}) /\ Cardinality({c}) = 1
  BY FS_Singleton
<1>3. IsFiniteSet(new) /\ Cardinality(new) = n
  <2>1. /\ IsFiniteSet(new)
        /\ Cardinality(new) = Cardinality({c}) * Cardinality(1..n)
    BY <1>1, <1>2, FS_Product
  <2> QED
    BY <1>1, <1>2, <2>1
<1>4. Cardinality(A) \in Nat /\ Cardinality(A \cap new) = 0
  BY FS_CardinalityType, FS_EmptySet
<1>5. Cardinality(A \cup new) = Cardinality(A) + Cardinality(new)
                                - Cardinality(A \cap new)
  BY <1>3, FS_Union
<1> HIDE DEF new
<1>6. Cardinality(A \cup new) = Cardinality(A) + n
  BY <1>3, <1>4, <1>5
<1> QED
  BY <1>6 DEF new

\* The sessions of machine i whose connection was announced.
Announced(i) == {c \in announced : PeerOf[c] = i}

\* A machine in the table has the totals of its sessions; one that is not has
\* had none, so that its entry starts from zero.
TotalsInv ==
    /\ TotalsExact
    /\ \A c \in announced : PeerOf[c] \in DOMAIN machines

\* A step that neither announces nor ends a session, and that counts no file
\* of one that has ended, changes no total.
LEMMA TotalsUnmoved ==
    ASSUME TotalsInv, UNCHANGED <<machines, announced>>, Ended' = Ended,
           \A d \in Ended : files'[d] = files[d]
    PROVE  TotalsInv'
<1>1. \A i : FilesOf(i)' = FilesOf(i)
  BY DEF FilesOf
<1> QED
  BY <1>1 DEF TotalsInv, TotalsExact

\* Only a session that is being served counts files.
LEMMA InnerFiles ==
    ASSUME TypeOK, NEW c \in Conns, Inner(c)
    PROVE  \A d \in Conns \ {c} : files'[d] = files[d]
BY DEF Inner, TypeOK, ReadData, HandleLogin, HandleTerminate, HandleVersion,
       NoAnswer, RequireAuth, AnswerAtOnce, SubmitJob, ThreadReturns, JobDone,
       JobFails, JobRaises, VersionDone, Drain, EndBatch

\* A new connection adds one to its machine's connections, whether the entry
\* is there or is created.
LEMMA BeginKeepsTotals ==
    ASSUME ServerInv, TotalsInv, NEW c \in Conns, Begin(c)
    PROVE  TotalsInv'
<1> DEFINE m == PeerOf[c]
<1>1. /\ TypeOK /\ pc[c] = "accepted" /\ pc' = [pc EXCEPT ![c] = "reading"]
      /\ machines' = OnConnect(machines, m, m, c)
      /\ announced' = announced \cup {c}
      /\ files' = files /\ c \notin announced /\ announced \subseteq Conns
  BY DEF Begin, At, Goto, ServerInv, History, TypeOK
<1>2. Ended' = Ended
  BY <1>1 DEF Ended, TypeOK
<1>3. \A i : FilesOf(i)' = FilesOf(i)
  BY <1>1, <1>2 DEF FilesOf
<1>4. /\ DOMAIN machines' = DOMAIN machines \cup {m}
      /\ \A i \in DOMAIN machines : i # m => machines'[i] = machines[i]
      /\ m \in DOMAIN machines =>
            /\ machines'[m].connections = machines[m].connections + 1
            /\ machines'[m].files = machines[m].files
      /\ m \notin DOMAIN machines =>
            machines'[m].connections = 1 /\ machines'[m].files = 0
  <2>1. CASE m \in DOMAIN machines
    BY <1>1, <2>1 DEF OnConnect, Store
  <2>2. CASE m \notin DOMAIN machines
    <3>1. machines' = Store(machines, m,
             [ip |-> m, connected |-> TRUE, session |-> c,
              connections |-> 0 + 1, files |-> 0])
      BY <1>1, <2>2 DEF OnConnect, NewMachine
    <3> QED
      BY <2>2, <3>1 DEF Store
  <2> QED
    BY <2>1, <2>2
<1>5. /\ \A i : i # m => Announced(i)' = Announced(i)
      /\ Announced(m)' = Announced(m) \cup {c}
  BY <1>1 DEF Announced
<1>6. Cardinality(Announced(m)') = Cardinality(Announced(m)) + 1
  <2>1. IsFiniteSet(Announced(m)) /\ c \notin Announced(m)
    BY <1>1, ServerAssumption, FS_Subset DEF Announced
  <2> QED
    BY <1>5, <2>1, FS_AddElement
<1>7. m \notin DOMAIN machines => /\ Cardinality(Announced(m)) = 0
                                  /\ Cardinality(FilesOf(m)) = 0
  <2> SUFFICES ASSUME m \notin DOMAIN machines
               PROVE  Announced(m) = {} /\ FilesOf(m) = {}
    BY FS_EmptySet
  <2>1. Announced(m) = {}
    BY DEF TotalsInv, Announced
  <2> QED
    BY <2>1 DEF Announced, FilesOf, Ended
<1>8. ASSUME NEW i \in DOMAIN machines'
      PROVE  /\ machines'[i].connections = Cardinality(Announced(i)')
             /\ machines'[i].files = Cardinality(FilesOf(i)')
  <2>1. i \in DOMAIN machines =>
           /\ machines[i].connections = Cardinality(Announced(i))
           /\ machines[i].files = Cardinality(FilesOf(i))
    BY DEF TotalsInv, TotalsExact, Announced
  <2>2. CASE i = m
    BY <1>3, <1>4, <1>6, <1>7, <2>1, <2>2
  <2>3. CASE i # m
    BY <1>3, <1>4, <1>5, <1>8, <2>1, <2>3
  <2> QED
    BY <2>2, <2>3
<1>9. TotalsExact'
  BY <1>8 DEF TotalsExact, Announced
<1>10. \A d \in announced' : PeerOf[d] \in DOMAIN machines'
  BY <1>1, <1>4 DEF TotalsInv
<1> QED
  BY <1>9, <1>10 DEF TotalsInv

\* The finally block adds the session's files to its machine, and the session
\* has ended: both sides of the total grow by the same number.
LEMMA ExitKeepsTotals ==
    ASSUME ServerInv, TotalsInv, NEW c \in Conns, Exit(c)
    PROVE  TotalsInv'
<1> DEFINE m == PeerOf[c]
<1>1. /\ TypeOK /\ pc[c] \in Serving /\ pc' = [pc EXCEPT ![c] = "closing"]
      /\ UNCHANGED <<files, announced>>
      /\ machines' = OnDisconnect(machines, m, files[c])
      /\ c \in announced /\ announced \subseteq Conns
  BY DEF Exit, Leave, Goto, ServerInv, History, TypeOK
<1>2. c \notin Ended /\ Ended' = Ended \cup {c}
  BY <1>1 DEF Ended, Serving, TypeOK
<1>3. m \in DOMAIN machines /\ files[c] \in Nat
  BY <1>1 DEF TotalsInv, TypeOK
<1>4. /\ DOMAIN machines' = DOMAIN machines
      /\ \A i \in DOMAIN machines : i # m => machines'[i] = machines[i]
      /\ machines'[m].connections = machines[m].connections
      /\ machines'[m].files = machines[m].files + files[c]
  BY <1>1, <1>3 DEF OnDisconnect, Store
<1>5. \A i : i # m => FilesOf(i)' = FilesOf(i)
  BY <1>1, <1>2 DEF FilesOf
<1>6. FilesOf(m)' = FilesOf(m) \cup ({c} \X (1..files[c]))
  <2>1. {d \in Ended' : PeerOf[d] = m} = {d \in Ended : PeerOf[d] = m} \cup {c}
    BY <1>2
  <2> QED
    BY <1>1, <2>1 DEF FilesOf
<1>7. Cardinality(FilesOf(m)') = Cardinality(FilesOf(m)) + files[c]
  <2>1. FilesOf(m) \cap ({c} \X (1..files[c])) = {}
    BY <1>2 DEF FilesOf
  <2>2. IsFiniteSet(FilesOf(m))
    <3> DEFINE S == {d \in Ended : PeerOf[d] = m}
    <3>1. IsFiniteSet(S) /\ \A d \in S : files[d] \in Nat
      BY <1>1, ServerAssumption, FS_Subset DEF Ended, TypeOK
    <3> HIDE DEF S
    <3>2. IsFiniteSet(UNION {{d} \X (1..files[d]) : d \in S})
      BY <3>1, FilesFinite
    <3> QED
      BY <3>2 DEF FilesOf, S
  <2>3. Cardinality(FilesOf(m) \cup ({c} \X (1..files[c])))
           = Cardinality(FilesOf(m)) + files[c]
    BY <1>3, <2>1, <2>2, FilesAdded
  <2> QED
    BY <1>6, <2>3
<1>8. ASSUME NEW i \in DOMAIN machines
      PROVE  /\ machines'[i].connections = Cardinality(Announced(i))
             /\ machines'[i].files = Cardinality(FilesOf(i)')
  <2>1. /\ machines[i].connections = Cardinality(Announced(i))
        /\ machines[i].files = Cardinality(FilesOf(i))
    BY DEF TotalsInv, TotalsExact, Announced
  <2> QED
    BY <1>4, <1>5, <1>7, <2>1
<1>9. TotalsExact'
  BY <1>1, <1>4, <1>8 DEF TotalsExact, Announced
<1>10. \A d \in announced' : PeerOf[d] \in DOMAIN machines'
  BY <1>1, <1>4 DEF TotalsInv
<1> QED
  BY <1>9, <1>10 DEF TotalsInv

\* Every step keeps the totals exact.
LEMMA TotalsStep ==
    ASSUME ServerInv, TotalsInv, [Next]_vars
    PROVE  TotalsInv'
<1>1. TypeOK
  BY DEF ServerInv
<1>2. ASSUME NEW c \in Conns, Inner(c) PROVE TotalsInv'
  <2>1. /\ pc[c] \in Serving /\ UNCHANGED <<machines, announced>>
        /\ pc'[c] \in Serving /\ \A d \in Conns \ {c} : pc'[d] = pc[d]
    BY <1>1, <1>2, InnerEffect DEF ServerInv, Goto, TypeOK
  <2>2. c \notin Ended /\ Ended' = Ended /\ Ended \subseteq Conns
    BY <1>1, <2>1 DEF Ended, Serving, TypeOK
  <2>3. \A d \in Ended : files'[d] = files[d]
    BY <1>1, <1>2, <2>2, InnerFiles
  <2> QED
    BY <2>1, <2>2, <2>3, TotalsUnmoved
<1>3. ASSUME NEW c \in Conns,
             \/ Accept(c) \/ ClientReset(c) \/ Finish(c)
             \/ Cancelled(c) /\ pc[c] \notin Serving
      PROVE  TotalsInv'
  <2>1. UNCHANGED <<files, machines, announced>>
    BY <1>3 DEF Accept, ClientReset, Finish, Cancelled
  <2>2. Ended' = Ended
    BY <1>1, <1>3
       DEF Accept, ClientReset, Finish, Cancelled, At, Goto, Ended, ServerInv,
           History, TypeOK
  <2> QED
    BY <2>1, <2>2, TotalsUnmoved
<1>4. CASE Shutdown \/ Stopping \/ UNCHANGED vars
  <2>1. UNCHANGED <<pc, files, machines, announced>>
    BY <1>4 DEF Shutdown, Stopping, ClosePort, StopSessions, Teardown, vars,
                connVars
  <2> QED
    BY <2>1, TotalsUnmoved DEF Ended
<1> QED
  BY <1>2, <1>3, <1>4, StepCases, BeginKeepsTotals, ExitKeepsTotals

\* A machine's totals are exactly the connections it opened and the files of
\* its sessions that ended, whatever happened to each of them.
THEOREM Totals == Spec => []TotalsExact
<1>1. Init => TotalsInv
  BY DEF Init, TotalsInv, TotalsExact, EmptyTable
<1>2. ServerInv /\ TotalsInv /\ [Next]_vars => TotalsInv'
  BY TotalsStep
<1>3. TotalsInv => TotalsExact
  BY DEF TotalsInv
<1> QED
  BY <1>1, <1>2, <1>3, Invariance, PTL DEF Spec

-----------------------------------------------------------------------------
(* The server implements FileService                                       *)

\* The phase of one client.
PhaseOf(c) ==
    IF pc[c] \in {"idle", "accepted"} THEN "absent"
    ELSE IF pc[c] \in {"closing", "done"} THEN "gone"
    ELSE IF state[c] = "AUTHENTICATED" THEN "authed" ELSE "open"

\* A step that changes at most one client's phase to p is a Become of it.
LEMMA PhaseStep ==
    ASSUME NEW c \in Conns, NEW p, PhaseOf(c)' = p,
           \A d \in Conns \ {c} : PhaseOf(d)' = PhaseOf(d)
    PROVE  Phase' = [Phase EXCEPT ![c] = p]
BY DEF Phase, PhaseOf

\* Only c's task moves: nobody else's phase or job changes.
LEMMA Frame ==
    ASSUME NEW c \in Conns, pc \in [Conns -> PCs], state \in [Conns -> States],
           NEW l, Goto(c, l),
           \A d \in Conns \ {c} : state'[d] = state[d]
    PROVE  /\ \A d \in Conns \ {c} : PhaseOf(d)' = PhaseOf(d)
           /\ pc'[c] = l
           /\ Busy' = IF l = "thread" THEN Busy \cup {c} ELSE Busy \ {c}
BY DEF Goto, PhaseOf, Busy

\* Every inner step is a login, a logout, the start or the end of an
\* operation, or invisible to the client.
LEMMA InnerRefines ==
    ASSUME ServerInv, NEW c \in Conns, Inner(c)
    PROVE  [Service!FSNext]_(Service!fsVars)
<1>1. TypeOK /\ JobsOwned
  BY DEF ServerInv
<1>2. Phase[c] = PhaseOf(c) /\ (c \in Busy <=> pc[c] = "thread")
  BY DEF Phase, PhaseOf, Busy
<1>3. PICK l \in Serving : Goto(c, l)
  BY <1>1, InnerEffect
<1>4. \A d \in Conns \ {c} : state'[d] = state[d]
  BY <1>1, InnerEffect
<1>5. /\ \A d \in Conns \ {c} : PhaseOf(d)' = PhaseOf(d)
      /\ pc'[c] = l
      /\ Busy' = IF l = "thread" THEN Busy \cup {c} ELSE Busy \ {c}
  BY <1>1, <1>3, <1>4, Frame DEF TypeOK
<1>6. PhaseOf(c) = IF state[c] = "AUTHENTICATED" THEN "authed" ELSE "open"
  BY <1>1, InnerEffect DEF PhaseOf, Serving
<1>7. PhaseOf(c)' = IF state'[c] = "AUTHENTICATED" THEN "authed" ELSE "open"
  BY <1>5 DEF PhaseOf, Serving
<1>8. state'[c] = state[c] => Phase' = Phase
  BY <1>5, <1>6, <1>7 DEF Phase, PhaseOf
<1>9. Phase' = [Phase EXCEPT ![c] = PhaseOf(c)']
  BY <1>5, PhaseStep
<1>10. CASE \/ \E n \in 0..MaxFrames : ReadData(c, n)
            \/ Drain(c) \/ VersionDone(c) \/ HandleVersion(c) \/ NoAnswer(c)
            \/ RequireAuth(c) \/ AnswerAtOnce(c) \/ (EndBatch(c) /\ ~Leave(c))
  <2>1. pc[c] # "thread" /\ l # "thread" /\ UNCHANGED <<state, files>>
    BY <1>1, <1>5, <1>10
       DEF ReadData, Drain, VersionDone, HandleVersion, NoAnswer, RequireAuth,
           AnswerAtOnce, EndBatch, TakeFrame, At, Goto, TypeOK
  <2>2. Busy' = Busy
    BY <1>2, <1>5, <2>1
  <2> QED
    BY <1>8, <2>1, <2>2 DEF Service!fsVars
<1>11. CASE HandleLogin(c) \/ HandleTerminate(c)
  <2>1. pc[c] = "frames" /\ l = "drain" /\ UNCHANGED files
    BY <1>1, <1>5, <1>11
       DEF HandleLogin, HandleTerminate, TakeFrame, At, Goto, TypeOK
  <2>2. Busy' = Busy /\ c \notin Busy
    BY <1>2, <1>5, <2>1
  <2>3. CASE PhaseOf(c)' = PhaseOf(c)
    <3>1. Phase' = Phase
      BY <1>5, <2>3 DEF Phase, PhaseOf
    <3> QED
      BY <2>1, <2>2, <3>1 DEF Service!fsVars
  <2>4. CASE PhaseOf(c) = "open" /\ PhaseOf(c)' = "authed"
    <3>1. Service!Login(c)
      BY <1>2, <1>9, <2>1, <2>2, <2>4 DEF Service!Login, Service!Become
    <3> QED
      BY <3>1 DEF Service!FSNext
  <2>5. CASE PhaseOf(c) = "authed" /\ PhaseOf(c)' = "open"
    <3>1. Service!Logout(c)
      BY <1>2, <1>9, <2>1, <2>2, <2>5 DEF Service!Logout, Service!Become
    <3> QED
      BY <3>1 DEF Service!FSNext
  <2> QED
    BY <1>6, <1>7, <2>3, <2>4, <2>5
<1>12. CASE \E cmd \in FileCommands : SubmitJob(c, cmd)
  <2>1. /\ pc[c] = "frames" /\ l = "thread" /\ UNCHANGED <<state, files>>
        /\ state[c] = "AUTHENTICATED"
    BY <1>1, <1>5, <1>12 DEF SubmitJob, TakeFrame, At, Goto, TypeOK
  <2>2. Service!StartWork(c)
    BY <1>2, <1>5, <1>6, <1>8, <2>1 DEF Service!StartWork
  <2> QED
    BY <2>2 DEF Service!FSNext
<1>13. CASE ThreadReturns(c)
  <2>1. pc[c] = "thread" /\ l # "thread" /\ UNCHANGED state
    BY <1>1, <1>5, <1>13
       DEF ThreadReturns, JobDone, JobFails, JobRaises, At, Goto, TypeOK
  <2>2. \E n \in 0..1 : files' = [files EXCEPT ![c] = @ + n]
    <3>1. \/ files' = [files EXCEPT ![c] = @ + 0]
          \/ files' = [files EXCEPT ![c] = @ + 1]
      BY <1>1, <1>13 DEF ThreadReturns, JobDone, JobFails, JobRaises, TypeOK
    <3> QED
      BY <3>1
  <2>3. \E n \in 0..1 : Service!EndWork(c, n)
    BY <1>2, <1>5, <1>8, <2>1, <2>2 DEF Service!EndWork
  <2> QED
    BY <2>3 DEF Service!FSNext
<1> QED
  BY <1>10, <1>11, <1>12, <1>13 DEF Inner

\* Whatever the step, a task that ends its service departs.
LEMMA DepartRefines ==
    ASSUME ServerInv, NEW c \in Conns, PhaseOf(c) # "gone",
           NEW l \in {"closing", "done"}, Goto(c, l),
           \A d \in Conns \ {c} : state'[d] = state[d],
           UNCHANGED files
    PROVE  Service!Depart(c)
<1>1. /\ \A d \in Conns \ {c} : PhaseOf(d)' = PhaseOf(d)
      /\ pc'[c] = l
      /\ Busy' = Busy \ {c}
  BY Frame DEF ServerInv, TypeOK
<1>2. PhaseOf(c)' = "gone"
  BY <1>1 DEF PhaseOf
<1>3. Phase' = [Phase EXCEPT ![c] = "gone"]
  BY <1>1, <1>2, PhaseStep
<1> QED
  BY <1>1, <1>3 DEF Service!Depart, Service!Become, Phase, PhaseOf

\* Every other step of a task or of its client.
LEMMA TaskRefines ==
    ASSUME ServerInv, NEW c \in Conns,
           \/ Exit(c) \/ Accept(c) \/ ClientReset(c) \/ Begin(c) \/ Finish(c)
           \/ Cancelled(c) /\ pc[c] \notin Serving
    PROVE  [Service!FSNext]_(Service!fsVars)
<1>1. TypeOK
  BY DEF ServerInv
<1>2. CASE Exit(c)
  <2>1. /\ pc[c] \in Serving /\ Goto(c, "closing")
        /\ \A d \in Conns \ {c} : state'[d] = state[d]
    BY <1>1, <1>2 DEF Exit, Leave, TypeOK
  <2>2. UNCHANGED files
    BY <1>2 DEF Exit
  <2>3. Service!Depart(c)
    BY <2>1, <2>2, DepartRefines DEF PhaseOf, Serving
  <2> QED
    BY <2>3 DEF Service!FSNext
<1>3. CASE Accept(c)
  BY <1>1, <1>3 DEF Accept, At, Goto, TypeOK, Phase, Busy, Service!fsVars
<1>4. CASE ClientReset(c)
  BY <1>4 DEF ClientReset, Phase, Busy, Service!fsVars
<1>5. CASE Begin(c)
  <2>1. pc[c] = "accepted" /\ Goto(c, "reading") /\ UNCHANGED <<state, files>>
    BY <1>5 DEF Begin, At
  <2>2. /\ \A d \in Conns \ {c} : PhaseOf(d)' = PhaseOf(d)
        /\ pc'[c] = "reading"
        /\ Busy' = Busy \ {c}
    BY <1>1, <2>1, Frame DEF TypeOK
  <2>3. state[c] = "CONNECTED"
    BY <2>1 DEF ServerInv, History
  <2>4. PhaseOf(c) = "absent" /\ PhaseOf(c)' = "open" /\ c \notin Busy
    BY <2>1, <2>2, <2>3 DEF PhaseOf, Busy
  <2>5. Phase' = [Phase EXCEPT ![c] = "open"] /\ Phase[c] = "absent"
    BY <2>2, <2>4, PhaseStep DEF Phase, PhaseOf
  <2>6. Service!Open(c)
    BY <2>1, <2>2, <2>4, <2>5 DEF Service!Open, Service!Become
  <2> QED
    BY <2>6 DEF Service!FSNext
<1>6. CASE Finish(c) \/ (Cancelled(c) /\ pc[c] = "closing")
  BY <1>1, <1>6
     DEF Finish, Cancelled, Serving, At, Goto, TypeOK, Phase, Busy, Service!fsVars
<1>7. CASE Cancelled(c) /\ pc[c] = "accepted"
  <2>1. Goto(c, "done") /\ UNCHANGED <<state, files>>
    BY <1>7 DEF Cancelled, Serving
  <2>2. Service!Depart(c)
    BY <1>7, <2>1, DepartRefines DEF PhaseOf
  <2> QED
    BY <2>2 DEF Service!FSNext
<1> QED
  BY <1>2, <1>3, <1>4, <1>5, <1>6, <1>7 DEF Cancelled

\* stop() withdraws every login at once; its other steps are invisible.
LEMMA StopRefines ==
    ASSUME ServerInv, Shutdown \/ Stopping \/ UNCHANGED vars
    PROVE  [Service!FSNext]_(Service!fsVars)
<1>1. CASE Shutdown \/ ClosePort \/ Teardown \/ UNCHANGED vars
  <2>1. UNCHANGED <<pc, state, files>>
    BY <1>1 DEF Shutdown, ClosePort, Teardown, vars, connVars
  <2> QED
    BY <2>1 DEF Phase, Busy, Service!fsVars
<1>2. CASE StopSessions
  <2>1. /\ UNCHANGED <<pc, files>>
        /\ state' = [c \in Conns |->
                        IF c \in sessions THEN "DISCONNECTED" ELSE state[c]]
    BY <1>2 DEF StopSessions
  <2>2. sessions = Live
    BY <1>2 DEF StopSessions, ServerInv, TableTracksConnections
  <2>3. Phase' = [c \in Conns |->
                     IF Phase[c] = "authed" THEN "open" ELSE Phase[c]]
    BY <2>1, <2>2 DEF Phase, Live, Serving, ServerInv, TypeOK, PCs
  <2>4. Busy' = Busy
    BY <2>1 DEF Busy
  <2>5. CASE \E c \in Conns : Phase[c] = "authed"
    BY <2>1, <2>3, <2>4, <2>5 DEF Service!FSNext, Service!LogoutAll
  <2>6. CASE ~ \E c \in Conns : Phase[c] = "authed"
    <3>1. Phase' = Phase
      BY <2>3, <2>6 DEF Phase
    <3> QED
      BY <2>1, <2>4, <3>1 DEF Service!fsVars
  <2> QED
    BY <2>5, <2>6
<1> QED
  BY <1>1, <1>2 DEF Stopping

\* The server implements the file service, for any number of connections.
THEOREM Refinement == Spec => ImplementsFileService
<1>1. Init => Service!FSInit
  BY DEF Init, Service!FSInit, Phase, Busy
<1>2. ServerInv /\ [Next]_vars => [Service!FSNext]_(Service!fsVars)
  BY StepCases, InnerRefines, TaskRefines, StopRefines
<1> QED
  BY <1>1, <1>2, Invariance, PTL
     DEF Spec, ImplementsFileService, Service!FSSpec

=============================================================================
