------------------------------- MODULE DripJob -------------------------------
(***************************************************************************)
(* What a drip feed shows to whoever polls its status, without threads,    *)
(* serial ports, sockets or control characters: a job waits for the        *)
(* machine, sends its lines one by one, may be paused, and ends once, in   *)
(* one of three ways.                                                      *)
(***************************************************************************)
EXTENDS Naturals

CONSTANTS
    Jobs,
    Total   \* lines of each job

VARIABLES
    phase,  \* what each job shows
    count   \* lines it has sent

jobVars == <<phase, count>>

Final == {"COMPLETED", "CANCELLED", "ERROR"}

Move(j, from, to) ==
    /\ phase[j] \in from
    /\ phase' = [phase EXCEPT ![j] = to]
    /\ UNCHANGED count

JobInit ==
    /\ phase = [j \in Jobs |-> "IDLE"]
    /\ count = [j \in Jobs |-> 0]

Begin(j) == Move(j, {"IDLE"}, "WAITING")
Go(j) == Move(j, {"WAITING"}, "SENDING")
Pause(j) == Move(j, {"SENDING"}, "PAUSED")
Resume(j) == Move(j, {"PAUSED"}, "SENDING")
Cancelled(j) == Move(j, {"WAITING", "SENDING", "PAUSED"}, "CANCELLED")
Failed(j) == Move(j, {"WAITING", "SENDING", "PAUSED"}, "ERROR")

\* A job is complete when its last line is out, and not before.
Completed(j) ==
    /\ count[j] = Total[j]
    /\ Move(j, {"SENDING", "PAUSED"}, "COMPLETED")

\* Lines go out one at a time; a paused job that is cancelled may let out the
\* line it was about to send.
SendLine(j) ==
    /\ phase[j] \in {"SENDING", "PAUSED"}
    /\ count[j] < Total[j]
    /\ count' = [count EXCEPT ![j] = @ + 1]
    /\ UNCHANGED phase

JobNext ==
    \E j \in Jobs :
        \/ Begin(j) \/ Go(j) \/ Pause(j) \/ Resume(j)
        \/ SendLine(j)
        \/ Completed(j) \/ Cancelled(j) \/ Failed(j)

JobSpec == JobInit /\ [][JobNext]_jobVars
=============================================================================
