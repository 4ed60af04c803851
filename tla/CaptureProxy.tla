----------------------------- MODULE CaptureProxy -----------------------------
(* tools/capture_proxy.py: the relay between a controller ("C") and the      *)
(* original server ("S") that records what it forwards. Bytes are counted,   *)
(* not looked at; the server answers each byte of a request with one byte.   *)
(* Between two awaits a coroutine runs alone, so reading, recording and      *)
(* writing one piece of data is one step, which only a kill can cut.         *)
EXTENDS Integers, Sequences, FiniteSets

CONSTANTS
    Conns,      \* the controllers' connections
    Flaky,      \* the connections that may be reset, or stop being read
    MaxBytes,   \* bound: bytes either end sends, per connection
    MaxId       \* the largest session id a record has room for (u16)

ASSUME CaptureAssumption ==
    Flaky \subseteq Conns /\ MaxBytes \in [Conns -> Nat] /\ MaxId \in Nat

Ends == {"C", "S"}
Other(e) == IF e = "C" THEN "S" ELSE "C"

VARIABLES
    proxy,      \* "serving", "stopped" (capture file closed) or "killed"
    counter,    \* session_counter
    id,         \* the id of each accepted connection
    conn,       \* "none", "connecting", "open" (gather runs) or "ended"
    task,       \* per end e, forward(e -> Other(e)): "read", "drain" or "done"
    sent,       \* bytes end e has sent
    taken,      \* of these, how many forward has read and recorded
    got,        \* of these, how many were handed to the other end's transport
    finished,   \* ends that send no more (EOF after what they sent)
    gone,       \* ends whose connection was reset
    stalled,    \* ends that read no more
    shut,       \* ends whose transport the proxy has closed
    file        \* the capture file: records, possibly torn ones among them

peers == <<sent, finished, gone, stalled>>
vars == <<proxy, counter, id, conn, task, taken, got, shut, file, peers>>

Record(i, e, n) == [session |-> i, direction |-> e, length |-> n]

\* The beginning of a record, which holds no whole piece of data.
Torn == Record(0, "C", 0)

Init ==
    /\ proxy = "serving" /\ counter = 0 /\ file = <<>>
    /\ id = [c \in Conns |-> 0]
    /\ conn = [c \in Conns |-> "none"]
    /\ task = [c \in Conns |-> [e \in Ends |-> "read"]]
    /\ sent = [c \in Conns |-> [e \in Ends |-> 0]]
    /\ taken = sent /\ got = sent
    /\ finished = [c \in Conns |-> {}] /\ gone = finished /\ shut = finished
    /\ stalled = finished

-------------------------------------------------------------------------------
(* The two ends (external) *)

\* The controller speaks, the server answers what has reached it.
Send(c, e) ==
    /\ proxy = "serving" /\ e \notin finished[c] \union gone[c]
    /\ conn[c] = "open" \/ (conn[c] = "connecting" /\ e = "C")
    /\ sent[c][e] < (IF e = "C" THEN MaxBytes[c] ELSE got[c]["C"])
    /\ sent' = [sent EXCEPT ![c][e] = @ + 1]
    /\ UNCHANGED <<proxy, counter, id, conn, task, taken, got, shut, file>>
    /\ UNCHANGED <<finished, gone, stalled>>

Finish(c, e) ==
    /\ proxy # "killed" /\ conn[c] = "open" /\ e \notin finished[c] \union gone[c]
    /\ finished' = [finished EXCEPT ![c] = @ \union {e}]
    /\ UNCHANGED <<proxy, counter, id, conn, task, taken, got, shut, file>>
    /\ UNCHANGED <<sent, gone, stalled>>

Reset(c, e) ==
    /\ proxy # "killed" /\ c \in Flaky /\ conn[c] = "open"
    /\ e \notin gone[c] \union shut[c]
    /\ gone' = [gone EXCEPT ![c] = @ \union {e}]
    /\ finished' = [finished EXCEPT ![c] = @ \ {e}]
    /\ UNCHANGED <<proxy, counter, id, conn, task, taken, got, shut, file>>
    /\ UNCHANGED <<sent, stalled>>

\* The end reads no more: what is written to it fills the buffers before it.
Stall(c, e) ==
    /\ proxy # "killed" /\ c \in Flaky /\ conn[c] = "open" /\ e \notin stalled[c]
    /\ stalled' = [stalled EXCEPT ![c] = @ \union {e}]
    /\ UNCHANGED <<proxy, counter, id, conn, task, taken, got, shut, file>>
    /\ UNCHANGED <<sent, finished, gone>>

-------------------------------------------------------------------------------
(* handle_connection *)

Accept(c) ==
    /\ proxy = "serving" /\ conn[c] = "none"
    /\ conn' = [conn EXCEPT ![c] = "connecting"]
    /\ id' = [id EXCEPT ![c] = counter]
    /\ counter' = counter + 1
    /\ UNCHANGED <<proxy, task, taken, got, shut, file, peers>>

\* open_connection raises OSError: the controller is closed, the id is used up.
TargetRefuses(c) ==
    /\ proxy = "serving" /\ conn[c] = "connecting"
    /\ conn' = [conn EXCEPT ![c] = "ended"]
    /\ shut' = [shut EXCEPT ![c] = {"C"}]
    /\ UNCHANGED <<proxy, counter, id, task, taken, got, file, peers>>

TargetAccepts(c) ==
    /\ proxy = "serving" /\ conn[c] = "connecting"
    /\ conn' = [conn EXCEPT ![c] = "open"]
    /\ UNCHANGED <<proxy, counter, id, task, taken, got, shut, file, peers>>

At(c, e, where) == proxy # "killed" /\ conn[c] = "open" /\ task[c][e] = where

Reached(c, e) == Other(e) \notin gone[c] \union shut[c]

\* Mutant: the records of the two directions are kept apart in the file.
ForwardGrouped(c, e) ==
    /\ At(c, e, "read") /\ e \notin gone[c]
    /\ proxy = "serving" /\ id[c] <= MaxId
    /\ \E n \in 1..(sent[c][e] - taken[c][e]) :
         LET all == Append(file, Record(id[c], e, n))
             Dir(d) == SelectSeq(all, LAMBDA r : r.direction = d)
         IN  /\ file' = Dir("S") \o Dir("C")
             /\ taken' = [taken EXCEPT ![c][e] = @ + n]
             /\ got' = [got EXCEPT ![c][e] = @ + IF Reached(c, e) THEN n ELSE 0]
    /\ task' = [task EXCEPT ![c][e] = "drain"]
    /\ UNCHANGED <<proxy, counter, id, conn, shut, peers>>

\* One turn of forward's loop up to drain: what read returned is recorded,
\* flushed, and then written, which a closed or lost transport ignores.
Forward(c, e) ==
    /\ At(c, e, "read") /\ e \notin gone[c]
    /\ proxy = "serving" /\ id[c] <= MaxId
    /\ \E n \in 1..(sent[c][e] - taken[c][e]) :
         /\ file' = Append(file, Record(id[c], e, n))
         /\ taken' = [taken EXCEPT ![c][e] = @ + n]
         /\ got' = [got EXCEPT ![c][e] = @ + IF Reached(c, e) THEN n ELSE 0]
    /\ task' = [task EXCEPT ![c][e] = "drain"]
    /\ UNCHANGED <<proxy, counter, id, conn, shut, peers>>

\* drain returns, at once unless the transport's buffer is above its limit.
Drained(c, e) ==
    /\ At(c, e, "drain") /\ Other(e) \notin gone[c]
    /\ task' = [task EXCEPT ![c][e] = "read"]
    /\ UNCHANGED <<proxy, counter, id, conn, taken, got, shut, file, peers>>

\* Mutant: a direction ends without closing the writer it wrote to.
DirectionEndsOpen(c, e) ==
    /\ task' = [task EXCEPT ![c][e] = "done"]
    /\ UNCHANGED <<proxy, counter, id, conn, taken, got, shut, file, peers>>

\* forward's finally: the end it wrote to is closed, in both directions.
DirectionEnds(c, e) ==
    /\ task' = [task EXCEPT ![c][e] = "done"]
    /\ shut' = [shut EXCEPT ![c] = @ \union {Other(e)}]
    /\ UNCHANGED <<proxy, counter, id, conn, taken, got, file, peers>>

\* read returns b"": the end sent all it had, or the proxy has closed it (what
\* had arrived before may still be read by Forward, or is lost).
ReadEof(c, e) ==
    /\ At(c, e, "read")
    /\ (e \in finished[c] /\ sent[c][e] = taken[c][e]) \/ e \in shut[c]
    /\ DirectionEnds(c, e)

\* ConnectionResetError or BrokenPipeError out of read or drain.
ForwardBreaks(c, e) ==
    /\ \/ At(c, e, "read") /\ e \in gone[c]
       \/ At(c, e, "drain") /\ ~Reached(c, e)
    /\ DirectionEnds(c, e)

\* Mutant: what cannot be recorded is forwarded all the same.
RecordFailsForwards(c, e) ==
    /\ At(c, e, "read") /\ e \notin gone[c] /\ taken[c][e] < sent[c][e]
    /\ proxy = "stopped" \/ id[c] > MaxId
    /\ taken' = [taken EXCEPT ![c][e] = @ + 1]
    /\ got' = [got EXCEPT ![c][e] = @ + IF Reached(c, e) THEN 1 ELSE 0]
    /\ UNCHANGED <<proxy, counter, id, conn, task, shut, file, peers>>

\* write_capture_record raises (no room for the id, or the file is closed):
\* nothing is forwarded, gather raises and handle_connection closes both ends.
RecordFails(c, e) ==
    /\ At(c, e, "read") /\ e \notin gone[c] /\ taken[c][e] < sent[c][e]
    /\ proxy = "stopped" \/ id[c] > MaxId
    /\ task' = [task EXCEPT ![c][e] = "done"]
    /\ shut' = [shut EXCEPT ![c] = Ends]
    /\ UNCHANGED <<proxy, counter, id, conn, taken, got, file, peers>>

\* OSError out of write or flush, the disk being full: the file has the record,
\* a part of it or nothing (what stays in the writer's buffer counts as in the
\* file if a later flush writes it). Nothing is forwarded; the proxy serves on.
RecordBreaks(c, e) ==
    /\ At(c, e, "read") /\ e \notin gone[c]
    /\ proxy = "serving" /\ id[c] <= MaxId
    /\ \E n \in 1..(sent[c][e] - taken[c][e]) :
         \/ /\ file' = Append(file, Record(id[c], e, n))
            /\ taken' = [taken EXCEPT ![c][e] = @ + n]
         \/ file' \in {file, Append(file, Torn)} /\ UNCHANGED taken
    /\ task' = [task EXCEPT ![c][e] = "done"]
    /\ shut' = [shut EXCEPT ![c] = Ends]
    /\ UNCHANGED <<proxy, counter, id, conn, got, peers>>

SessionCloses(c) ==
    /\ proxy # "killed" /\ conn[c] = "open" /\ \A e \in Ends : task[c][e] = "done"
    /\ conn' = [conn EXCEPT ![c] = "ended"]
    /\ shut' = [shut EXCEPT ![c] = Ends]
    /\ UNCHANGED <<proxy, counter, id, task, taken, got, file, peers>>

-------------------------------------------------------------------------------
(* Control-C, the cancellation that follows it, and a kill *)

Interrupt ==
    /\ proxy = "serving" /\ proxy' = "stopped"
    /\ UNCHANGED <<counter, id, conn, task, taken, got, shut, file, peers>>

\* asyncio.run cancels what is left, at whichever await it is.
Cancelled(c) ==
    /\ proxy = "stopped" /\ conn[c] \in {"connecting", "open"}
    /\ conn' = [conn EXCEPT ![c] = "ended"]
    /\ task' = [task EXCEPT ![c] = [e \in Ends |-> "done"]]
    /\ shut' = [shut EXCEPT ![c] = Ends]
    /\ UNCHANGED <<proxy, counter, id, taken, got, file, peers>>

\* The process dies between two steps, or inside Forward while the record is
\* being written: the file ends with a torn record, and nothing was forwarded.
Kill ==
    /\ proxy # "killed" /\ proxy' = "killed"
    /\ \/ UNCHANGED file
       \/ \E c \in Conns, e \in Ends :
            /\ At(c, e, "read") /\ e \notin gone[c] /\ taken[c][e] < sent[c][e]
            /\ proxy = "serving" /\ id[c] <= MaxId
            /\ file' = Append(file, Torn)
    /\ UNCHANGED <<counter, id, conn, task, taken, got, shut, peers>>

Task(c, e) ==
    \/ Forward(c, e) \/ Drained(c, e) \/ ReadEof(c, e) \/ ForwardBreaks(c, e)
    \/ RecordFails(c, e) \/ RecordBreaks(c, e)
Handler(c) == TargetRefuses(c) \/ TargetAccepts(c) \/ SessionCloses(c) \/ Cancelled(c)
Peer(c) == \E e \in Ends : Send(c, e) \/ Finish(c, e) \/ Reset(c, e) \/ Stall(c, e)

\* What the event loop runs when it is ready.
Loop == \E c \in Conns : Handler(c) \/ \E e \in Ends : Task(c, e)

Next == Interrupt \/ Kill \/ Loop \/ \E c \in Conns : Accept(c) \/ Peer(c)

\* The task waits for an end that reads no more to take what was written to it:
\* in drain, which has no timeout, or for the EOF of a transport that was closed
\* and gives it only once it has flushed its buffer.
Waits(c, e) ==
    \/ task[c][e] = "drain" /\ Other(e) \in stalled[c] \ gone[c]
    \/ task[c][e] = "read" /\ e \in shut[c] /\ e \in stalled[c] \ gone[c]

\* The loop runs as long as something is ready. Nothing obliges an end to send,
\* to close or to read, and a task that waits for one that does not may stay.
Fairness ==
    WF_vars(\E c \in Conns : Handler(c) \/ \E e \in Ends : ~Waits(c, e) /\ Task(c, e))

Spec == Init /\ [][Next]_vars /\ Fairness

-------------------------------------------------------------------------------
(* Properties *)

\* read_capture_file: the places of the records in the file, up to one that is
\* cut short; main replays one session's records in the order of their places.
ReadCapture == {k \in 1..Len(file) : \A j \in 1..k : file[j] # Torn}
SessionRecords(i) == {k \in ReadCapture : file[k].session = i}

\* How many bytes of end e the records at these places hold: each byte by the
\* place of its record and its place in the record.
Bytes(records, e) ==
    LET ofEnd == {k \in records : file[k].direction = e}
    IN  Cardinality(UNION {{k} \X (1..file[k].length) : k \in ofEnd})

\* No record but the last one is torn: read_capture_file takes what follows a
\* torn record for the rest of it.
Intact == \A k \in 1..(Len(file) - 1) : file[k] # Torn

\* "All traffic is captured": while no failing write has torn a record that
\* others follow, whatever was handed to either end can be read from the file at
\* that moment, even after a kill, under the id of its own connection, and what
\* is in the file was really sent.
DeliveredRecorded ==
    Intact =>
      \A c \in Conns, e \in Ends :
        conn[c] # "none" => /\ got[c][e] <= Bytes(SessionRecords(id[c]), e)
                            /\ Bytes(SessionRecords(id[c]), e) <= sent[c][e]

\* replay_session sends and waits in the order of the records: of a file that is
\* intact in that sense, it never waits for an answer to a request that it has
\* yet to send.
ReplayAsksFirst ==
    Intact =>
      \A c \in Conns :
        conn[c] # "none" =>
          \A k \in SessionRecords(id[c]) :
            LET replayed == {j \in SessionRecords(id[c]) : j <= k}
            IN  Bytes(replayed, "S") <= Bytes(replayed, "C")

\* Once one end has closed or broken its connection, the other one is closed too
\* and the handler ends, unless an end that is still there reads no more: what
\* was written to it holds the handler until Control-C.
EndsTogether ==
    \A c \in Conns :
      conn[c] = "open" /\ finished[c] \union gone[c] # {}
      ~> \/ conn[c] = "ended" \/ proxy = "killed"
         \/ proxy = "serving" /\ stalled[c] \ gone[c] # {}
===============================================================================
