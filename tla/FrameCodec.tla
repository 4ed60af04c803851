----------------------------- MODULE FrameCodec -----------------------------
(***************************************************************************)
(* Frame extraction from the TCP byte stream (protocol/codec.py).  Each    *)
(* connection has one FrameCodec; feed() is called with every chunk that   *)
(* read() returns and hands the complete frames to the dispatcher.         *)
(*                                                                         *)
(* The stream is a function of positions and the buffer is the stretch of  *)
(* it from cut to received: extending the buffer moves received, deleting  *)
(* from its front moves cut.  A frame is named by the position it starts   *)
(* at; its content is read off the stream.                                 *)
(***************************************************************************)
EXTENDS Integers

CONSTANTS
    StreamLen,   \* bound: bytes the client sends in all
    Base,        \* values of a byte (256)
    MaxFrame,    \* MAX_FRAME_SIZE
    MaxChunk,    \* read(65536)
    MaxDepth     \* recursive calls the interpreter's stack has room for

ASSUME CodecAssumption ==
    /\ StreamLen \in Nat
    /\ Base \in Nat \ {0}
    /\ MaxFrame \in Nat
    /\ MaxChunk \in Nat \ {0}
    /\ MaxDepth \in Nat

VARIABLES
    stream,     \* the bytes the client sends, in order
    received,   \* how many of them have been fed
    cut,        \* how many of them have left the buffer
    pc,         \* idle, parsing (inside feed) or raised (RecursionError)
    depth,      \* nested calls of _try_extract_frame
    got,        \* the list of frames of the current feed
    out,        \* the frames feed has returned so far
    skipped     \* history: the bytes dropped to resynchronise

vars == <<stream, received, cut, pc, depth, got, out, skipped>>

HeaderSize == 4   \* FRAME_HEADER_SIZE

Bytes == 0..Base-1

\* Position p is the place before byte p + 1.
Positions == 0..StreamLen

TypeOK ==
    /\ stream \in [1..StreamLen -> Bytes]
    /\ received \in Positions
    /\ cut \in 0..received
    /\ pc \in {"idle", "parsing", "raised"}
    /\ depth \in 0..MaxDepth
    /\ got \subseteq Positions
    /\ out \subseteq Positions
    /\ skipped \subseteq Positions

\* int.from_bytes(header, "little") of the header at p.
Length(p) ==
    stream[p + 1] + Base * (stream[p + 2] + Base * (stream[p + 3] + Base * stream[p + 4]))

\* Mutant: the upper bound of the length is not checked.
ValidUnbounded(p) == Length(p) # 0

Valid(p) == Length(p) # 0 /\ Length(p) <= MaxFrame

\* The position after the frame at p.
FrameEnd(p) == p + HeaderSize + Length(p)

Init ==
    /\ stream \in [1..StreamLen -> Bytes]
    /\ received = 0
    /\ cut = 0
    /\ pc = "idle"
    /\ depth = 0
    /\ got = {}
    /\ out = {}
    /\ skipped = {}

HeaderComplete == received - cut >= HeaderSize

\* feed(data) with n more bytes.
Feed(n) ==
    /\ pc = "idle"
    /\ received + n <= StreamLen
    /\ received' = received + n
    /\ pc' = "parsing"
    /\ depth' = 0
    /\ UNCHANGED <<stream, cut, got, out, skipped>>

\* Mutant: the whole header is dropped, as the comment on this branch says.
ResyncSkipsHeader ==
    /\ pc = "parsing"
    /\ HeaderComplete
    /\ ~Valid(cut)
    /\ cut' = cut + HeaderSize
    /\ skipped' = skipped \cup (cut..cut + HeaderSize - 1)
    /\ UNCHANGED <<stream, received, pc, depth, got, out>>

\* Mutant: the depth of one extraction is carried over to the next.
ExtractDeepens ==
    /\ pc = "parsing"
    /\ HeaderComplete
    /\ Valid(cut)
    /\ FrameEnd(cut) <= received
    /\ got' = got \cup {cut}
    /\ cut' = FrameEnd(cut)
    /\ UNCHANGED <<stream, received, pc, depth, out, skipped>>

\* Mutant: the buffer's length is not compared with the frame's.
ExtractEarly ==
    /\ pc = "parsing"
    /\ HeaderComplete
    /\ Valid(cut)
    /\ got' = got \cup {cut}
    /\ cut' = FrameEnd(cut)
    /\ depth' = 0
    /\ UNCHANGED <<stream, received, pc, out, skipped>>

\* A complete frame is taken from the buffer and appended to the list.
Extract ==
    /\ pc = "parsing"
    /\ HeaderComplete
    /\ Valid(cut)
    /\ FrameEnd(cut) <= received
    /\ got' = got \cup {cut}
    /\ cut' = FrameEnd(cut)
    /\ depth' = 0
    /\ UNCHANGED <<stream, received, pc, out, skipped>>

\* Whether _try_extract_frame calls itself once it has dropped a byte.
Recurses == received - (cut + 1) >= HeaderSize

\* The length is out of range: one byte is dropped and the call recurses
\* when another header is left, and otherwise ends the feed.
Resync ==
    /\ pc = "parsing"
    /\ HeaderComplete
    /\ ~Valid(cut)
    /\ Recurses => depth < MaxDepth
    /\ cut' = cut + 1
    /\ skipped' = skipped \cup {cut}
    /\ depth' = IF Recurses THEN depth + 1 ELSE depth
    /\ UNCHANGED <<stream, received, pc, got, out>>

\* The recursion is too deep: feed raises, and the frames it had are lost.
ResyncRaises ==
    /\ pc = "parsing"
    /\ HeaderComplete
    /\ ~Valid(cut)
    /\ Recurses
    /\ depth = MaxDepth
    /\ cut' = cut + 1
    /\ skipped' = skipped \cup {cut}
    /\ pc' = "raised"
    /\ got' = {}
    /\ UNCHANGED <<stream, received, depth, out>>

\* No complete frame is left: feed returns its list.
Return ==
    /\ pc = "parsing"
    /\ HeaderComplete => Valid(cut) /\ FrameEnd(cut) > received
    /\ pc' = "idle"
    /\ out' = out \cup got
    /\ got' = {}
    /\ UNCHANGED <<stream, received, cut, depth, skipped>>

\* The client has sent everything, or the connection has been closed.
Done ==
    /\ pc = "raised" \/ (pc = "idle" /\ received = StreamLen)
    /\ UNCHANGED vars

Next ==
    \/ \E n \in 1..MaxChunk : Feed(n)
    \/ Extract
    \/ Resync
    \/ ResyncRaises
    \/ Return
    \/ Done

Spec == Init /\ [][Next]_vars

-----------------------------------------------------------------------------
(* Properties                                                              *)

Frames == got \cup out

\* The bytes that left the buffer are, without gap or overlap, whole frames
\* with a length in range and single bytes at which no such frame could start.
\* This is how the stream parses whatever chunks it arrives in: TCP's
\* segmentation and the moments feed is called have no influence.
PartitionOfStream ==
    pc # "raised" =>
        /\ \A f \in Frames : Valid(f) /\ FrameEnd(f) <= cut
        /\ \A p \in skipped : ~Valid(p) /\ p < cut
        /\ \A f, g \in Frames : f < g => FrameEnd(f) <= g
        /\ \A p \in skipped, f \in Frames : p < f \/ FrameEnd(f) <= p
        /\ \A p \in 0..cut-1 :
              p \in skipped \/ \E f \in Frames : f <= p /\ p < FrameEnd(f)

\* Once feed has returned, every frame cut from the stream was handed over,
\* and what is left in the buffer is the beginning of one frame at most: no
\* complete frame waits for bytes that may never come, and the buffer stays
\* below one frame of the largest size.
NothingHeldBack ==
    pc = "idle" =>
        /\ got = {}
        /\ HeaderComplete => Valid(cut) /\ FrameEnd(cut) > received
        /\ received - cut < HeaderSize + MaxFrame

\* Resynchronisation costs the connection only when the bytes dropped last, one
\* more than the stack has room for, came in a row: a frame found in between
\* starts the count afresh, so scattered garbage costs its own bytes alone.
RaisesOnlyOnGarbage ==
    pc = "raised" => \A p \in cut - (MaxDepth + 1)..cut - 1 : p \in skipped
=============================================================================
