-------------------------- MODULE FrameCodecProofs --------------------------
(***************************************************************************)
(* Proofs about FrameCodec for every stream, frame size, chunk size and    *)
(* recursion limit.                                                        *)
(***************************************************************************)
EXTENDS FrameCodec, TLAPS

\* What holds at every step of a feed, also inside it.
Partition ==
    /\ \A f \in Frames : Valid(f) /\ FrameEnd(f) <= cut
    /\ \A p \in skipped : ~Valid(p) /\ p < cut
    /\ \A f, g \in Frames : f < g => FrameEnd(f) <= g
    /\ \A p \in skipped, f \in Frames : p < f \/ FrameEnd(f) <= p
    /\ \A p \in 0..cut-1 :
          p \in skipped \/ \E f \in Frames : f <= p /\ p < FrameEnd(f)

\* A frame is longer than its header.
NonEmpty == \A f \in Frames : FrameEnd(f) \in Nat /\ f + HeaderSize < FrameEnd(f)

\* No complete frame is in the buffer.
Starved == HeaderComplete => Valid(cut) /\ FrameEnd(cut) > received

\* The bytes the nested calls of the current extraction have dropped.
GarbageRun ==
    /\ \A p \in cut - depth..cut - 1 : p \in skipped
    /\ RaisesOnlyOnGarbage

CodecInv ==
    /\ TypeOK
    /\ GarbageRun
    /\ NonEmpty
    /\ pc # "raised" => Partition
    /\ pc = "idle" => got = {} /\ Starved

\* The four bytes of a complete header are numbers, and so is the length.
LEMMA LengthNat ==
    ASSUME TypeOK, NEW p \in Nat, p + 4 <= received
    PROVE  Length(p) \in Nat
<1>1. Base \in Nat \ {0} /\ stream \in [1..StreamLen -> 0..Base-1]
      /\ received \in 0..StreamLen /\ StreamLen \in Nat
  BY CodecAssumption DEF TypeOK, Bytes, Positions
<1>2. /\ stream[p + 1] \in Nat /\ stream[p + 2] \in Nat
      /\ stream[p + 3] \in Nat /\ stream[p + 4] \in Nat
  BY <1>1
<1>3. \A a, b \in Nat : a + Base * b \in Nat
  BY <1>1
<1>4. stream[p + 3] + Base * stream[p + 4] \in Nat
  BY <1>2, <1>3
<1>5. stream[p + 2] + Base * (stream[p + 3] + Base * stream[p + 4]) \in Nat
  BY <1>2, <1>3, <1>4
<1> QED
  BY <1>2, <1>3, <1>5 DEF Length

\* Every step keeps the types.
LEMMA TypeStep == TypeOK /\ [Next]_vars => TypeOK'
<1> SUFFICES ASSUME TypeOK, [Next]_vars PROVE TypeOK'
  OBVIOUS
<1> USE CodecAssumption DEF TypeOK, Positions
<1>1. ASSUME NEW n \in 1..MaxChunk, Feed(n) PROVE TypeOK'
  BY <1>1 DEF Feed
<1>2. CASE Extract
  <2>1. Length(cut) \in Nat
    BY <1>2, LengthNat DEF Extract, HeaderComplete, HeaderSize
  <2> QED
    BY <1>2, <2>1 DEF Extract, FrameEnd, HeaderSize
<1>3. CASE Resync
  BY <1>3 DEF Resync, HeaderComplete, Recurses, HeaderSize
<1>4. CASE ResyncRaises
  BY <1>4 DEF ResyncRaises, HeaderComplete, HeaderSize
<1>5. CASE Return
  BY <1>5 DEF Return
<1>6. CASE UNCHANGED vars
  BY <1>6 DEF vars
<1> QED
  BY <1>1, <1>2, <1>3, <1>4, <1>5, <1>6 DEF Next, Done

\* What a step of a feed does to the frames and to the dropped bytes: nothing,
\* the frame at cut, or the byte at cut.
LEMMA StreamSteps ==
    ASSUME CodecInv, [Next]_vars, pc' # "raised"
    PROVE  /\ pc # "raised"
           /\ \A p : (Valid(p)' <=> Valid(p)) /\ FrameEnd(p)' = FrameEnd(p)
           /\ \/ Frames' = Frames /\ skipped' = skipped /\ cut' = cut
              \/ /\ Frames' = Frames \cup {cut} /\ skipped' = skipped
                 /\ cut' = FrameEnd(cut) /\ Valid(cut)
                 /\ cut + HeaderSize < FrameEnd(cut)
              \/ /\ Frames' = Frames /\ skipped' = skipped \cup {cut}
                 /\ cut' = cut + 1 /\ ~Valid(cut)
<1>1. ASSUME NEW n \in 1..MaxChunk, Feed(n) PROVE Frames' = Frames /\ stream' = stream
  BY <1>1 DEF Feed, Frames
<1>2. CASE Extract
  <2>1. Length(cut) \in Nat /\ cut \in Nat
    BY <1>2, LengthNat, CodecAssumption
       DEF Extract, HeaderComplete, HeaderSize, CodecInv, TypeOK, Positions
  <2>2. cut + HeaderSize < FrameEnd(cut)
    BY <1>2, <2>1 DEF Extract, Valid, FrameEnd, HeaderSize
  <2> QED
    BY <1>2, <2>2 DEF Extract, Frames, Valid, Length, FrameEnd
<1>3. CASE Resync
  BY <1>3 DEF Resync, Frames, Valid, Length, FrameEnd
<1>4. CASE ResyncRaises
  BY <1>4 DEF ResyncRaises
<1>5. CASE Return
  BY <1>5 DEF Return, Frames, Valid, Length, FrameEnd
<1>6. CASE UNCHANGED vars
  BY <1>6 DEF vars, Frames, Valid, Length, FrameEnd
<1>7. ASSUME NEW n \in 1..MaxChunk, Feed(n)
      PROVE  /\ pc # "raised" /\ skipped' = skipped /\ cut' = cut
             /\ \A p : (Valid(p)' <=> Valid(p)) /\ FrameEnd(p)' = FrameEnd(p)
  BY <1>7, <1>1 DEF Feed, Valid, Length, FrameEnd
<1> QED
  BY <1>1, <1>2, <1>3, <1>4, <1>5, <1>6, <1>7 DEF Next, Done

\* Every step that does not raise keeps the partition.
LEMMA PartitionStep ==
    ASSUME CodecInv, [Next]_vars, pc' # "raised"
    PROVE  Partition' /\ NonEmpty'
<1>1. pc # "raised" /\ Partition /\ NonEmpty
  BY StreamSteps DEF CodecInv
<1>2. \A p : (Valid(p)' <=> Valid(p)) /\ FrameEnd(p)' = FrameEnd(p)
  BY StreamSteps
<1>3. /\ cut \in Int /\ cut >= 0
      /\ \A f \in Frames : f \in Int
      /\ \A p \in skipped : p \in Int
      /\ cut' \in Int
  <2>1. TypeOK /\ TypeOK'
    BY TypeStep DEF CodecInv
  <2> QED
    BY <2>1, CodecAssumption DEF TypeOK, Positions, Frames
<1>4. CASE Frames' = Frames /\ skipped' = skipped /\ cut' = cut
  BY <1>1, <1>2, <1>4 DEF Partition, NonEmpty, HeaderSize
<1>5. CASE /\ Frames' = Frames \cup {cut} /\ skipped' = skipped
           /\ cut' = FrameEnd(cut) /\ Valid(cut)
           /\ cut + HeaderSize < FrameEnd(cut)
  <2>1. \A f \in Frames : f < cut
    BY <1>1, <1>3 DEF Partition, NonEmpty, HeaderSize
  <2> QED
    BY <1>1, <1>2, <1>3, <1>5, <2>1 DEF Partition, NonEmpty, HeaderSize
<1>6. CASE /\ Frames' = Frames /\ skipped' = skipped \cup {cut}
           /\ cut' = cut + 1 /\ ~Valid(cut)
  BY <1>1, <1>2, <1>3, <1>6 DEF Partition, NonEmpty, HeaderSize
<1> QED
  BY <1>4, <1>5, <1>6, StreamSteps

\* A feed returns only when no complete frame is left, and between two feeds
\* nothing moves.
LEMMA StarvedStep ==
    ASSUME CodecInv, [Next]_vars, pc' = "idle"
    PROVE  got' = {} /\ Starved'
<1>1. ASSUME NEW n \in 1..MaxChunk, Feed(n) PROVE FALSE
  BY <1>1 DEF Feed
<1>2. CASE Extract
  BY <1>2 DEF Extract
<1>3. CASE Resync
  BY <1>3 DEF Resync
<1>4. CASE ResyncRaises
  BY <1>4 DEF ResyncRaises
<1>5. CASE Return
  BY <1>5 DEF Return, Starved, HeaderComplete, Valid, Length, FrameEnd
<1>6. CASE UNCHANGED vars
  BY <1>6 DEF vars, CodecInv, Starved, HeaderComplete, Valid, Length, FrameEnd
<1> QED
  BY <1>1, <1>2, <1>3, <1>4, <1>5, <1>6 DEF Next, Done

\* An exception stops the codec for good, so only its last step can lose
\* frames.
LEMMA RaisedStep ==
    ASSUME CodecInv, [Next]_vars, pc' = "raised"
    PROVE  NonEmpty'
<1>1. CASE ResyncRaises
  BY <1>1 DEF ResyncRaises, CodecInv, NonEmpty, Frames, FrameEnd, Length
<1>2. CASE UNCHANGED vars
  BY <1>2 DEF vars, CodecInv, NonEmpty, Frames, FrameEnd, Length
<1> QED
  BY <1>1, <1>2 DEF Next, Done, Feed, Extract, Resync, Return

\* A nested call adds the byte it dropped to the run, a frame ends the run.
LEMMA GarbageStep == CodecInv /\ [Next]_vars => GarbageRun'
<1> SUFFICES ASSUME CodecInv, [Next]_vars PROVE GarbageRun'
  OBVIOUS
<1> USE DEF GarbageRun, RaisesOnlyOnGarbage
<1>1. /\ TypeOK /\ GarbageRun
      /\ cut \in Nat /\ depth \in Nat /\ MaxDepth \in Nat
  BY CodecAssumption DEF CodecInv, TypeOK, Positions
<1>2. ASSUME NEW n \in 1..MaxChunk, Feed(n) PROVE GarbageRun'
  BY <1>1, <1>2 DEF Feed
<1>3. CASE Extract
  <2>1. FrameEnd(cut) \in Int
    BY <1>1, <1>3, LengthNat DEF Extract, HeaderComplete, HeaderSize, FrameEnd, TypeOK, Positions
  <2> QED
    BY <1>1, <1>3, <2>1 DEF Extract
<1>4. CASE Resync
  BY <1>1, <1>4 DEF Resync
<1>5. CASE ResyncRaises
  BY <1>1, <1>5 DEF ResyncRaises
<1>6. CASE Return
  BY <1>1, <1>6 DEF Return
<1>7. CASE UNCHANGED vars
  BY <1>1, <1>7 DEF vars
<1> QED
  BY <1>2, <1>3, <1>4, <1>5, <1>6, <1>7 DEF Next, Done

\* The invariant behind the theorems below holds in every reachable state.
THEOREM CodecInvariance == Spec => []CodecInv
<1>1. Init => CodecInv
  BY CodecAssumption DEF Init, CodecInv, TypeOK, Positions, NonEmpty, Frames,
                         Partition, Starved, HeaderComplete, HeaderSize,
                         GarbageRun, RaisesOnlyOnGarbage
<1>2. CodecInv /\ [Next]_vars => CodecInv'
  <2> SUFFICES ASSUME CodecInv, [Next]_vars PROVE CodecInv'
    OBVIOUS
  <2>1. TypeOK'
    BY TypeStep DEF CodecInv
  <2>2. NonEmpty'
    BY PartitionStep, RaisedStep
  <2>3. pc' # "raised" => Partition'
    BY PartitionStep
  <2>4. pc' = "idle" => got' = {} /\ Starved'
    BY StarvedStep
  <2>5. GarbageRun'
    BY GarbageStep
  <2> QED
    BY <2>1, <2>2, <2>3, <2>4, <2>5 DEF CodecInv
<1> QED
  BY <1>1, <1>2, PTL DEF Spec

\* The codec's variables keep their types: cut never passes received.
THEOREM CodecTypeCorrect == Spec => []TypeOK
<1>1. CodecInv => TypeOK
  BY DEF CodecInv
<1> QED
  BY <1>1, CodecInvariance, PTL

\* feed parses any stream into frames and dropped bytes, without gap or
\* overlap, whatever chunks it arrives in.
THEOREM StreamPartition == Spec => []PartitionOfStream
<1>1. CodecInv => PartitionOfStream
  BY DEF CodecInv, Partition, PartitionOfStream
<1> QED
  BY <1>1, CodecInvariance, PTL

\* Only a run of more than MaxDepth bytes without a valid length makes feed
\* raise, whatever came before it.
THEOREM GarbageOnly == Spec => []RaisesOnlyOnGarbage
<1>1. CodecInv => RaisesOnlyOnGarbage
  BY DEF CodecInv, GarbageRun
<1> QED
  BY <1>1, CodecInvariance, PTL

\* Between two feeds no complete frame waits in the buffer, and the buffer
\* holds less than one frame of the largest size.
THEOREM NoFrameHeldBack == Spec => []NothingHeldBack
<1>1. ASSUME CodecInv PROVE NothingHeldBack
  <2> SUFFICES ASSUME pc = "idle" PROVE NothingHeldBack
    BY DEF NothingHeldBack
  <2>1. got = {} /\ Starved /\ TypeOK
    BY <1>1 DEF CodecInv
  <2>2. cut \in Nat /\ received \in Nat /\ MaxFrame \in Nat
    BY <2>1, CodecAssumption DEF TypeOK, Positions
  <2>3. CASE HeaderComplete
    <3>1. Length(cut) \in Nat
      BY <2>1, <2>2, <2>3, LengthNat DEF HeaderComplete, HeaderSize
    <3> QED
      BY <2>1, <2>2, <2>3, <3>1
         DEF Starved, Valid, FrameEnd, HeaderSize, NothingHeldBack
  <2>4. CASE ~HeaderComplete
    BY <2>1, <2>2, <2>4 DEF HeaderComplete, HeaderSize, NothingHeldBack
  <2> QED
    BY <2>3, <2>4
<1> QED
  BY <1>1, CodecInvariance, PTL
=============================================================================
