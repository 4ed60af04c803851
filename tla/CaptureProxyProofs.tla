-------------------------- MODULE CaptureProxyProofs --------------------------
(* Proofs about the recording proxy: what was handed to an end is in the     *)
(* file under the id of its connection, and a session can be replayed in the *)
(* order of its records, however many connections there are and whichever of *)
(* them are reset, refused, interrupted or cut short by a kill, as long as   *)
(* no failing write has torn a record that others follow.                    *)
EXTENDS CaptureProxy, FiniteSetTheorems, TLAPS

-------------------------------------------------------------------------------
(* What a file holds, whatever file it is *)

Records == [session : Nat, direction : Ends, length : Nat]

\* No record but the last one is torn.
IntactFile(f) == \A k \in 1..(Len(f) - 1) : f[k] # Torn

\* The places of the records that can be read, and those of one session.
ReadIn(f) == {k \in 1..Len(f) : \A j \in 1..k : f[j] # Torn}
SessionIn(f, i) == {k \in ReadIn(f) : f[k].session = i}

\* The bytes of end e in the records at these places.
Held(f, records, e) ==
    UNION {{k} \X (1..f[k].length) : k \in {r \in records : f[r].direction = e}}

\* How many bytes of end e a session's records hold.
Total(f, i, e) == Cardinality(Held(f, SessionIn(f, i), e))

\* No answer of the session comes before what it answers.
AsksFirst(f, i) ==
    \A k \in SessionIn(f, i) :
      LET replayed == {j \in SessionIn(f, i) : j <= k}
      IN  Cardinality(Held(f, replayed, "S")) <= Cardinality(Held(f, replayed, "C"))

-------------------------------------------------------------------------------
(* The inductive invariant *)

TypeOK ==
    /\ proxy \in {"serving", "stopped", "killed"}
    /\ counter \in Nat
    /\ id \in [Conns -> Nat]
    /\ conn \in [Conns -> {"none", "connecting", "open", "ended"}]
    /\ sent \in [Conns -> [Ends -> Nat]]
    /\ taken \in [Conns -> [Ends -> Nat]]
    /\ got \in [Conns -> [Ends -> Nat]]
    /\ file \in Seq(Records)

\* No record in the file has an id that is still to be given out.
FileInv == \A k \in ReadIn(file) : file[k].session < counter

\* The ids given out differ.
IdInv ==
    /\ \A c \in Conns : conn[c] # "none" => id[c] < counter
    /\ \A c, d \in Conns :
         conn[c] # "none" /\ conn[d] # "none" /\ id[c] = id[d] => c = d

\* Nothing is handed over before it is read nor read before it is sent, and
\* the server answers what it was handed.
FlowInv ==
    \A c \in Conns :
      /\ \A e \in Ends : got[c][e] <= taken[c][e] /\ taken[c][e] <= sent[c][e]
      /\ sent[c]["S"] <= got[c]["C"]
      /\ conn[c] = "none" => \A e \in Ends : sent[c][e] = 0

\* The records of a connection hold exactly what was read from its ends.
RecordedInv ==
    \A c \in Conns, e \in Ends :
      conn[c] # "none" => Total(file, id[c], e) = taken[c][e]

\* No connection's records have an answer before what it answers.
AskedInv == \A c \in Conns : conn[c] # "none" => AsksFirst(file, id[c])

\* What is read from the file, while it is intact.
FileKept == FileInv /\ RecordedInv /\ AskedInv

CaptureInv ==
    /\ TypeOK /\ IdInv /\ FlowInv
    /\ IntactFile(file) => FileKept

-------------------------------------------------------------------------------
(* The bytes that some records of a file hold *)

\* Only the records counted matter.
LEMMA HeldSame ==
    ASSUME NEW f, NEW g, NEW S, NEW e, \A k \in S : f[k] = g[k]
    PROVE  Held(f, S, e) = Held(g, S, e)
BY DEF Held

\* Finitely many records hold finitely many bytes.
LEMMA HeldFinite ==
    ASSUME NEW f, NEW S, IsFiniteSet(S), NEW e,
           \A k \in S : f[k].length \in Nat
    PROVE  IsFiniteSet(Held(f, S, e))
<1> DEFINE R == {r \in S : f[r].direction = e}
           Parts == {{k} \X (1..f[k].length) : k \in R}
           part == [k \in R |-> {k} \X (1..f[k].length)]
<1>1. IsFiniteSet(R)
  BY FS_Subset
<1>2. part \in Surjection(R, Parts)
  BY DEF Surjection
<1>3. IsFiniteSet(Parts)
  BY <1>1, <1>2, FS_Surjection
<1>4. ASSUME NEW k \in R PROVE IsFiniteSet({k} \X (1..f[k].length))
  <2>1. IsFiniteSet({k})
    BY FS_Singleton
  <2>2. f[k].length \in Nat
    BY <1>4
  <2>3. IsFiniteSet(1..f[k].length)
    BY <2>2, FS_Interval
  <2> QED
    BY <2>1, <2>3, FS_Product
<1>5. \A P \in Parts : IsFiniteSet(P)
  BY <1>4
<1>6. IsFiniteSet(UNION Parts)
  BY <1>3, <1>5, FS_UNION
<1> QED
  BY <1>6 DEF Held

\* One more record adds its length to what its own end sent and nothing to
\* what the other one did.
LEMMA HeldAdded ==
    ASSUME NEW f, NEW S, IsFiniteSet(S), NEW e, NEW K, K \notin S,
           \A k \in S : f[k].length \in Nat, f[K].length \in Nat
    PROVE  /\ f[K].direction = e =>
                Cardinality(Held(f, S \cup {K}, e))
                  = Cardinality(Held(f, S, e)) + f[K].length
           /\ f[K].direction # e => Held(f, S \cup {K}, e) = Held(f, S, e)
<1> DEFINE n == f[K].length
           new == {K} \X (1..n)
           old == Held(f, S, e)
<1>1. f[K].direction # e => Held(f, S \cup {K}, e) = old
  BY DEF Held
<1> SUFFICES ASSUME f[K].direction = e
             PROVE  Cardinality(Held(f, S \cup {K}, e)) = Cardinality(old) + n
  BY <1>1
<1>2. Held(f, S \cup {K}, e) = old \cup new
  BY DEF Held
<1>3. old \cap new = {}
  BY DEF Held
<1>4. IsFiniteSet(old)
  BY HeldFinite
<1>5. n \in Nat
  OBVIOUS
<1>6. IsFiniteSet(1..n) /\ Cardinality(1..n) = n
  <2>1. ASSUME NEW m \in Nat PROVE IsFiniteSet(1..m) /\ Cardinality(1..m) = m
    BY FS_Interval
  <2> HIDE DEF n
  <2> QED
    BY <1>5, <2>1
<1>7. IsFiniteSet({K}) /\ Cardinality({K}) = 1
  BY FS_Singleton
<1>8. IsFiniteSet(new) /\ Cardinality(new) = n
  <2>1. /\ IsFiniteSet(new)
        /\ Cardinality(new) = Cardinality({K}) * Cardinality(1..n)
    BY <1>6, <1>7, FS_Product
  <2> QED
    BY <1>5, <1>6, <1>7, <2>1
<1>9. Cardinality(old) \in Nat /\ Cardinality(old \cap new) = 0
  BY <1>3, <1>4, FS_CardinalityType, FS_EmptySet
<1>10. Cardinality(old \cup new)
         = Cardinality(old) + Cardinality(new) - Cardinality(old \cap new)
  BY <1>4, <1>8, FS_Union
<1> HIDE DEF new, old, n
<1>11. Cardinality(old \cup new) = Cardinality(old) + n
  BY <1>5, <1>8, <1>9, <1>10
<1> QED
  BY <1>2, <1>11

-------------------------------------------------------------------------------
(* One more record at the end of a file *)

\* The places of a file's records, and what is there.
LEMMA Places ==
    ASSUME NEW f \in Seq(Records), NEW S, S \subseteq ReadIn(f)
    PROVE  /\ IsFiniteSet(S) /\ S \subseteq Nat
           /\ \A k \in S : /\ k <= Len(f) /\ f[k] \in Records
                           /\ f[k].length \in Nat /\ f[k].session \in Nat
<1>1. Len(f) \in Nat /\ \A k \in 1..Len(f) : f[k] \in Records
  OBVIOUS
<1>2. S \subseteq 1..Len(f)
  BY DEF ReadIn
<1>3. IsFiniteSet(1..Len(f))
  <2>1. ASSUME NEW m \in Nat PROVE IsFiniteSet(1..m)
    BY FS_Interval
  <2> QED
    BY <1>1, <2>1
<1>4. IsFiniteSet(S)
  BY <1>2, <1>3, FS_Subset
<1>5. \A k \in 1..Len(f) : k \in Nat /\ k <= Len(f)
  BY <1>1
<1>6. \A r \in Records : r.length \in Nat /\ r.session \in Nat
  BY DEF Records
<1> QED
  BY <1>1, <1>2, <1>4, <1>5, <1>6

\* What was in the file before one more record was written to it is read as it
\* was, and the new record, unless it is torn, after it.
LEMMA Appended ==
    ASSUME NEW f \in Seq(Records), ReadIn(f) = 1..Len(f), NEW r \in Records
    PROVE  LET g == Append(f, r)
               K == Len(f) + 1
           IN  /\ \A k \in ReadIn(f) : g[k] = f[k]
               /\ Len(g) = K /\ g[K] = r
               /\ r = Torn => ReadIn(g) = ReadIn(f)
               /\ r # Torn => ReadIn(g) = ReadIn(f) \cup {K} /\ ReadIn(g) = 1..K
<1> DEFINE g == Append(f, r)
           K == Len(f) + 1
<1>1. /\ Len(f) \in Nat /\ Len(g) = K /\ g[K] = r
      /\ \A k \in 1..Len(f) : g[k] = f[k]
  OBVIOUS
<1>2. 1..K = (1..Len(f)) \cup {K} /\ K \notin 1..Len(f) /\ K \in 1..K
  BY <1>1
<1>3. \A k \in 1..Len(f) : 1..k \subseteq 1..Len(f)
  BY <1>1
<1>4. \A k \in 1..Len(f) : \A j \in 1..k : f[j] # Torn
  BY DEF ReadIn
<1>5. \A k \in 1..Len(f) : \A j \in 1..k : g[j] # Torn
  BY <1>1, <1>3, <1>4
<1>6. ReadIn(g) = {k \in 1..K : \A j \in 1..k : g[j] # Torn}
  BY <1>1 DEF ReadIn
<1>7. ASSUME r = Torn PROVE ReadIn(g) = 1..Len(f)
  <2>1. g[K] = Torn
    BY <1>1, <1>7
  <2>2. ReadIn(g) \subseteq 1..Len(f)
    BY <1>2, <1>6, <2>1
  <2>3. 1..Len(f) \subseteq ReadIn(g)
    BY <1>2, <1>5, <1>6
  <2> QED
    BY <2>2, <2>3
<1>8. ASSUME r # Torn PROVE ReadIn(g) = 1..K
  <2>1. \A j \in 1..K : g[j] # Torn
    <3>1. \A j \in 1..Len(f) : j \in 1..j
      BY <1>1
    <3> QED
      BY <1>1, <1>2, <1>5, <1>8, <3>1
  <2>2. \A k \in 1..K : 1..k \subseteq 1..K
    BY <1>1
  <2>3. \A k \in 1..K : \A j \in 1..k : g[j] # Torn
    BY <2>1, <2>2
  <2> QED
    BY <1>6, <2>3
<1> QED
  BY <1>1, <1>2, <1>7, <1>8

\* A file that is intact with one more record was whole before it.
LEMMA WholeBefore ==
    ASSUME NEW f \in Seq(Records), NEW r \in Records, IntactFile(Append(f, r))
    PROVE  ReadIn(f) = 1..Len(f) /\ IntactFile(f)
<1>1. /\ Len(f) \in Nat /\ Len(Append(f, r)) = Len(f) + 1
      /\ \A k \in 1..Len(f) : Append(f, r)[k] = f[k]
  OBVIOUS
<1>2. \A k \in 1..Len(f) : f[k] # Torn
  BY <1>1 DEF IntactFile
<1>3. \A k \in 1..Len(f) : 1..k \subseteq 1..Len(f)
  BY <1>1
<1>4. 1..(Len(f) - 1) \subseteq 1..Len(f)
  BY <1>1
<1> QED
  BY <1>2, <1>3, <1>4 DEF ReadIn, IntactFile

\* A torn record changes nothing that can be read.
LEMMA TornUnread ==
    ASSUME NEW f, NEW g, ReadIn(g) = ReadIn(f),
           \A k \in ReadIn(f) : g[k] = f[k]
    PROVE  /\ \A i, e : Total(g, i, e) = Total(f, i, e)
           /\ \A i : AsksFirst(g, i) <=> AsksFirst(f, i)
<1>1. ReadIn(g) = ReadIn(f) /\ \A k \in ReadIn(f) : g[k] = f[k]
  OBVIOUS
<1>2. \A i : SessionIn(g, i) = SessionIn(f, i)
  BY <1>1 DEF SessionIn
<1>3. ASSUME NEW S, S \subseteq ReadIn(f), NEW e PROVE Held(g, S, e) = Held(f, S, e)
  BY <1>1, <1>3, HeldSame
<1>4. \A i : SessionIn(f, i) \subseteq ReadIn(f)
  BY DEF SessionIn
<1>5. \A i, e : Total(g, i, e) = Total(f, i, e)
  BY <1>2, <1>3, <1>4 DEF Total
<1>6. ASSUME NEW i PROVE AsksFirst(g, i) <=> AsksFirst(f, i)
  <2>1. ASSUME NEW k, NEW e
        PROVE  LET S == {j \in SessionIn(f, i) : j <= k}
               IN  Held(g, S, e) = Held(f, S, e)
    BY <1>3, <1>4
  <2> QED
    BY <1>2, <2>1 DEF AsksFirst
<1> QED
  BY <1>5, <1>6

\* A whole record adds its length to what its session holds of its end, and is
\* the last of its session. Nothing else changes.
LEMMA WholeRead ==
    ASSUME NEW f, NEW g, NEW K \in Nat, NEW r \in Records,
           IsFiniteSet(ReadIn(f)),
           \A k \in ReadIn(f) : /\ k \in Nat /\ k < K
                                /\ f[k].length \in Nat /\ g[k] = f[k],
           g[K] = r, ReadIn(g) = ReadIn(f) \cup {K}
    PROVE  /\ \A i, e : i # r.session \/ e # r.direction =>
                          Total(g, i, e) = Total(f, i, e)
           /\ Total(g, r.session, r.direction)
                = Total(f, r.session, r.direction) + r.length
           /\ \A i : i # r.session => (AsksFirst(g, i) <=> AsksFirst(f, i))
           /\ /\ AsksFirst(f, r.session)
              /\ Total(g, r.session, "S") <= Total(g, r.session, "C")
              => AsksFirst(g, r.session)
<1>1. /\ \A k \in ReadIn(f) : g[k] = f[k]
      /\ K \notin ReadIn(f) /\ g[K] = r /\ ReadIn(g) = ReadIn(f) \cup {K}
  OBVIOUS
<1>2. K \in Nat /\ \A k \in ReadIn(f) : k \in Nat /\ k < K
  OBVIOUS
<1>3. \A i : SessionIn(f, i) \subseteq ReadIn(f)
  BY DEF SessionIn
<1>4. /\ \A i : i # r.session => SessionIn(g, i) = SessionIn(f, i)
      /\ SessionIn(g, r.session) = SessionIn(f, r.session) \cup {K}
  <2>1. ASSUME NEW i
        PROVE  SessionIn(g, i) = SessionIn(f, i) \cup {k \in {K} : r.session = i}
    BY <1>1 DEF SessionIn
  <2> QED
    BY <2>1
<1>5. ASSUME NEW S, S \subseteq ReadIn(f), NEW e PROVE Held(g, S, e) = Held(f, S, e)
  BY <1>1, <1>5, HeldSame
<1>6. \A i, e : i # r.session => Total(g, i, e) = Total(f, i, e)
  BY <1>3, <1>4, <1>5 DEF Total
<1>7. ASSUME NEW e
      PROVE  /\ e # r.direction => Total(g, r.session, e) = Total(f, r.session, e)
             /\ e = r.direction =>
                  Total(g, r.session, e) = Total(f, r.session, e) + r.length
  <2> DEFINE S == SessionIn(f, r.session)
  <2>1. /\ IsFiniteSet(S) /\ \A k \in S : f[k].length \in Nat
        /\ S \subseteq ReadIn(f)
    BY <1>3, FS_Subset
  <2>2. K \notin S /\ \A k \in S : g[k].length \in Nat
    BY <1>1, <2>1
  <2>3. g[K].length \in Nat /\ g[K].direction = r.direction /\ g[K].length = r.length
    BY <1>1 DEF Records
  <2>4. Held(g, S, e) = Held(f, S, e)
    BY <1>5, <2>1
  <2>5. SessionIn(g, r.session) = S \cup {K}
    BY <1>4
  <2> HIDE DEF S
  <2>6. /\ g[K].direction = e =>
             Cardinality(Held(g, S \cup {K}, e))
               = Cardinality(Held(g, S, e)) + g[K].length
        /\ g[K].direction # e => Held(g, S \cup {K}, e) = Held(g, S, e)
    BY <2>1, <2>2, <2>3, HeldAdded
  <2> QED
    BY <2>3, <2>4, <2>5, <2>6 DEF Total, S
<1>8. ASSUME NEW i, i # r.session PROVE AsksFirst(g, i) <=> AsksFirst(f, i)
  <2>1. ASSUME NEW k, NEW e
        PROVE  LET S == {j \in SessionIn(f, i) : j <= k}
               IN  Held(g, S, e) = Held(f, S, e)
    BY <1>3, <1>5
  <2> QED
    BY <1>4, <1>8, <2>1 DEF AsksFirst
<1>9. ASSUME AsksFirst(f, r.session),
             Total(g, r.session, "S") <= Total(g, r.session, "C")
      PROVE  AsksFirst(g, r.session)
  <2> DEFINE S == SessionIn(f, r.session)
             T == SessionIn(g, r.session)
             upto(A, k) == {j \in A : j <= k}
  <2> SUFFICES ASSUME NEW k \in T
               PROVE  Cardinality(Held(g, upto(T, k), "S"))
                        <= Cardinality(Held(g, upto(T, k), "C"))
    BY DEF AsksFirst
  <2>1. S \subseteq ReadIn(f) /\ T = S \cup {K}
    BY <1>3, <1>4
  <2>2. CASE k \in S
    <3>1. upto(T, k) = upto(S, k) /\ upto(S, k) \subseteq ReadIn(f)
      BY <1>2, <2>1, <2>2
    <3>2. \A e : Held(g, upto(S, k), e) = Held(f, upto(S, k), e)
      BY <1>5, <3>1
    <3>3. Cardinality(Held(f, upto(S, k), "S"))
            <= Cardinality(Held(f, upto(S, k), "C"))
      BY <1>9, <2>2 DEF AsksFirst
    <3> QED
      BY <3>1, <3>2, <3>3
  <2>3. CASE k = K
    <3>1. upto(T, k) = T
      BY <1>2, <2>1, <2>3
    <3> QED
      BY <1>9, <3>1 DEF Total
  <2> QED
    BY <2>1, <2>2, <2>3
<1> QED
  BY <1>6, <1>7, <1>8, <1>9

-------------------------------------------------------------------------------
(* The steps *)

\* A step that records nothing, hands nothing over and accepts nobody.
Quiet ==
    /\ UNCHANGED <<counter, id, sent, taken, got, file>>
    /\ \A c \in Conns : conn'[c] = "none" <=> conn[c] = "none"
    /\ conn' \in [Conns -> {"none", "connecting", "open", "ended"}]
    /\ proxy' \in {"serving", "stopped", "killed"}

\* A step that leaves a torn record and changes nothing else of this.
Tears ==
    /\ UNCHANGED <<counter, id, conn, sent, taken, got>>
    /\ proxy' \in {"serving", "stopped", "killed"}
    /\ file' = Append(file, Torn)

\* A step that records what end e of c has sent, and hands it over or not.
RecordsPart(c, e, n, m) ==
    /\ conn[c] # "none" /\ n \in 1..(sent[c][e] - taken[c][e]) /\ m \in {0, n}
    /\ file' = Append(file, Record(id[c], e, n))
    /\ taken' = [taken EXCEPT ![c][e] = @ + n]
    /\ got' = [got EXCEPT ![c][e] = @ + m]
    /\ UNCHANGED <<proxy, counter, id, conn, sent>>

Recording(c, e) == \E n, m \in Nat : RecordsPart(c, e, n, m)

\* A step of Next is of one of these kinds.
LEMMA StepKinds ==
    ASSUME TypeOK, [Next]_vars
    PROVE  \/ Quiet
           \/ Tears
           \/ \E c \in Conns : Accept(c)
           \/ \E c \in Conns, e \in Ends : Send(c, e) \/ Recording(c, e)
<1>1. ASSUME NEW c \in Conns, NEW e \in Ends,
             Finish(c, e) \/ Reset(c, e) \/ Stall(c, e) \/ Drained(c, e)
      PROVE  Quiet
  BY <1>1 DEF Finish, Reset, Stall, Drained, Quiet, peers, TypeOK
<1>2. ASSUME NEW c \in Conns, NEW e \in Ends,
             ReadEof(c, e) \/ ForwardBreaks(c, e) \/ RecordFails(c, e)
      PROVE  Quiet
  BY <1>2 DEF ReadEof, ForwardBreaks, RecordFails, DirectionEnds, Quiet, peers,
              TypeOK
<1>3. ASSUME NEW c \in Conns, Handler(c) PROVE Quiet
  BY <1>3 DEF Handler, TargetRefuses, TargetAccepts, SessionCloses, Cancelled,
              Quiet, peers, TypeOK
<1>4. CASE Interrupt \/ UNCHANGED vars
  BY <1>4 DEF Interrupt, vars, Quiet, peers, TypeOK
<1>5. CASE Kill
  BY <1>5 DEF Kill, Quiet, Tears, peers, TypeOK
<1>6. ASSUME NEW c \in Conns, NEW e \in Ends,
             NEW n \in 1..(sent[c][e] - taken[c][e])
      PROVE  n \in Nat
  BY <1>6 DEF TypeOK
<1>7. ASSUME NEW c \in Conns, NEW e \in Ends, Forward(c, e)
      PROVE  Recording(c, e)
  <2>1. PICK n \in 1..(sent[c][e] - taken[c][e]) :
          /\ file' = Append(file, Record(id[c], e, n))
          /\ taken' = [taken EXCEPT ![c][e] = @ + n]
          /\ got' = [got EXCEPT ![c][e] = @ + IF Reached(c, e) THEN n ELSE 0]
    BY <1>7 DEF Forward
  <2>2. conn[c] # "none" /\ UNCHANGED <<proxy, counter, id, conn, sent>>
    BY <1>7 DEF Forward, At, peers
  <2>3. PICK m \in {0, n} : got' = [got EXCEPT ![c][e] = @ + m]
    BY <2>1
  <2>4. n \in Nat /\ m \in Nat
    BY <1>6
  <2> QED
    BY <2>1, <2>2, <2>3, <2>4 DEF Recording, RecordsPart
<1>8. ASSUME NEW c \in Conns, NEW e \in Ends, RecordBreaks(c, e)
      PROVE  Quiet \/ Tears \/ Recording(c, e)
  <2>1. PICK n \in 1..(sent[c][e] - taken[c][e]) :
          \/ /\ file' = Append(file, Record(id[c], e, n))
             /\ taken' = [taken EXCEPT ![c][e] = @ + n]
          \/ file' \in {file, Append(file, Torn)} /\ UNCHANGED taken
    BY <1>8 DEF RecordBreaks
  <2>2. /\ conn[c] # "none" /\ UNCHANGED <<proxy, counter, id, conn, sent, got>>
        /\ n \in Nat
    BY <1>6, <1>8 DEF RecordBreaks, At, peers
  <2>3. CASE /\ file' = Append(file, Record(id[c], e, n))
             /\ taken' = [taken EXCEPT ![c][e] = @ + n]
    <3>1. got' = [got EXCEPT ![c][e] = @ + 0]
      BY <2>2 DEF TypeOK
    <3> QED
      BY <2>2, <2>3, <3>1 DEF Recording, RecordsPart
  <2>4. CASE file' \in {file, Append(file, Torn)} /\ UNCHANGED taken
    BY <2>2, <2>4 DEF Quiet, Tears, TypeOK
  <2> QED
    BY <2>1, <2>3, <2>4
<1> QED
  BY <1>1, <1>2, <1>3, <1>4, <1>5, <1>7, <1>8 DEF Next, Loop, Task, Peer

\* A quiet step changes nothing that the invariant speaks of.
LEMMA QuietKeeps ==
    ASSUME CaptureInv, Quiet
    PROVE  CaptureInv'
BY DEF Quiet, CaptureInv, FileKept, TypeOK, FileInv, IdInv, FlowInv, RecordedInv, AskedInv

\* A new connection gets an id that no record has.
LEMMA AcceptKeeps ==
    ASSUME CaptureInv, NEW c \in Conns, Accept(c)
    PROVE  CaptureInv'
<1>1. /\ TypeOK /\ IdInv /\ FlowInv
      /\ proxy' = proxy /\ conn[c] = "none"
      /\ conn' = [conn EXCEPT ![c] = "connecting"]
      /\ id' = [id EXCEPT ![c] = counter] /\ counter' = counter + 1
      /\ UNCHANGED <<sent, taken, got, file>>
  BY DEF Accept, CaptureInv, peers
<1>2. counter \in Nat /\ \A i \in Nat : i < counter => i < counter + 1 /\ i # counter
  BY <1>1 DEF TypeOK
<1>3. TypeOK'
  BY <1>1, <1>2 DEF TypeOK
<1>4. /\ id'[c] = counter
      /\ \A d \in Conns : d # c => id'[d] = id[d] /\ conn'[d] = conn[d]
      /\ \A d \in Conns : id[d] \in Nat
  BY <1>1 DEF TypeOK
<1>5. IdInv'
  BY <1>1, <1>2, <1>4 DEF IdInv
<1>6. FlowInv'
  BY <1>1, <1>4 DEF FlowInv
<1> SUFFICES ASSUME IntactFile(file') PROVE FileKept'
  BY <1>3, <1>5, <1>6 DEF CaptureInv
<1>a. FileInv /\ RecordedInv /\ AskedInv
  BY <1>1 DEF CaptureInv, FileKept
<1>7. \A k \in ReadIn(file) : file[k].session \in Nat
  BY <1>1, Places DEF TypeOK
<1>8. FileInv'
  BY <1>1, <1>2, <1>7, <1>a DEF FileInv
<1>9. SessionIn(file, counter) = {}
  BY <1>1, <1>2, <1>7, <1>a DEF FileInv, SessionIn
<1>10. AsksFirst(file, counter) /\ \A e : Total(file, counter, e) = 0
  <2>1. \A e : Held(file, {}, e) = {}
    BY DEF Held
  <2> QED
    BY <1>9, <2>1, FS_EmptySet DEF AsksFirst, Total
<1>11. \A e \in Ends : taken[c][e] = 0
  BY <1>1 DEF TypeOK, FlowInv
<1>12. RecordedInv'
  <2> SUFFICES ASSUME NEW d \in Conns, NEW e \in Ends, conn'[d] # "none"
               PROVE  Total(file, id'[d], e) = taken[d][e]
    BY <1>1 DEF RecordedInv
  <2>1. CASE d = c
    BY <1>4, <1>10, <1>11, <2>1
  <2>2. CASE d # c
    BY <1>a, <1>4, <2>2 DEF RecordedInv
  <2> QED
    BY <2>1, <2>2
<1>13. AskedInv'
  BY <1>1, <1>a, <1>4, <1>10 DEF AskedInv
<1> QED
  BY <1>8, <1>12, <1>13 DEF FileKept

\* An end that sends more leaves the file as it is, and the server sends no
\* more than answers.
LEMMA SendKeeps ==
    ASSUME CaptureInv, NEW c \in Conns, NEW e \in Ends, Send(c, e)
    PROVE  CaptureInv'
<1>1. /\ TypeOK /\ IdInv /\ FlowInv /\ (IntactFile(file) => FileKept)
      /\ UNCHANGED <<proxy, counter, id, conn, taken, got, file>>
      /\ sent' = [sent EXCEPT ![c][e] = @ + 1]
      /\ conn[c] # "none"
      /\ e = "S" => sent[c][e] < got[c]["C"]
  BY DEF Send, CaptureInv, Ends
<1>2. TypeOK'
  BY <1>1 DEF TypeOK
<1>3. \A d \in Conns, x \in Ends :
         /\ sent[d][x] \in Nat /\ taken[d][x] \in Nat /\ got[d][x] \in Nat
         /\ d = c /\ x = e => sent'[d][x] = sent[d][x] + 1
         /\ d # c \/ x # e => sent'[d][x] = sent[d][x]
  BY <1>1 DEF TypeOK
<1>4. "S" \in Ends /\ "C" \in Ends
  BY DEF Ends
<1>5. FlowInv'
  <2> SUFFICES ASSUME NEW d \in Conns
               PROVE  /\ \A x \in Ends : /\ got[d][x] <= taken[d][x]
                                          /\ taken[d][x] <= sent'[d][x]
                      /\ sent'[d]["S"] <= got[d]["C"]
                      /\ conn[d] = "none" => \A x \in Ends : sent'[d][x] = 0
    BY <1>1 DEF FlowInv
  <2>1. CASE d = c
    BY <1>1, <1>3, <1>4, <2>1 DEF FlowInv
  <2>2. CASE d # c
    BY <1>1, <1>3, <1>4, <2>2 DEF FlowInv
  <2> QED
    BY <2>1, <2>2
<1>6. IdInv' /\ (IntactFile(file') => FileKept')
  BY <1>1 DEF FileKept, FileInv, IdInv, RecordedInv, AskedInv
<1> QED
  BY <1>2, <1>5, <1>6 DEF CaptureInv

\* A torn record is not read, and what was in the file is read as before.
LEMMA TearKeeps ==
    ASSUME CaptureInv, Tears
    PROVE  CaptureInv'
<1>1. /\ TypeOK /\ IdInv /\ FlowInv /\ (IntactFile(file) => FileKept)
      /\ UNCHANGED <<counter, id, conn, sent, taken, got>>
      /\ proxy' \in {"serving", "stopped", "killed"}
      /\ file' = Append(file, Torn)
  BY DEF Tears, CaptureInv
<1>2. Torn \in Records /\ file \in Seq(Records)
  BY <1>1 DEF Torn, Record, Records, Ends, TypeOK
<1>3. TypeOK'
  <2>1. file' \in Seq(Records)
    BY <1>1, <1>2
  <2> QED
    BY <1>1, <2>1 DEF TypeOK
<1>4. IdInv' /\ FlowInv'
  BY <1>1 DEF IdInv, FlowInv
<1> SUFFICES ASSUME IntactFile(file') PROVE FileKept'
  BY <1>3, <1>4 DEF CaptureInv
<1>5. ReadIn(file) = 1..Len(file) /\ IntactFile(file)
  <2>1. IntactFile(Append(file, Torn))
    BY <1>1
  <2> QED
    BY <1>2, <2>1, WholeBefore
<1>6. FileInv /\ RecordedInv /\ AskedInv
  BY <1>1, <1>5 DEF FileKept
<1>7. /\ ReadIn(file') = ReadIn(file)
      /\ \A k \in ReadIn(file) : file'[k] = file[k]
  <2>1. LET g == Append(file, Torn)
        IN  ReadIn(g) = ReadIn(file) /\ \A k \in ReadIn(file) : g[k] = file[k]
    BY <1>2, <1>5, Appended
  <2> QED
    BY <1>1, <2>1
<1>8. /\ \A i, e : Total(file', i, e) = Total(file, i, e)
      /\ \A i : AsksFirst(file', i) <=> AsksFirst(file, i)
  BY <1>7, TornUnread
<1>9. FileInv'
  BY <1>1, <1>6, <1>7 DEF FileInv
<1>10. RecordedInv' /\ AskedInv'
  BY <1>1, <1>6, <1>8 DEF RecordedInv, AskedInv
<1> QED
  BY <1>9, <1>10 DEF FileKept

\* What forward reads is recorded under its connection's id before it is handed
\* over; an answer is read only after all it answers was recorded.
LEMMA RecordingKeeps ==
    ASSUME CaptureInv, NEW c \in Conns, NEW e \in Ends, Recording(c, e)
    PROVE  CaptureInv'
<1>1. PICK n \in Nat, m \in Nat : RecordsPart(c, e, n, m)
  BY DEF Recording
<1>2. /\ TypeOK /\ IdInv /\ FlowInv /\ (IntactFile(file) => FileKept)
      /\ conn[c] # "none" /\ n \in 1..(sent[c][e] - taken[c][e]) /\ m \in {0, n}
      /\ file' = Append(file, Record(id[c], e, n))
      /\ taken' = [taken EXCEPT ![c][e] = @ + n]
      /\ got' = [got EXCEPT ![c][e] = @ + m]
      /\ UNCHANGED <<proxy, counter, id, conn, sent>>
  BY <1>1 DEF RecordsPart, CaptureInv
<1>3. \A d \in Conns, x \in Ends :
         sent[d][x] \in Nat /\ taken[d][x] \in Nat /\ got[d][x] \in Nat
  BY <1>2 DEF TypeOK
<1>4. n \in Nat /\ n >= 1 /\ taken[c][e] + n <= sent[c][e]
  <2>1. sent[c][e] \in Nat /\ taken[c][e] \in Nat
    BY <1>3
  <2> QED
    BY <1>2, <2>1
<1>6. m \in Nat /\ m <= n
  BY <1>2, <1>4
<1>7. /\ taken'[c][e] = taken[c][e] + n /\ got'[c][e] = got[c][e] + m
      /\ \A d \in Conns, x \in Ends :
           d # c \/ x # e => taken'[d][x] = taken[d][x] /\ got'[d][x] = got[d][x]
  BY <1>2 DEF TypeOK
<1> DEFINE r == Record(id[c], e, n)
<1>8. /\ r \in Records /\ r # Torn
      /\ r.session = id[c] /\ r.direction = e /\ r.length = n
  <2>1. id[c] \in Nat
    BY <1>2 DEF TypeOK
  <2>2. r.session = id[c] /\ r.direction = e /\ r.length = n /\ r \in Records
    BY <1>4, <2>1 DEF Record, Records
  <2>3. Torn.length = 0 /\ r.length # 0
    BY <1>4, <2>2 DEF Torn, Record
  <2> QED
    BY <2>2, <2>3
<1>5. file \in Seq(Records) /\ file' = Append(file, r)
  BY <1>2 DEF TypeOK
<1> HIDE DEF r
<1>10. TypeOK'
  <2>1. file' \in Seq(Records)
    BY <1>8, <1>5
  <2>2. taken' \in [Conns -> [Ends -> Nat]] /\ got' \in [Conns -> [Ends -> Nat]]
    <3>1. taken[c][e] + n \in Nat /\ got[c][e] + m \in Nat
      BY <1>3, <1>4, <1>6
    <3> QED
      BY <1>2, <3>1 DEF TypeOK
  <2> QED
    BY <1>2, <2>1, <2>2 DEF TypeOK
<1>12. IdInv'
  BY <1>2 DEF IdInv
<1>13. "S" \in Ends /\ "C" \in Ends
  BY DEF Ends
<1>14. FlowInv'
  <2> SUFFICES ASSUME NEW d \in Conns
               PROVE  /\ \A x \in Ends : /\ got'[d][x] <= taken'[d][x]
                                          /\ taken'[d][x] <= sent[d][x]
                      /\ sent[d]["S"] <= got'[d]["C"]
                      /\ conn[d] = "none" => \A x \in Ends : sent[d][x] = 0
    BY <1>2 DEF FlowInv
  <2>1. /\ \A x \in Ends : got[d][x] <= taken[d][x] /\ taken[d][x] <= sent[d][x]
        /\ sent[d]["S"] <= got[d]["C"]
        /\ conn[d] = "none" => \A x \in Ends : sent[d][x] = 0
    BY <1>2 DEF FlowInv
  <2>2. ASSUME NEW x \in Ends
        PROVE  /\ got'[d][x] <= taken'[d][x] /\ taken'[d][x] <= sent[d][x]
               /\ got[d][x] <= got'[d][x]
    <3>1. CASE d = c /\ x = e
      BY <1>3, <1>4, <1>6, <1>7, <2>1, <3>1
    <3>2. CASE d # c \/ x # e
      BY <1>3, <1>7, <2>1, <3>2
    <3> QED
      BY <3>1, <3>2
  <2>3. sent[d]["S"] <= got'[d]["C"]
    <3>1. got[d]["C"] <= got'[d]["C"] /\ got'[d]["C"] \in Nat
      BY <1>10, <1>13, <2>2 DEF TypeOK
    <3> QED
      BY <1>3, <1>13, <2>1, <3>1
  <2> QED
    BY <2>1, <2>2, <2>3
<1> SUFFICES ASSUME IntactFile(file') PROVE FileKept'
  BY <1>10, <1>12, <1>14 DEF CaptureInv
<1>9. /\ file \in Seq(Records) /\ ReadIn(file) = 1..Len(file)
      /\ file' = Append(file, r) /\ IntactFile(file)
  <2>1. IntactFile(Append(file, r))
    BY <1>5
  <2> QED
    BY <1>5, <1>8, <2>1, WholeBefore
<1>a. FileInv /\ RecordedInv /\ AskedInv
  BY <1>2, <1>9 DEF FileKept
<1>11. /\ ReadIn(file') = 1..Len(file')
       /\ \A k \in ReadIn(file') :
            file'[k] = r \/ (k \in ReadIn(file) /\ file'[k] = file[k])
       /\ \A i, x : i # id[c] \/ x # e => Total(file', i, x) = Total(file, i, x)
       /\ Total(file', id[c], e) = Total(file, id[c], e) + n
       /\ \A i : i # id[c] => (AsksFirst(file', i) <=> AsksFirst(file, i))
       /\ /\ AsksFirst(file, id[c])
          /\ Total(file', id[c], "S") <= Total(file', id[c], "C")
          => AsksFirst(file', id[c])
  <2> DEFINE K == Len(file) + 1
             g == file'
  <2>1. /\ \A k \in ReadIn(file) : g[k] = file[k]
        /\ Len(g) = K /\ g[K] = r
        /\ ReadIn(g) = ReadIn(file) \cup {K} /\ ReadIn(g) = 1..K
    <3>1. LET h == Append(file, r)
          IN  /\ \A k \in ReadIn(file) : h[k] = file[k]
              /\ Len(h) = K /\ h[K] = r
              /\ ReadIn(h) = ReadIn(file) \cup {K} /\ ReadIn(h) = 1..K
      BY <1>8, <1>9, Appended
    <3> QED
      BY <1>9, <3>1
  <2>2. /\ K \in Nat
        /\ \A k \in ReadIn(file) : k \in Nat /\ k < K /\ file[k].length \in Nat
        /\ IsFiniteSet(ReadIn(file))
    <3>1. Len(file) \in Nat /\ \A k \in Nat : k <= Len(file) => k < Len(file) + 1
      BY <1>9
    <3>2. /\ IsFiniteSet(ReadIn(file)) /\ ReadIn(file) \subseteq Nat
          /\ \A k \in ReadIn(file) : k <= Len(file) /\ file[k].length \in Nat
      BY <1>9, Places
    <3> QED
      BY <3>1, <3>2
  <2> HIDE DEF K, g
  <2>3. /\ \A i, x : i # r.session \/ x # r.direction =>
                      Total(g, i, x) = Total(file, i, x)
        /\ Total(g, r.session, r.direction)
             = Total(file, r.session, r.direction) + r.length
        /\ \A i : i # r.session => (AsksFirst(g, i) <=> AsksFirst(file, i))
        /\ /\ AsksFirst(file, r.session)
           /\ Total(g, r.session, "S") <= Total(g, r.session, "C")
           => AsksFirst(g, r.session)
    BY <1>8, <2>1, <2>2, WholeRead
  <2>4. /\ ReadIn(g) = 1..Len(g)
        /\ \A k \in ReadIn(g) : g[k] = r \/ (k \in ReadIn(file) /\ g[k] = file[k])
    BY <2>1
  <2>5. /\ \A i, x : i # id[c] \/ x # e => Total(g, i, x) = Total(file, i, x)
        /\ Total(g, id[c], e) = Total(file, id[c], e) + n
        /\ \A i : i # id[c] => (AsksFirst(g, i) <=> AsksFirst(file, i))
        /\ /\ AsksFirst(file, id[c])
           /\ Total(g, id[c], "S") <= Total(g, id[c], "C")
           => AsksFirst(g, id[c])
    BY <1>8, <2>3
  <2> QED
    BY <2>4, <2>5 DEF g
<1>b. FileInv'
  BY <1>2, <1>8, <1>11, <1>a DEF FileInv, IdInv
<1>15. \A d \in Conns : conn[d] # "none" /\ d # c => id[d] # id[c]
  BY <1>2 DEF IdInv
<1>16. RecordedInv'
  <2> SUFFICES ASSUME NEW d \in Conns, NEW x \in Ends, conn[d] # "none"
               PROVE  Total(file', id[d], x) = taken'[d][x]
    BY <1>2 DEF RecordedInv
  <2>1. Total(file, id[d], x) = taken[d][x]
    BY <1>a DEF RecordedInv
  <2>2. CASE d = c /\ x = e
    BY <1>7, <1>11, <2>1, <2>2
  <2>3. CASE d # c \/ x # e
    BY <1>7, <1>11, <1>15, <2>1, <2>3
  <2> QED
    BY <2>2, <2>3
<1>17. Total(file', id[c], "S") <= Total(file', id[c], "C")
  <2>1. \A x \in Ends : Total(file', id[c], x) = taken'[c][x]
    BY <1>2, <1>16 DEF RecordedInv
  <2>2. /\ taken'[c]["S"] <= sent[c]["S"] /\ sent[c]["S"] <= got'[c]["C"]
        /\ got'[c]["C"] <= taken'[c]["C"]
    BY <1>2, <1>13, <1>14 DEF FlowInv
  <2>3. /\ taken'[c]["S"] \in Nat /\ sent[c]["S"] \in Nat
        /\ got'[c]["C"] \in Nat /\ taken'[c]["C"] \in Nat
    BY <1>3, <1>10, <1>13 DEF TypeOK
  <2>4. taken'[c]["S"] <= taken'[c]["C"]
    BY <2>2, <2>3
  <2> QED
    BY <1>13, <2>1, <2>4
<1>18. AskedInv'
  BY <1>2, <1>a, <1>11, <1>15, <1>17 DEF AskedInv
<1> QED
  BY <1>b, <1>16, <1>18 DEF FileKept

\* The invariant holds from the start and every step keeps it.
THEOREM Captured == Spec => []CaptureInv
<1>1. Init => CaptureInv
  <2> SUFFICES ASSUME Init PROVE CaptureInv
    OBVIOUS
  <2>1. ReadIn(file) = {} /\ 1..Len(file) = {}
    BY DEF Init, ReadIn
  <2>2. file \in Seq(Records)
    BY DEF Init
  <2> QED
    BY <2>1, <2>2
       DEF Init, CaptureInv, FileKept, TypeOK, FileInv, IdInv, FlowInv, RecordedInv,
           AskedInv, Ends
<1>2. CaptureInv /\ [Next]_vars => CaptureInv'
  BY StepKinds, QuietKeeps, TearKeeps, AcceptKeeps, SendKeeps, RecordingKeeps
     DEF CaptureInv
<1> QED
  BY <1>1, <1>2, PTL DEF Spec

-------------------------------------------------------------------------------
(* The properties *)

\* While no torn record has another one after it, whatever was handed to an end
\* is in the file, readable, under the id of its own connection, and nothing is
\* there that was not sent.
THEOREM Delivered == Spec => []DeliveredRecorded
<1>1. CaptureInv => DeliveredRecorded
  <2> SUFFICES ASSUME CaptureInv, Intact, NEW c \in Conns, NEW e \in Ends,
                      conn[c] # "none"
               PROVE  /\ got[c][e] <= Bytes(SessionRecords(id[c]), e)
                      /\ Bytes(SessionRecords(id[c]), e) <= sent[c][e]
    BY DEF DeliveredRecorded
  <2>1. Bytes(SessionRecords(id[c]), e) = Total(file, id[c], e)
    BY DEF Bytes, SessionRecords, ReadCapture, Total, Held, SessionIn, ReadIn
  <2>2. FlowInv /\ RecordedInv
    BY DEF CaptureInv, FileKept, Intact, IntactFile
  <2> QED
    BY <2>1, <2>2 DEF RecordedInv, FlowInv
<1> QED
  BY <1>1, Captured, PTL

\* A session's records, replayed in the order of such a file, never make the
\* replay wait for an answer to a request that it has yet to send.
THEOREM Replayable == Spec => []ReplayAsksFirst
<1>1. CaptureInv => ReplayAsksFirst
  <2>1. CaptureInv /\ Intact => AskedInv
    BY DEF CaptureInv, FileKept, Intact, IntactFile
  <2> QED
    BY <2>1
       DEF AskedInv, AsksFirst, ReplayAsksFirst, Bytes,
         SessionRecords, ReadCapture, Held, SessionIn, ReadIn
<1> QED
  BY <1>1, Captured, PTL
===============================================================================
