--------------------------- MODULE ProbeGcodeProofs ---------------------------
(* Proofs about the probing programs, for every request and every machine:   *)
(* each program ends with M30 and is executed up to it, and the work offsets *)
(* it changes are those it was asked to set; and, wherever the workpiece is  *)
(* within the margins of the cycle, no rapid passes through it, every skip   *)
(* move meets it, and every offset set is the place of its feature.          *)
EXTENDS ProbeWorkpiece, TLAPS

-------------------------------------------------------------------------------
(* The blocks of a program *)

MoveOps == {"G00", "G01", "G31"}
Targets == UNION {[A -> Int] : A \in SUBSET Axes}

\* The blocks that set no work offset, and those that do.
Moves == [op : MoveOps, to : Targets]
ModeWords(s) == [op : {"G90", "G91", "G28"} \cup (WorkSystems \cap {s.wcs})]
Assigns ==
    [op : {"read"}, var : Int, axis : Axes] \cup [op : {"mid"}, var : Int, of : Int \X Int]
    \cup [op : {"shift"}, var : Int, by : Int]
Plain == Moves \cup Assigns
Still(s) == Plain \cup ModeWords(s)

G10s(s) == {b \in [op : {"G10"}, wcs : {System(s)}, axis : Axes, var : Int] : s.set_wcs}
Macros(s) == [op : {"G65"}, axes : SUBSET Axes, wcs : {System(s)}, set : {s.set_wcs}]
Blocks(s) == Still(s) \cup G10s(s) \cup Macros(s)

End == [op |-> "M30"]

\* The pairs of system and axis that a block sets, and those a program does.
SetBy(b) ==
    {x \in {<<b.wcs, b.axis>>} : b.op = "G10"}
    \cup {x \in {b.wcs} \X b.axes : b.op = "G65" /\ b.set}
SetIn(p) == UNION {SetBy(p[k]) : k \in 1..Len(p)}

\* The request's system with each of these axes, if offsets are to be set.
Pairs(s, A) == {x \in {System(s)} \X A : s.set_wcs}

\* A part of a program that sets these axes, and a whole program that does.
Sets(s, p, A) == p \in Seq(Blocks(s)) /\ SetIn(p) = Pairs(s, A)

Complete(s, p, A) ==
    /\ Len(p) \in Nat \ {0} /\ p[Len(p)] = End
    /\ \A k \in 1..(Len(p) - 1) : p[k] \in Blocks(s)
    /\ SetIn(p) = Pairs(s, A)

-------------------------------------------------------------------------------
(* One part of a program after the other *)

LEMMA Joined ==
    ASSUME NEW B, NEW p \in Seq(B), NEW q \in Seq(B)
    PROVE  /\ p \o q \in Seq(B) /\ Len(p) \in Nat /\ Len(q) \in Nat
           /\ Len(p \o q) = Len(p) + Len(q)
           /\ \A k \in 1..Len(p) : (p \o q)[k] = p[k]
           /\ \A k \in 1..Len(q) : (p \o q)[Len(p) + k] = q[k]
OBVIOUS

\* A place of the whole is a place of one of the parts.
LEMMA JoinedPlaces ==
    ASSUME NEW m \in Nat, NEW n \in Nat, NEW k \in 1..(m + n)
    PROVE  k \in 1..m \/ \E j \in 1..n : k = m + j
<1>1. k \in 1..m \/ (k - m \in 1..n /\ k = m + (k - m))
  OBVIOUS
<1> QED
  BY <1>1

LEMMA SetInJoined ==
    ASSUME NEW B, NEW p \in Seq(B), NEW q \in Seq(B)
    PROVE  SetIn(p \o q) = SetIn(p) \cup SetIn(q)
<1> DEFINE r == p \o q
<1>1. /\ Len(p) \in Nat /\ Len(q) \in Nat /\ Len(r) = Len(p) + Len(q)
      /\ \A k \in 1..Len(p) : r[k] = p[k]
      /\ \A k \in 1..Len(q) : r[Len(p) + k] = q[k]
  BY Joined
<1> HIDE DEF r
<1>2. \A k \in 1..Len(p) : k \in 1..Len(r)
  BY <1>1
<1>3. \A k \in 1..Len(q) : Len(p) + k \in 1..Len(r)
  BY <1>1
<1>4. \A k \in 1..Len(r) : k \in 1..Len(p) \/ \E j \in 1..Len(q) : k = Len(p) + j
  BY <1>1, JoinedPlaces
<1>5. SetIn(p) \cup SetIn(q) \subseteq SetIn(r)
  BY <1>1, <1>2, <1>3 DEF SetIn
<1>6. SetIn(r) \subseteq SetIn(p) \cup SetIn(q)
  <2> SUFFICES ASSUME NEW k \in 1..Len(r)
               PROVE  SetBy(r[k]) \subseteq SetIn(p) \cup SetIn(q)
    BY DEF SetIn
  <2>1. CASE k \in 1..Len(p)
    BY <1>1, <2>1 DEF SetIn
  <2>2. ASSUME NEW j \in 1..Len(q), k = Len(p) + j
        PROVE  SetBy(r[k]) \subseteq SetIn(p) \cup SetIn(q)
    <3>1. r[k] = q[j]
      BY <1>1, <2>2
    <3> QED
      BY <3>1 DEF SetIn
  <2> QED
    BY <1>4, <2>1, <2>2
<1> QED
  BY <1>5, <1>6 DEF r

\* Parts without a setting block set nothing.
LEMMA StillSets ==
    ASSUME NEW s, NEW p \in Seq(Still(s))
    PROVE  Sets(s, p, {})
<1>1. p \in Seq(Blocks(s))
  <2>1. Still(s) \subseteq Blocks(s)
    BY DEF Blocks
  <2> QED
    BY <2>1
<1>2. \A b \in Still(s) : SetBy(b) = {}
  BY DEF Still, Plain, Moves, MoveOps, ModeWords, WorkSystems, Assigns, SetBy
<1>3. \A k \in 1..Len(p) : p[k] \in Still(s)
  OBVIOUS
<1>4. SetIn(p) = {}
  BY <1>2, <1>3 DEF SetIn
<1> QED
  BY <1>1, <1>4 DEF Sets, Pairs

\* A part after a part sets what the two set.
LEMMA SetsJoined ==
    ASSUME NEW s, NEW A, NEW B, NEW p, NEW q, Sets(s, p, A), Sets(s, q, B)
    PROVE  Sets(s, p \o q, A \cup B)
<1>1. p \in Seq(Blocks(s)) /\ q \in Seq(Blocks(s))
  BY DEF Sets
<1>2. p \o q \in Seq(Blocks(s)) /\ SetIn(p \o q) = SetIn(p) \cup SetIn(q)
  BY <1>1, Joined, SetInJoined
<1> QED
  BY <1>2 DEF Sets, Pairs

LEMMA SetsAfter ==
    ASSUME NEW s, NEW A, NEW p \in Seq(Still(s)), NEW q, Sets(s, q, A)
    PROVE  Sets(s, p \o q, A)
<1>1. Sets(s, p \o q, {} \cup A)
  BY StillSets, SetsJoined
<1>2. {} \cup A = A
  OBVIOUS
<1> QED
  BY <1>1, <1>2

LEMMA SetsBefore ==
    ASSUME NEW s, NEW A, NEW p, Sets(s, p, A), NEW q \in Seq(Still(s))
    PROVE  Sets(s, p \o q, A)
<1>1. Sets(s, p \o q, A \cup {})
  BY StillSets, SetsJoined
<1>2. A \cup {} = A
  OBVIOUS
<1> QED
  BY <1>1, <1>2

\* The footer completes a program.
LEMMA FooterCompletes ==
    ASSUME NEW s, NEW A, NEW p, Sets(s, p, A)
    PROVE  Complete(s, p \o Footer, A)
<1> DEFINE All == Blocks(s) \cup {End}
           f == Footer
           r == p \o f
<1>1. /\ f = <<[op |-> "G91"]>> \o <<[op |-> "G28"]>> \o <<End>>
      /\ Len(f) = 3
      /\ f[1] = [op |-> "G91"] /\ f[2] = [op |-> "G28"] /\ f[3] = End
  <2>1. ASSUME NEW x, NEW y, NEW z
        PROVE  /\ Len(<<x>> \o <<y>> \o <<z>>) = 3
               /\ (<<x>> \o <<y>> \o <<z>>)[1] = x
               /\ (<<x>> \o <<y>> \o <<z>>)[2] = y
               /\ (<<x>> \o <<y>> \o <<z>>)[3] = z
    OBVIOUS
  <2> QED
    BY <2>1 DEF Footer, Word, End
<1>2. /\ [op |-> "G91"] \in Blocks(s) /\ [op |-> "G28"] \in Blocks(s)
  BY DEF Blocks, Still, ModeWords
<1>3. /\ f \in Seq(All) /\ Len(f) = 3
      /\ f[1] \in Blocks(s) /\ f[2] \in Blocks(s) /\ f[3] = End
  <2>1. /\ <<[op |-> "G91"]>> \in Seq(All) /\ <<[op |-> "G28"]>> \in Seq(All)
        /\ <<End>> \in Seq(All)
    BY <1>2
  <2>2. f \in Seq(All)
    BY <1>1, <2>1
  <2> QED
    BY <1>1, <1>2, <2>2
<1>4. p \in Seq(All) /\ Len(p) \in Nat /\ \A k \in 1..Len(p) : p[k] \in Blocks(s)
  <2>1. p \in Seq(Blocks(s)) /\ Blocks(s) \subseteq All
    BY DEF Sets
  <2> QED
    BY <2>1
<1>5. SetIn(f) = {}
  <2>1. \A k \in 1..Len(f) : f[k].op \in {"G91", "G28", "M30"}
    BY <1>1 DEF End
  <2> QED
    BY <2>1 DEF SetIn, SetBy
<1> HIDE DEF All, f
<1>6. /\ Len(r) = Len(p) + 3
      /\ \A k \in 1..Len(p) : r[k] = p[k]
      /\ \A k \in 1..3 : r[Len(p) + k] = f[k]
      /\ SetIn(r) = SetIn(p) \cup SetIn(f)
  <2>1. SetIn(r) = SetIn(p) \cup SetIn(f)
    BY <1>3, <1>4, SetInJoined
  <2>2. /\ Len(p \o f) = Len(p) + Len(f)
        /\ \A k \in 1..Len(p) : (p \o f)[k] = p[k]
        /\ \A k \in 1..Len(f) : (p \o f)[Len(p) + k] = f[k]
    <3>1. p \in Seq(All) /\ f \in Seq(All)
      BY <1>3, <1>4
    <3> QED
      BY <3>1, Joined
  <2> QED
    BY <1>3, <2>1, <2>2
<1> HIDE DEF r
<1>7. r[Len(r)] = End /\ Len(r) \in Nat \ {0}
  BY <1>3, <1>4, <1>6
<1>8. ASSUME NEW k \in 1..(Len(r) - 1) PROVE r[k] \in Blocks(s)
  <2>1. k \in 1..Len(p) \/ k = Len(p) + 1 \/ k = Len(p) + 2
    BY <1>4, <1>6
  <2> QED
    BY <1>3, <1>4, <1>6, <2>1
<1>9. SetIn(r) = Pairs(s, A)
  BY <1>5, <1>6 DEF Sets
<1>10. Complete(s, r, A)
  BY <1>7, <1>8, <1>9 DEF Complete
<1> QED
  BY <1>10 DEF r, f

-------------------------------------------------------------------------------
(* The parts that the generators put together *)

LEMMA PlainParts ==
    /\ \A a \in Axes, v \in Int : /\ Rapid(a, v) \in Seq(Plain)
                                  /\ Feed(a, v) \in Seq(Plain)
                                  /\ Probe(a, v) \in Seq(Plain)
    /\ \A to \in Targets : Move("G00", to) \in Seq(Plain)
    /\ \A n \in Int, a \in Axes : Read(n, a) \in Seq(Plain)
    /\ \A n, l, r \in Int : Mid(n, l, r) \in Seq(Plain)
    /\ \A n, d \in Int : Shift(n, d) \in Seq(Plain)
<1>1. \A b \in Plain : <<b>> \in Seq(Plain)
  OBVIOUS
<1>2. \A a \in Axes, v \in Int : To(a, v) \in Targets
  <2> TAKE a \in Axes, v \in Int
  <2>1. To(a, v) \in [{a} -> Int] /\ {a} \in SUBSET Axes
    BY DEF To
  <2> QED
    BY <2>1 DEF Targets
<1>3. \A g \in MoveOps, to \in Targets : [op |-> g, to |-> to] \in Plain
  BY DEF Plain, Moves
<1>4. \A n \in Int, a \in Axes : [op |-> "read", var |-> n, axis |-> a] \in Plain
  BY DEF Plain, Assigns
<1>5. \A n, l, r \in Int : [op |-> "mid", var |-> n, of |-> <<l, r>>] \in Plain
  BY DEF Plain, Assigns
<1>6. \A n, d \in Int : [op |-> "shift", var |-> n, by |-> d] \in Plain
  BY DEF Plain, Assigns
<1>7. /\ \A to \in Targets : Move("G00", to) \in Seq(Plain)
      /\ \A a \in Axes, v \in Int : /\ Rapid(a, v) \in Seq(Plain)
                                    /\ Feed(a, v) \in Seq(Plain)
                                    /\ Probe(a, v) \in Seq(Plain)
  BY <1>1, <1>2, <1>3 DEF Move, Rapid, Feed, Probe, MoveOps
<1>8. /\ \A n \in Int, a \in Axes : Read(n, a) \in Seq(Plain)
      /\ \A n, l, r \in Int : Mid(n, l, r) \in Seq(Plain)
      /\ \A n, d \in Int : Shift(n, d) \in Seq(Plain)
  BY <1>1, <1>4, <1>5, <1>6 DEF Read, Mid, Shift
<1> QED
  BY <1>7, <1>8

LEMMA PlainIsStill ==
    ASSUME NEW s, NEW p \in Seq(Plain) PROVE p \in Seq(Still(s))
<1>1. Plain \subseteq Still(s)
  BY DEF Still
<1> QED
  BY <1>1

LEMMA StillParts ==
    ASSUME NEW s
    PROVE  /\ \A a \in Axes, v \in Int : /\ Rapid(a, v) \in Seq(Still(s))
                                         /\ Feed(a, v) \in Seq(Still(s))
                                         /\ Probe(a, v) \in Seq(Still(s))
           /\ \A to \in Targets : Move("G00", to) \in Seq(Still(s))
           /\ \A w \in {"G90", "G91"} : Word(w) \in Seq(Still(s))
           /\ s.wcs \in WorkSystems => Word(s.wcs) \in Seq(Still(s))
           /\ \A n \in Int, a \in Axes : Read(n, a) \in Seq(Still(s))
           /\ \A n, l, r \in Int : Mid(n, l, r) \in Seq(Still(s))
           /\ \A n, d \in Int : Shift(n, d) \in Seq(Still(s))
           /\ Header(TRUE) \in Seq(Still(s)) /\ Header(FALSE) \in Seq(Still(s))
<1>1. \A b \in Still(s) : <<b>> \in Seq(Still(s))
  OBVIOUS
<1>2. \A w \in {"G90", "G91"} \cup (WorkSystems \cap {s.wcs}) : [op |-> w] \in Still(s)
  BY DEF Still, ModeWords
<1>3. /\ \A w \in {"G90", "G91"} : Word(w) \in Seq(Still(s))
      /\ s.wcs \in WorkSystems => Word(s.wcs) \in Seq(Still(s))
      /\ Header(TRUE) \in Seq(Still(s)) /\ Header(FALSE) \in Seq(Still(s))
  BY <1>1, <1>2 DEF Word, Header
<1> QED
  BY <1>3, PlainParts, PlainIsStill

LEMMA Numbers ==
    /\ 0 \in Int /\ 100 \in Int /\ 101 \in Int /\ 102 \in Int /\ 103 \in Int
    /\ 104 \in Int /\ 110 \in Int /\ 111 \in Int
OBVIOUS

LEMMA MidsStill ==
    ASSUME NEW s
    PROVE  /\ 100 \in Int /\ 101 \in Int /\ 103 \in Int
           /\ Mid(110, 101, 102) \in Seq(Still(s))
           /\ Mid(111, 103, 104) \in Seq(Still(s))
BY StillParts, Numbers

\* Setting one axis with G10, or the axes of a macro.
LEMMA SettingParts ==
    ASSUME NEW s
    PROVE  /\ \A a \in Axes, n \in Int : Sets(s, SetWcs(s, a, n), {a})
           /\ \A A \in SUBSET Axes : Sets(s, Macro(s, A), A)
<1>1. ASSUME NEW b \in Blocks(s), NEW A, SetBy(b) = Pairs(s, A)
      PROVE  Sets(s, <<b>>, A)
  <2>1. <<b>> \in Seq(Blocks(s)) /\ Len(<<b>>) = 1 /\ <<b>>[1] = b
    OBVIOUS
  <2>2. 1..1 = {1}
    OBVIOUS
  <2>3. SetIn(<<b>>) = SetBy(b)
    BY <2>1, <2>2 DEF SetIn
  <2> QED
    BY <1>1, <2>1, <2>3 DEF Sets
<1>2. ASSUME NEW a \in Axes, NEW n \in Int PROVE Sets(s, SetWcs(s, a, n), {a})
  <2> DEFINE b == [op |-> "G10", wcs |-> System(s), axis |-> a, var |-> n]
  <2>1. CASE s.set_wcs
    <3>1. SetWcs(s, a, n) = <<b>>
      BY <2>1 DEF SetWcs, When
    <3>2. b \in Blocks(s)
      BY <2>1 DEF Blocks, G10s
    <3>3. SetBy(b) = Pairs(s, {a})
      BY <2>1 DEF SetBy, Pairs
    <3> QED
      BY <1>1, <3>1, <3>2, <3>3
  <2>2. CASE ~s.set_wcs
    <3>1. SetWcs(s, a, n) = <<>>
      BY <2>2 DEF SetWcs, When
    <3>2. SetIn(<<>>) = {} /\ <<>> \in Seq(Blocks(s)) /\ Pairs(s, {a}) = {}
      BY <2>2 DEF SetIn, Pairs
    <3> QED
      BY <3>1, <3>2 DEF Sets
  <2> QED
    BY <2>1, <2>2
<1>3. ASSUME NEW A \in SUBSET Axes PROVE Sets(s, Macro(s, A), A)
  <2> DEFINE b == [op |-> "G65", axes |-> A, wcs |-> System(s), set |-> s.set_wcs]
  <2>1. b \in Blocks(s)
    BY DEF Blocks, Macros
  <2>2. SetBy(b) = Pairs(s, A)
    BY DEF SetBy, Pairs
  <2> QED
    BY <1>1, <2>1, <2>2 DEF Macro
<1> QED
  BY <1>2, <1>3

-------------------------------------------------------------------------------
(* What each generator sets *)

LEMMA StillJoined ==
    ASSUME NEW s, NEW p, NEW q, p \in Seq(Still(s)), q \in Seq(Still(s))
    PROVE  p \o q \in Seq(Still(s))
OBVIOUS

\* What several generators begin with and repeat.
LEMMA Touching ==
    ASSUME NEW s
    PROVE  /\ \A z \in Int : s.clearance \in Int => Descend(s, z) \in Seq(Still(s))
           /\ \A a \in Axes : \A from, target, n, back \in Int :
                Touch(a, from, target, n, back) \in Seq(Still(s))
<1>1. ASSUME NEW z \in Int, s.clearance \in Int
      PROVE  Descend(s, z) \in Seq(Still(s))
  <2>1. Rapid("Z", s.clearance) \in Seq(Still(s)) /\ Rapid("Z", z) \in Seq(Still(s))
    BY <1>1, StillParts DEF Axes
  <2> QED
    BY <2>1 DEF Descend
<1>2. ASSUME NEW a \in Axes, NEW from \in Int, NEW target \in Int,
             NEW n \in Int, NEW back \in Int
      PROVE  Touch(a, from, target, n, back) \in Seq(Still(s))
  <2>1. /\ Rapid(a, from) \in Seq(Still(s)) /\ Probe(a, target) \in Seq(Still(s))
        /\ Read(n, a) \in Seq(Still(s)) /\ Rapid(a, back) \in Seq(Still(s))
    BY StillParts
  <2> QED
    BY <2>1 DEF Touch
<1> QED
  BY <1>1, <1>2

LEMMA SafeType == ASSUME NEW half \in Int PROVE Safe(half) \in Int
BY DEF Safe

LEMMA SingleSurfaceSets ==
    ASSUME NEW s, s.cycle = "single_surface", Request(s)
    PROVE  Complete(s, SingleSurface(s), {s.axis})
<1> DEFINE sign == IF s.direction = "-" THEN -1 ELSE 1
           approach == Rapid(s.axis, s.approach_pos)
           lead == Header(FALSE) \o approach
           manual == Probe(s.axis, s.expected_pos - sign * 50) \o Read(100, s.axis)
                     \o approach
           body == IF s.mode = "renishaw" THEN Macro(s, {s.axis})
                   ELSE manual \o SetWcs(s, s.axis, 100)
<1>1. s.axis \in Axes /\ s.approach_pos \in Int /\ s.expected_pos \in Int
  BY DEF Request, Parameters
<1>2. s.expected_pos - sign * 50 \in Int
  BY <1>1
<1>3. /\ Header(FALSE) \in Seq(Still(s)) /\ approach \in Seq(Still(s))
      /\ Probe(s.axis, s.expected_pos - sign * 50) \in Seq(Still(s))
      /\ Read(100, s.axis) \in Seq(Still(s))
  BY <1>1, <1>2, StillParts, Numbers
<1> HIDE DEF approach, sign
<1>4. lead \in Seq(Still(s)) /\ manual \in Seq(Still(s))
  BY ONLY <1>3, StillJoined
<1> HIDE DEF lead, manual
<1>5. Sets(s, body, {s.axis})
  <2>1. Sets(s, manual \o SetWcs(s, s.axis, 100), {s.axis})
    <3>1. Sets(s, SetWcs(s, s.axis, 100), {s.axis})
      BY <1>1, SettingParts, Numbers
    <3> QED
      BY <1>4, <3>1, SetsAfter
  <2>2. Sets(s, Macro(s, {s.axis}), {s.axis})
    BY <1>1, SettingParts
  <2> QED
    BY <2>1, <2>2
<1>6. Sets(s, lead \o body, {s.axis})
  BY <1>4, <1>5, SetsAfter
<1>7. Complete(s, (lead \o body) \o Footer, {s.axis})
  BY <1>6, FooterCompletes
<1> QED
  BY <1>7 DEF SingleSurface, lead, manual, approach, sign

\* The two settings at the end of a cycle that measures X and Y.
LEMMA BothSet ==
    ASSUME NEW s, NEW p \in Seq(Still(s)), NEW n \in Int, NEW m \in Int
    PROVE  Sets(s, p \o SetWcs(s, "X", n) \o SetWcs(s, "Y", m), {"X", "Y"})
<1>1. "X" \in Axes /\ "Y" \in Axes
  BY DEF Axes
<1>2. Sets(s, p \o SetWcs(s, "X", n), {"X"})
  BY <1>1, SettingParts, SetsAfter
<1>3. Sets(s, SetWcs(s, "Y", m), {"Y"})
  BY <1>1, SettingParts
<1>4. Sets(s, (p \o SetWcs(s, "X", n)) \o SetWcs(s, "Y", m), {"X"} \cup {"Y"})
  BY <1>2, <1>3, SetsJoined
<1>5. {"X"} \cup {"Y"} = {"X", "Y"}
  OBVIOUS
<1> QED
  BY <1>4, <1>5

LEMMA BoreSets ==
    ASSUME NEW s, s.cycle = "bore", Request(s)
    PROVE  Complete(s, Bore(s), {"X", "Y"})
<1> DEFINE half == s.diameter \div 2
           safe == Safe(half)
           lead == Header(FALSE) \o Descend(s, s.depth)
           right == Touch("X", -safe, half + 10, 101, -safe)
           left == Touch("X", safe, -(half + 10), 102, safe)
           to == Move("G00", [X |-> 0, Y |-> -safe])
           front == Touch("Y", safe, -(half + 10), 104, 0)
           manual == right \o left \o to \o Probe("Y", half + 10) \o Read(103, "Y")
                     \o Rapid("Y", -safe) \o front \o Mid(110, 101, 102)
                     \o Mid(111, 103, 104)
           body == IF s.mode = "renishaw" THEN Macro(s, {"X", "Y"})
                   ELSE manual \o SetWcs(s, "X", 110) \o SetWcs(s, "Y", 111)
           raise == Rapid("Z", s.clearance)
<1>1. /\ s.clearance \in Int /\ s.diameter \in Int /\ s.depth \in Int
      /\ "X" \in Axes /\ "Y" \in Axes /\ "Z" \in Axes
  BY DEF Request, Parameters, Axes
<1>2. half \in Int /\ half + 10 \in Int /\ -(half + 10) \in Int
  BY <1>1
<1>3. safe \in Int /\ -safe \in Int
  BY <1>2, SafeType
<1>4. /\ Header(FALSE) \in Seq(Still(s)) /\ Descend(s, s.depth) \in Seq(Still(s))
      /\ raise \in Seq(Still(s))
  BY <1>1, StillParts, Touching
<1> HIDE DEF half, safe
<1>5. /\ right \in Seq(Still(s)) /\ left \in Seq(Still(s))
      /\ front \in Seq(Still(s))
  BY <1>1, <1>2, <1>3, Touching, Numbers
<1>6. to \in Seq(Still(s))
  <2>1. [X |-> 0, Y |-> -safe] \in [{"X", "Y"} -> Int] /\ {"X", "Y"} \in SUBSET Axes
    BY <1>1, <1>3
  <2> QED
    BY <2>1, StillParts DEF Targets
<1> HIDE DEF right, left, front, to
<1>7. lead \in Seq(Still(s)) /\ manual \in Seq(Still(s))
  <2>1. /\ Probe("Y", half + 10) \in Seq(Still(s)) /\ Read(103, "Y") \in Seq(Still(s))
        /\ Rapid("Y", -safe) \in Seq(Still(s))
        /\ Mid(110, 101, 102) \in Seq(Still(s))
        /\ Mid(111, 103, 104) \in Seq(Still(s))
    BY <1>1, <1>2, <1>3, StillParts, MidsStill
  <2>2. right \o left \o to \o Probe("Y", half + 10) \o Read(103, "Y")
          \in Seq(Still(s))
    BY ONLY <1>5, <1>6, <2>1, StillJoined
  <2>3. manual \in Seq(Still(s))
    BY ONLY <1>5, <2>1, <2>2, StillJoined
  <2> QED
    BY ONLY <1>4, <2>3, StillJoined
<1> HIDE DEF manual
<1>8. Sets(s, body, {"X", "Y"})
  <2>1. Sets(s, manual \o SetWcs(s, "X", 110) \o SetWcs(s, "Y", 111), {"X", "Y"})
    BY <1>7, BothSet, Numbers
  <2>2. Sets(s, Macro(s, {"X", "Y"}), {"X", "Y"})
    BY <1>1, SettingParts
  <2> QED
    BY <2>1, <2>2
<1> HIDE DEF lead, body, raise
<1>9. Sets(s, (lead \o body) \o raise, {"X", "Y"})
  <2>1. Sets(s, lead \o body, {"X", "Y"})
    BY <1>7, <1>8, SetsAfter
  <2> QED
    BY <1>4, <2>1, SetsBefore
<1>10. Complete(s, ((lead \o body) \o raise) \o Footer, {"X", "Y"})
  BY <1>9, FooterCompletes
<1> QED
  BY <1>10 DEF Bore, lead, body, raise, manual, right, left, to, front, half, safe

\* A generator's frame: what leads to the measuring, what follows it.
LEMMA Framed ==
    ASSUME NEW s, NEW A, NEW lead, NEW body, NEW raise,
           lead \in Seq(Still(s)), Sets(s, body, A), raise \in Seq(Still(s))
    PROVE  /\ Complete(s, lead \o body \o Footer, A)
           /\ Complete(s, lead \o body \o raise \o Footer, A)
<1>1. Sets(s, lead \o body, A)
  BY SetsAfter
<1>2. Sets(s, lead \o body \o raise, A)
  BY <1>1, SetsBefore
<1> QED
  BY <1>1, <1>2, FooterCompletes

LEMMA AxesNames == "X" \in Axes /\ "Y" \in Axes /\ "Z" \in Axes
BY DEF Axes

LEMMA BossSideStill ==
    ASSUME NEW s, s.clearance \in Int, s.probe_z \in Int,
           NEW to, to \in Targets, NEW a \in Axes, NEW n \in Int
    PROVE  BossSide(s, to, a, n) \in Seq(Still(s))
<1>1. /\ Move("G00", to) \in Seq(Still(s)) /\ Rapid("Z", s.probe_z) \in Seq(Still(s))
      /\ Probe(a, 0) \in Seq(Still(s)) /\ Read(n, a) \in Seq(Still(s))
      /\ Rapid("Z", s.clearance) \in Seq(Still(s))
  BY StillParts, Numbers, AxesNames
<1>2. Move("G00", to) \o Rapid("Z", s.probe_z) \o Probe(a, 0) \o Read(n, a)
        \o Rapid("Z", s.clearance) \in Seq(Still(s))
  BY ONLY <1>1, StillJoined
<1> QED
  BY <1>2 DEF BossSide

LEMMA BossSets ==
    ASSUME NEW s, s.cycle = "boss", Request(s)
    PROVE  Complete(s, Boss(s), {"X", "Y"})
<1> DEFINE over == s.diameter \div 2 + 20
           lead == Header(FALSE) \o Rapid("Z", s.clearance)
           side1 == BossSide(s, [X |-> -over, Y |-> 0], "X", 101)
           side2 == BossSide(s, [X |-> over], "X", 102)
           side3 == BossSide(s, [X |-> 0, Y |-> -over], "Y", 103)
           side4 == BossSide(s, [Y |-> over], "Y", 104)
           manual == side1 \o side2 \o side3 \o side4
                     \o Mid(110, 101, 102) \o Mid(111, 103, 104)
           body == IF s.mode = "renishaw" THEN Macro(s, {"X", "Y"})
                   ELSE manual \o SetWcs(s, "X", 110) \o SetWcs(s, "Y", 111)
<1>1. s.clearance \in Int /\ s.diameter \in Int /\ s.probe_z \in Int
  BY DEF Request, Parameters
<1>2. over \in Int /\ -over \in Int
  BY <1>1
<1> HIDE DEF over
<1>3. /\ [X |-> -over, Y |-> 0] \in Targets /\ [X |-> over] \in Targets
      /\ [X |-> 0, Y |-> -over] \in Targets /\ [Y |-> over] \in Targets
  <2>1. /\ {"X", "Y"} \in SUBSET Axes /\ {"X"} \in SUBSET Axes
        /\ {"Y"} \in SUBSET Axes
    BY AxesNames
  <2>2. /\ [X |-> -over, Y |-> 0] \in [{"X", "Y"} -> Int]
        /\ [X |-> 0, Y |-> -over] \in [{"X", "Y"} -> Int]
        /\ [X |-> over] \in [{"X"} -> Int] /\ [Y |-> over] \in [{"Y"} -> Int]
    BY <1>2
  <2> QED
    BY <2>1, <2>2 DEF Targets
<1>4. /\ side1 \in Seq(Still(s)) /\ side2 \in Seq(Still(s))
      /\ side3 \in Seq(Still(s)) /\ side4 \in Seq(Still(s))
  BY <1>1, <1>3, BossSideStill, Numbers, AxesNames
<1> HIDE DEF side1, side2, side3, side4
<1>5. lead \in Seq(Still(s)) /\ manual \in Seq(Still(s))
  <2>1. /\ Header(FALSE) \in Seq(Still(s))
        /\ Rapid("Z", s.clearance) \in Seq(Still(s))
        /\ Mid(110, 101, 102) \in Seq(Still(s))
        /\ Mid(111, 103, 104) \in Seq(Still(s))
    BY <1>1, StillParts, MidsStill, AxesNames
  <2>2. manual \in Seq(Still(s))
    BY ONLY <1>4, <2>1, StillJoined
  <2> QED
    BY ONLY <2>1, <2>2, StillJoined
<1> HIDE DEF lead, manual
<1>6. Sets(s, body, {"X", "Y"})
  <2>1. Sets(s, manual \o SetWcs(s, "X", 110) \o SetWcs(s, "Y", 111), {"X", "Y"})
    BY <1>5, BothSet, Numbers
  <2>2. Sets(s, Macro(s, {"X", "Y"}), {"X", "Y"})
    BY SettingParts, AxesNames
  <2> QED
    BY <2>1, <2>2
<1> HIDE DEF body
<1>7. Complete(s, lead \o body \o Footer, {"X", "Y"})
  BY <1>5, <1>6, Framed, StillParts
<1> QED
  BY <1>7 DEF Boss, lead, body, manual, side1, side2, side3, side4, over

LEMMA CornerSets ==
    ASSUME NEW s, s.cycle = "corner", Request(s)
    PROVE  Complete(s, Corner(s), {"X", "Y"})
<1> DEFINE x == XDir(s.corner) * s.distance
           y == YDir(s.corner) * s.distance
           lead == Header(FALSE) \o Descend(s, s.probe_z)
           manual == Touch("X", -x, x, 101, -x) \o Touch("Y", -y, y, 102, -y)
           body == IF s.mode = "renishaw" THEN Macro(s, {"X"}) \o Macro(s, {"Y"})
                   ELSE manual \o SetWcs(s, "X", 101) \o SetWcs(s, "Y", 102)
           raise == Rapid("Z", s.clearance)
<1>1. s.clearance \in Int /\ s.distance \in Int /\ s.probe_z \in Int
  BY DEF Request, Parameters
<1>2. x \in Int /\ -x \in Int /\ y \in Int /\ -y \in Int
  <2>1. XDir(s.corner) \in {1, -1} /\ YDir(s.corner) \in {1, -1}
    BY DEF XDir, YDir
  <2> QED
    BY <1>1, <2>1
<1> HIDE DEF x, y
<1>3. lead \in Seq(Still(s)) /\ manual \in Seq(Still(s)) /\ raise \in Seq(Still(s))
  <2>1. /\ Header(FALSE) \in Seq(Still(s)) /\ Descend(s, s.probe_z) \in Seq(Still(s))
        /\ raise \in Seq(Still(s))
    BY <1>1, StillParts, Touching, AxesNames
  <2>2. /\ Touch("X", -x, x, 101, -x) \in Seq(Still(s))
        /\ Touch("Y", -y, y, 102, -y) \in Seq(Still(s))
    BY <1>2, Touching, AxesNames, Numbers
  <2> QED
    BY ONLY <2>1, <2>2, StillJoined
<1> HIDE DEF lead, manual, raise
<1>4. Sets(s, body, {"X", "Y"})
  <2>1. Sets(s, manual \o SetWcs(s, "X", 101) \o SetWcs(s, "Y", 102), {"X", "Y"})
    BY <1>3, BothSet, Numbers
  <2>2. Sets(s, Macro(s, {"X"}) \o Macro(s, {"Y"}), {"X"} \cup {"Y"})
    BY SettingParts, AxesNames, SetsJoined
  <2>3. {"X"} \cup {"Y"} = {"X", "Y"}
    OBVIOUS
  <2> QED
    BY <2>1, <2>2, <2>3
<1> HIDE DEF body
<1>5. Complete(s, lead \o body \o raise \o Footer, {"X", "Y"})
  BY <1>3, <1>4, Framed
<1> QED
  BY <1>5 DEF Corner, lead, body, raise, manual, x, y

LEMMA PocketWidthSets ==
    ASSUME NEW s, s.cycle = "pocket_width", Request(s)
    PROVE  Complete(s, PocketWidth(s), {s.axis})
<1> DEFINE half == s.width \div 2
           safe == Safe(half)
           lead == Header(FALSE) \o Descend(s, s.depth)
           manual == Touch(s.axis, -safe, half + 10, 101, -safe)
                     \o Touch(s.axis, safe, -(half + 10), 102, 0)
                     \o Mid(110, 101, 102)
           body == IF s.mode = "renishaw" THEN Macro(s, {s.axis})
                   ELSE manual \o SetWcs(s, s.axis, 110)
           raise == Rapid("Z", s.clearance)
<1>1. s.clearance \in Int /\ s.width \in Int /\ s.depth \in Int /\ s.axis \in Axes
  BY DEF Request, Parameters
<1>2. half \in Int /\ half + 10 \in Int /\ -(half + 10) \in Int
  BY <1>1
<1>3. safe \in Int /\ -safe \in Int
  BY <1>2, SafeType
<1> HIDE DEF half, safe
<1>4. lead \in Seq(Still(s)) /\ manual \in Seq(Still(s)) /\ raise \in Seq(Still(s))
  <2>1. /\ Header(FALSE) \in Seq(Still(s)) /\ Descend(s, s.depth) \in Seq(Still(s))
        /\ Mid(110, 101, 102) \in Seq(Still(s)) /\ raise \in Seq(Still(s))
    BY <1>1, StillParts, Touching, AxesNames, Numbers
  <2>2. /\ Touch(s.axis, -safe, half + 10, 101, -safe) \in Seq(Still(s))
        /\ Touch(s.axis, safe, -(half + 10), 102, 0) \in Seq(Still(s))
    BY <1>1, <1>2, <1>3, Touching, Numbers
  <2> QED
    BY ONLY <2>1, <2>2, StillJoined
<1> HIDE DEF lead, manual, raise
<1>5. Sets(s, body, {s.axis})
  <2>1. Sets(s, SetWcs(s, s.axis, 110), {s.axis})
    BY <1>1, SettingParts, Numbers
  <2>2. Sets(s, manual \o SetWcs(s, s.axis, 110), {s.axis})
    BY <1>4, <2>1, SetsAfter
  <2>3. Sets(s, Macro(s, {s.axis}), {s.axis})
    BY <1>1, SettingParts
  <2> QED
    BY <2>2, <2>3
<1> HIDE DEF body
<1>6. Complete(s, lead \o body \o raise \o Footer, {s.axis})
  BY <1>4, <1>5, Framed
<1> QED
  BY <1>6 DEF PocketWidth, lead, body, raise, manual, half, safe

\* What the outside box cycle needs of its request.
BoxRequest(s) ==
    /\ s.clearance \in Int /\ s.x_width \in Int /\ s.y_width \in Int
    /\ s.probe_z \in Int /\ s.safety \in Int /\ s.retract \in Int /\ s.z_offset \in Int
    /\ s.set_wcs \in BOOLEAN /\ s.probe_top \in BOOLEAN /\ s.wcs \in WorkSystems

\* The top is measured when the request says so.
Top(s) == {a \in {"Z"} : s.probe_top}

LEMMA Nothing == ASSUME NEW s PROVE <<>> \in Seq(Still(s)) /\ Sets(s, <<>>, {})
<1>1. <<>> \in Seq(Still(s))
  OBVIOUS
<1> QED
  BY <1>1, StillSets

\* Without set_wcs a part that sets nothing sets all there is to set.
LEMMA NothingToSet ==
    ASSUME NEW s, ~s.set_wcs, NEW p \in Seq(Still(s)), NEW A
    PROVE  Sets(s, p, A)
<1>1. Sets(s, p, {})
  BY StillSets
<1> QED
  BY <1>1 DEF Sets, Pairs

LEMMA PlainJoined ==
    ASSUME NEW p, NEW q, p \in Seq(Plain), q \in Seq(Plain)
    PROVE  p \o q \in Seq(Plain)
OBVIOUS

LEMMA DoubleTouchPlain ==
    ASSUME NEW s, s.retract \in Int, NEW a \in Axes, NEW d \in Int,
           NEW reach \in Int, NEW n \in Int
    PROVE  DoubleTouch(s, a, d, reach, n) \in Seq(Plain)
<1>1. d * reach \in Int /\ -d * s.retract \in Int /\ d * (s.retract + 1) \in Int
  OBVIOUS
<1>2. When(a # "Z", Read(n, a)) \in Seq(Plain)
  <2>1. Read(n, a) \in Seq(Plain) /\ <<>> \in Seq(Plain)
    BY PlainParts
  <2>2. CASE a # "Z"
    BY <2>1, <2>2 DEF When
  <2>3. CASE a = "Z"
    BY <2>1, <2>3 DEF When
  <2> QED
    BY <2>2, <2>3
<1>3. /\ Probe(a, d * reach) \in Seq(Plain)
      /\ Feed(a, -d * s.retract) \in Seq(Plain)
      /\ Probe(a, d * (s.retract + 1)) \in Seq(Plain)
      /\ Read(n, a) \in Seq(Plain)
  BY <1>1, PlainParts
<1>4. Probe(a, d * reach) \o When(a # "Z", Read(n, a)) \o Feed(a, -d * s.retract)
      \o Probe(a, d * (s.retract + 1)) \o Read(n, a) \in Seq(Plain)
  BY ONLY <1>2, <1>3, PlainJoined
<1> QED
  BY <1>4 DEF DoubleTouch

LEMMA DoubleTouchStill ==
    ASSUME NEW s, s.retract \in Int, NEW a \in Axes, NEW d \in Int,
           NEW reach \in Int, NEW n \in Int
    PROVE  DoubleTouch(s, a, d, reach, n) \in Seq(Still(s))
BY DoubleTouchPlain, PlainIsStill

LEMMA AbsZStill ==
    ASSUME NEW s, NEW z \in Int
    PROVE  AbsZ(z) \in Seq(Still(s)) /\ Word("G90") \in Seq(Still(s))
           /\ Word("G91") \in Seq(Still(s))
<1>1. Word("G90") \in Seq(Still(s)) /\ Word("G91") \in Seq(Still(s))
  BY StillParts
<1>2. Rapid("Z", z) \in Seq(Still(s))
  BY StillParts, AxesNames
<1>3. Word("G90") \o Rapid("Z", z) \in Seq(Still(s))
  BY ONLY <1>1, <1>2, StillJoined
<1> QED
  BY <1>1, <1>3 DEF AbsZ

LEMMA SidesSets ==
    ASSUME NEW s, BoxRequest(s), NEW a \in Axes, NEW width \in Int, NEW m \in Int
    PROVE  Sets(s, Sides(s, a, width, m), {a})
<1> DEFINE reach == width \div 2 + 2 * s.safety
           n == 110 + (m - 100) \div 2
           first == DoubleTouch(s, a, -1, reach, m + 1)
           over == Rapid(a, -(width + 2 * s.safety))
           second == DoubleTouch(s, a, 1, reach, m + 2)
           part == Word("G91") \o first \o AbsZ(s.clearance) \o Word("G91") \o over
                   \o AbsZ(s.probe_z)
           still == part \o Word("G91") \o second \o Mid(n, m + 1, m + 2)
                    \o AbsZ(s.clearance)
<1>1. /\ reach \in Int /\ n \in Int /\ -(width + 2 * s.safety) \in Int
      /\ m + 1 \in Int /\ m + 2 \in Int /\ -1 \in Int /\ 1 \in Int
      /\ s.clearance \in Int /\ s.probe_z \in Int /\ s.retract \in Int
  BY DEF BoxRequest
<1> HIDE DEF reach, n
<1>2. first \in Seq(Still(s)) /\ second \in Seq(Still(s))
  BY <1>1, DoubleTouchStill
<1>3. over \in Seq(Still(s)) /\ Mid(n, m + 1, m + 2) \in Seq(Still(s))
  BY <1>1, StillParts
<1>4. /\ AbsZ(s.clearance) \in Seq(Still(s)) /\ AbsZ(s.probe_z) \in Seq(Still(s))
      /\ Word("G91") \in Seq(Still(s))
  BY <1>1, AbsZStill
<1> HIDE DEF first, second, over
<1>5. part \in Seq(Still(s))
  BY ONLY <1>2, <1>3, <1>4, StillJoined
<1> HIDE DEF part
<1>6. still \in Seq(Still(s))
  BY ONLY <1>2, <1>3, <1>4, <1>5, StillJoined
<1> HIDE DEF still
<1>7. Sets(s, SetWcs(s, a, n), {a})
  BY <1>1, SettingParts
<1>8. Sets(s, still \o SetWcs(s, a, n), {a})
  BY <1>6, <1>7, SetsAfter
<1> QED
  BY <1>8 DEF Sides, still, part, first, over, second, reach, n

LEMMA XSidesSets ==
    ASSUME NEW s, BoxRequest(s)
    PROVE  Sets(s, XSides(s), {"X"})
<1> DEFINE over == s.x_width \div 2 + s.safety
           depth == IF s.probe_z < 0 THEN -s.probe_z ELSE s.probe_z
           down == IF s.probe_top /\ s.set_wcs THEN AbsZ(s.probe_z)
                   ELSE Rapid("Z", depth + s.clearance)
           lead == Word("G91") \o Rapid("X", over) \o down
<1>1. /\ over \in Int /\ depth + s.clearance \in Int /\ s.x_width \in Int
      /\ s.probe_z \in Int
  BY DEF BoxRequest
<1> HIDE DEF over, depth
<1>2. Rapid("X", over) \in Seq(Still(s)) /\ Word("G91") \in Seq(Still(s))
  BY <1>1, StillParts, AxesNames
<1>3. down \in Seq(Still(s))
  <2>1. /\ AbsZ(s.probe_z) \in Seq(Still(s))
        /\ Rapid("Z", depth + s.clearance) \in Seq(Still(s))
    BY <1>1, StillParts, AbsZStill, AxesNames
  <2> QED
    BY <2>1
<1> HIDE DEF down
<1>4. lead \in Seq(Still(s))
  BY ONLY <1>2, <1>3, StillJoined
<1> HIDE DEF lead
<1>5. Sets(s, Sides(s, "X", s.x_width, 100), {"X"})
  BY <1>1, SidesSets, Numbers, AxesNames
<1>6. Sets(s, lead \o Sides(s, "X", s.x_width, 100), {"X"})
  BY <1>4, <1>5, SetsAfter
<1> QED
  BY <1>6 DEF XSides, lead, down, over, depth

LEMMA YSidesSets ==
    ASSUME NEW s, BoxRequest(s)
    PROVE  Sets(s, YSides(s), {"Y"})
<1> DEFINE over == s.y_width \div 2 + s.safety
           centre == When(s.set_wcs, Word("G90") \o Rapid("X", 0))
           lead == centre \o Word("G91") \o Rapid("Y", over) \o AbsZ(s.probe_z)
<1>1. over \in Int /\ s.y_width \in Int /\ s.probe_z \in Int
  BY DEF BoxRequest
<1> HIDE DEF over
<1>2. /\ Rapid("X", 0) \in Seq(Still(s)) /\ Rapid("Y", over) \in Seq(Still(s))
      /\ Word("G90") \in Seq(Still(s)) /\ Word("G91") \in Seq(Still(s))
      /\ AbsZ(s.probe_z) \in Seq(Still(s)) /\ <<>> \in Seq(Still(s))
  BY <1>1, StillParts, AbsZStill, AxesNames, Numbers, Nothing
<1>3. centre \in Seq(Still(s))
  <2>1. Word("G90") \o Rapid("X", 0) \in Seq(Still(s))
    BY ONLY <1>2, StillJoined
  <2> QED
    BY <1>2, <2>1 DEF When
<1> HIDE DEF centre
<1>4. lead \in Seq(Still(s))
  BY ONLY <1>2, <1>3, StillJoined
<1> HIDE DEF lead
<1>5. Sets(s, Sides(s, "Y", s.y_width, 102), {"Y"})
  BY <1>1, SidesSets, Numbers, AxesNames
<1>6. Sets(s, lead \o Sides(s, "Y", s.y_width, 102), {"Y"})
  BY <1>4, <1>5, SetsAfter
<1> QED
  BY <1>6 DEF YSides, lead, centre, over

LEMMA ProbeTopSets ==
    ASSUME NEW s, BoxRequest(s)
    PROVE  Sets(s, ProbeTop(s), {"Z"})
<1> DEFINE touch == DoubleTouch(s, "Z", -1, 30, 100)
           shift == When(s.z_offset # 0, Shift(100, s.z_offset))
           after == SetWcs(s, "Z", 100)
<1>1. /\ touch \in Seq(Still(s)) /\ Feed("Z", s.retract) \in Seq(Still(s))
      /\ Word("G90") \in Seq(Still(s)) /\ Word(s.wcs) \in Seq(Still(s))
      /\ Rapid("Z", s.clearance) \in Seq(Still(s))
  <2>1. /\ s.retract \in Int /\ s.clearance \in Int /\ s.wcs \in WorkSystems
        /\ -1 \in Int /\ 30 \in Int
    BY DEF BoxRequest
  <2> QED
    BY <2>1, StillParts, DoubleTouchStill, AxesNames, Numbers
<1>2. shift \in Seq(Still(s))
  <2>1. Shift(100, s.z_offset) \in Seq(Still(s)) /\ <<>> \in Seq(Still(s))
    BY StillParts, Numbers, Nothing DEF BoxRequest
  <2>2. CASE s.z_offset # 0
    BY <2>1, <2>2 DEF When
  <2>3. CASE s.z_offset = 0
    BY <2>1, <2>3 DEF When
  <2> QED
    BY <2>2, <2>3
<1>3. Sets(s, after, {"Z"})
  BY SettingParts, AxesNames, Numbers
<1> HIDE DEF touch, shift, after
<1>4. CASE s.set_wcs
  <2> DEFINE rest == shift \o after \o Word("G90") \o Word(s.wcs)
                     \o Rapid("Z", s.clearance)
  <2>1. Sets(s, shift \o after, {"Z"})
    BY <1>2, <1>3, SetsAfter
  <2>2. Sets(s, (shift \o after) \o Word("G90"), {"Z"})
    BY <1>1, <2>1, SetsBefore
  <2>3. Sets(s, ((shift \o after) \o Word("G90")) \o Word(s.wcs), {"Z"})
    BY <1>1, <2>2, SetsBefore
  <2>4. Sets(s, rest, {"Z"})
    BY <1>1, <2>3, SetsBefore
  <2> HIDE DEF rest
  <2>5. Sets(s, touch \o rest, {"Z"})
    BY <1>1, <2>4, SetsAfter
  <2> QED
    BY <1>4, <2>5 DEF ProbeTop, touch, rest, shift, after
<1>5. CASE ~s.set_wcs
  <2>1. touch \o Feed("Z", s.retract) \in Seq(Still(s))
    BY ONLY <1>1, StillJoined
  <2>2. Sets(s, touch \o Feed("Z", s.retract), {"Z"})
    BY <1>5, <2>1, NothingToSet
  <2> QED
    BY <1>5, <2>2 DEF ProbeTop, touch
<1> QED
  BY <1>4, <1>5

LEMMA TopPart ==
    ASSUME NEW s, s.probe_top \in BOOLEAN, NEW p, Sets(s, p, {"Z"})
    PROVE  Sets(s, When(s.probe_top, p), Top(s))
<1>1. CASE s.probe_top
  <2>1. Top(s) = {"Z"} /\ When(s.probe_top, p) = p
    BY <1>1 DEF Top, When
  <2> QED
    BY <2>1
<1>2. CASE ~s.probe_top
  <2>1. Top(s) = {} /\ When(s.probe_top, p) = <<>>
    BY <1>2 DEF Top, When
  <2> QED
    BY <2>1, Nothing
<1> QED
  BY <1>1, <1>2

LEMMA RenishawBoxSets ==
    ASSUME NEW s, BoxRequest(s)
    PROVE  Sets(s, RenishawBox(s), {"X", "Y"} \cup Top(s))
<1> DEFINE raise == Rapid("Z", s.clearance)
           top == Macro(s, {"Z"}) \o Word("G91") \o raise
           start == When(s.probe_top, top)
<1>1. /\ raise \in Seq(Still(s)) /\ Rapid("Z", s.probe_z) \in Seq(Still(s))
      /\ AbsZ(s.probe_z) \in Seq(Still(s)) /\ Word("G91") \in Seq(Still(s))
  <2>1. s.clearance \in Int /\ s.probe_z \in Int
    BY DEF BoxRequest
  <2> QED
    BY <2>1, StillParts, AbsZStill, AxesNames
<1>2. /\ Sets(s, Macro(s, {"X"}), {"X"}) /\ Sets(s, Macro(s, {"Y"}), {"Y"})
      /\ Sets(s, Macro(s, {"Z"}), {"Z"})
  BY SettingParts, AxesNames
<1> HIDE DEF raise
<1>3. Sets(s, start, Top(s))
  <2>1. Sets(s, Macro(s, {"Z"}) \o Word("G91"), {"Z"})
    BY <1>1, <1>2, SetsBefore
  <2>2. Sets(s, top, {"Z"})
    BY <1>1, <2>1, SetsBefore
  <2> HIDE DEF top
  <2> QED
    BY <2>2, TopPart DEF BoxRequest
<1> HIDE DEF start
<1>4. Sets(s, start \o AbsZ(s.probe_z), Top(s))
  BY <1>1, <1>3, SetsBefore
<1>5. Sets(s, start \o AbsZ(s.probe_z) \o Macro(s, {"X"}), Top(s) \cup {"X"})
  BY <1>2, <1>4, SetsJoined
<1>6. Sets(s, start \o AbsZ(s.probe_z) \o Macro(s, {"X"}) \o raise, Top(s) \cup {"X"})
  BY <1>1, <1>5, SetsBefore
<1>7. Sets(s, start \o AbsZ(s.probe_z) \o Macro(s, {"X"}) \o raise
              \o Rapid("Z", s.probe_z), Top(s) \cup {"X"})
  BY <1>1, <1>6, SetsBefore
<1>8. Sets(s, start \o AbsZ(s.probe_z) \o Macro(s, {"X"}) \o raise
              \o Rapid("Z", s.probe_z) \o Macro(s, {"Y"}), (Top(s) \cup {"X"}) \cup {"Y"})
  BY <1>2, <1>7, SetsJoined
<1>9. Sets(s, start \o AbsZ(s.probe_z) \o Macro(s, {"X"}) \o raise
              \o Rapid("Z", s.probe_z) \o Macro(s, {"Y"}) \o raise,
           (Top(s) \cup {"X"}) \cup {"Y"})
  BY <1>1, <1>8, SetsBefore
<1>10. (Top(s) \cup {"X"}) \cup {"Y"} = {"X", "Y"} \cup Top(s)
  OBVIOUS
<1> QED
  BY <1>9, <1>10 DEF RenishawBox, start, top, raise

LEMMA OutsideBoxSets ==
    ASSUME NEW s, s.cycle = "outside_box", Request(s)
    PROVE  Complete(s, OutsideBox(s), {"X", "Y"} \cup Top(s))
<1> DEFINE start == When(s.probe_top, ProbeTop(s))
           home == When(s.set_wcs, Word("G90") \o Move("G00", [X |-> 0, Y |-> 0]))
           manual == start \o XSides(s) \o YSides(s) \o home
           lead == Header(TRUE) \o Word("G91")
           body == IF s.mode = "renishaw" THEN RenishawBox(s) ELSE manual
<1>1. BoxRequest(s)
  BY DEF Request, Parameters, BoxRequest
<1>2. home \in Seq(Still(s))
  <2>1. [X |-> 0, Y |-> 0] \in [{"X", "Y"} -> Int] /\ {"X", "Y"} \in SUBSET Axes
    BY AxesNames
  <2>2. [X |-> 0, Y |-> 0] \in Targets
    BY <2>1 DEF Targets
  <2>3. /\ Move("G00", [X |-> 0, Y |-> 0]) \in Seq(Still(s))
        /\ Word("G90") \in Seq(Still(s)) /\ <<>> \in Seq(Still(s))
    BY <2>2, StillParts, Nothing
  <2>4. Word("G90") \o Move("G00", [X |-> 0, Y |-> 0]) \in Seq(Still(s))
    BY ONLY <2>3, StillJoined
  <2> QED
    BY <1>1, <2>3, <2>4 DEF When, BoxRequest
<1> HIDE DEF home
<1>3. Sets(s, start, Top(s))
  BY <1>1, ProbeTopSets, TopPart DEF BoxRequest
<1> HIDE DEF start
<1>4. Sets(s, manual, {"X", "Y"} \cup Top(s))
  <2>1. Sets(s, start \o XSides(s), Top(s) \cup {"X"})
    BY <1>1, <1>3, XSidesSets, SetsJoined
  <2>2. Sets(s, start \o XSides(s) \o YSides(s), (Top(s) \cup {"X"}) \cup {"Y"})
    BY <1>1, <2>1, YSidesSets, SetsJoined
  <2>3. Sets(s, manual, (Top(s) \cup {"X"}) \cup {"Y"})
    BY <1>2, <2>2, SetsBefore
  <2>4. (Top(s) \cup {"X"}) \cup {"Y"} = {"X", "Y"} \cup Top(s)
    OBVIOUS
  <2> QED
    BY <2>3, <2>4
<1>5. Sets(s, body, {"X", "Y"} \cup Top(s))
  BY <1>1, <1>4, RenishawBoxSets
<1>6. lead \in Seq(Still(s)) /\ AbsZ(s.clearance) \in Seq(Still(s))
  <2>1. Header(TRUE) \in Seq(Still(s)) /\ Word("G91") \in Seq(Still(s))
    BY StillParts
  <2>2. s.clearance \in Int
    BY <1>1 DEF BoxRequest
  <2> QED
    BY <2>1, <2>2, StillJoined, AbsZStill
<1> HIDE DEF lead, body
<1>7. Complete(s, lead \o body \o AbsZ(s.clearance) \o Footer, {"X", "Y"} \cup Top(s))
  BY <1>5, <1>6, Framed
<1> QED
  BY <1>7 DEF OutsideBox, lead, body, manual, start, home

\* Every program ends with M30 and sets the axes that its cycle measures.
LEMMA GeneratedSets ==
    ASSUME NEW s, s.cycle \in Cycles, Request(s)
    PROVE  Complete(s, Generated(s), Measured(s))
<1>1. CASE s.cycle = "single_surface"
  BY <1>1, SingleSurfaceSets DEF Generated, Measured
<1>2. CASE s.cycle = "bore"
  BY <1>2, BoreSets DEF Generated, Measured
<1>3. CASE s.cycle = "boss"
  BY <1>3, BossSets DEF Generated, Measured
<1>4. CASE s.cycle = "corner"
  BY <1>4, CornerSets DEF Generated, Measured
<1>5. CASE s.cycle = "pocket_width"
  BY <1>5, PocketWidthSets DEF Generated, Measured
<1>6. CASE s.cycle = "outside_box"
  BY <1>6, OutsideBoxSets DEF Generated, Measured, Top
<1> QED
  BY <1>1, <1>2, <1>3, <1>4, <1>5, <1>6 DEF Cycles

-------------------------------------------------------------------------------
(* The modes in which the moves of the outside box cycle are executed *)

\* Distance mode, work system and the pairs set, before and after a block.
St(d, w, F) == [dist |-> d, active |-> w, fixed |-> F]
After(b, x) ==
    St(IF b.op \in {"G90", "G91"} THEN b.op ELSE x.dist,
       IF b.op \in WorkSystems THEN b.op ELSE x.active,
       x.fixed \cup SetBy(b))

\* An absolute move is along axes that have been set.
Allowed(b, x) ==
    b.op \in MoveOps /\ x.dist = "G90" => \A a \in DOMAIN b.to : <<x.active, a>> \in x.fixed

All(s) == Blocks(s) \cup {End}

\* A run of a part of a program, and one that leads from x to y.
Run(p, st) ==
    \A k \in 1..Len(p) : Allowed(p[k], st[k]) /\ st[k + 1] = After(p[k], st[k])
Leads(s, p, x, y) ==
    p \in Seq(All(s)) /\ \E st : Run(p, st) /\ st[1] = x /\ st[Len(p) + 1] = y

\* The states of one part of a run, continued by those of the next one.
Splice(m, n, f, g) == [k \in 1..(m + n + 1) |-> IF k <= m THEN f[k] ELSE g[k - m]]

LEMMA Spliced ==
    ASSUME NEW m \in Nat, NEW n \in Nat, NEW f, NEW g, f[m + 1] = g[1]
    PROVE  /\ \A k \in 1..(m + 1) : Splice(m, n, f, g)[k] = f[k]
           /\ \A k \in 1..(n + 1) : Splice(m, n, f, g)[m + k] = g[k]
<1> DEFINE st == Splice(m, n, f, g)
<1> USE DEF Splice
<1>1. ASSUME NEW k \in 1..(m + 1) PROVE st[k] = f[k]
  <2>1. k \in 1..(m + n + 1) /\ (k <= m \/ (k = m + 1 /\ ~(k <= m) /\ k - m = 1))
    OBVIOUS
  <2>2. CASE k <= m
    BY <2>1, <2>2
  <2>3. CASE k = m + 1 /\ ~(k <= m) /\ k - m = 1
    <3>1. st[k] = g[k - m] /\ f[k] = f[m + 1]
      BY <2>1, <2>3
    <3> QED
      BY <2>3, <3>1
  <2> QED
    BY <2>1, <2>2, <2>3
<1>2. ASSUME NEW k \in 1..(n + 1) PROVE st[m + k] = g[k]
  <2>1. m + k \in 1..(m + n + 1) /\ ~(m + k <= m) /\ (m + k) - m = k
    OBVIOUS
  <2> QED
    BY <2>1
<1> QED
  BY <1>1, <1>2

LEMMA LeadsJoined ==
    ASSUME NEW s, NEW p, NEW q, NEW x, NEW y, NEW z,
           Leads(s, p, x, y), Leads(s, q, y, z)
    PROVE  Leads(s, p \o q, x, z)
<1> DEFINE r == p \o q
           m == Len(p)
           n == Len(q)
<1>1. p \in Seq(All(s)) /\ q \in Seq(All(s))
  BY DEF Leads
<1>2. /\ m \in Nat /\ n \in Nat /\ Len(r) = m + n /\ r \in Seq(All(s))
      /\ \A k \in 1..m : r[k] = p[k]
      /\ \A k \in 1..n : r[m + k] = q[k]
  BY <1>1, Joined
<1>3. PICK f : Run(p, f) /\ f[1] = x /\ f[m + 1] = y
  BY DEF Leads
<1>4. PICK g : Run(q, g) /\ g[1] = y /\ g[n + 1] = z
  BY DEF Leads
<1>5. /\ \A k \in 1..m : Allowed(p[k], f[k]) /\ f[k + 1] = After(p[k], f[k])
      /\ \A k \in 1..n : Allowed(q[k], g[k]) /\ g[k + 1] = After(q[k], g[k])
  BY <1>3, <1>4 DEF Run
<1> HIDE DEF r, m, n
<1> DEFINE st == Splice(m, n, f, g)
<1>6. /\ \A k \in 1..(m + 1) : st[k] = f[k]
      /\ \A k \in 1..(n + 1) : st[m + k] = g[k]
  BY <1>2, <1>3, <1>4, Spliced
<1> HIDE DEF st
<1>7. Run(r, st)
  <2> SUFFICES ASSUME NEW k \in 1..(m + n)
               PROVE  Allowed(r[k], st[k]) /\ st[k + 1] = After(r[k], st[k])
    BY <1>2 DEF Run
  <2>1. k \in 1..m \/ \E j \in 1..n : k = m + j
    BY <1>2, JoinedPlaces
  <2>2. CASE k \in 1..m
    <3>1. k \in 1..(m + 1) /\ k + 1 \in 1..(m + 1)
      BY <1>2, <2>2
    <3>2. r[k] = p[k] /\ st[k] = f[k] /\ st[k + 1] = f[k + 1]
      BY <1>2, <1>6, <2>2, <3>1
    <3> QED
      BY <1>5, <2>2, <3>2
  <2>3. ASSUME NEW j \in 1..n, k = m + j
        PROVE  Allowed(r[k], st[k]) /\ st[k + 1] = After(r[k], st[k])
    <3>1. j \in 1..(n + 1) /\ j + 1 \in 1..(n + 1) /\ k + 1 = m + (j + 1)
      BY <1>2, <2>3
    <3>2. r[k] = q[j] /\ st[k] = g[j] /\ st[k + 1] = g[j + 1]
      BY <1>2, <1>6, <2>3, <3>1
    <3> QED
      BY <1>5, <3>2
  <2> QED
    BY <2>1, <2>2, <2>3
<1>8. st[1] = x /\ st[Len(r) + 1] = z
  <2>1. 1 \in 1..(m + 1) /\ n + 1 \in 1..(n + 1) /\ Len(r) + 1 = m + (n + 1)
    BY <1>2
  <2> QED
    BY <1>3, <1>4, <1>6, <2>1
<1>9. Leads(s, r, x, z)
  BY <1>2, <1>7, <1>8 DEF Leads
<1> QED
  BY <1>9 DEF r

LEMMA LeadsNothing == ASSUME NEW s, NEW x PROVE Leads(s, <<>>, x, x)
<1> DEFINE st == [k \in {1} |-> x]
<1>1. <<>> \in Seq(All(s)) /\ Len(<<>>) = 0 /\ 1..0 = {} /\ 0 + 1 = 1
  OBVIOUS
<1>2. Run(<<>>, st) /\ st[1] = x
  BY <1>1 DEF Run
<1> HIDE DEF st
<1> QED
  BY <1>1, <1>2 DEF Leads

LEMMA LeadsOne ==
    ASSUME NEW s, NEW b \in All(s), NEW x, NEW y, Allowed(b, x), y = After(b, x)
    PROVE  Leads(s, <<b>>, x, y)
<1> DEFINE p == <<b>>
           st == [k \in {1, 2} |-> IF k = 1 THEN x ELSE y]
<1>1. p \in Seq(All(s)) /\ Len(p) = 1 /\ p[1] = b
  OBVIOUS
<1>2. 1..1 = {1} /\ 1 + 1 = 2
  OBVIOUS
<1>3. st[1] = x /\ st[2] = y
  OBVIOUS
<1> HIDE DEF p, st
<1>4. Run(p, st)
  BY <1>1, <1>2, <1>3 DEF Run
<1>5. Leads(s, p, x, y)
  BY <1>1, <1>2, <1>3, <1>4 DEF Leads
<1> QED
  BY <1>5 DEF p

\* Moves and assignments in incremental mode change no mode.
LEMMA LeadsIncremental ==
    ASSUME NEW s, NEW p \in Seq(Plain), NEW w, NEW F
    PROVE  Leads(s, p, St("G91", w, F), St("G91", w, F))
<1> DEFINE x == St("G91", w, F)
           st == [k \in 1..(Len(p) + 1) |-> x]
<1>1. p \in Seq(All(s)) /\ Len(p) \in Nat
  <2>1. Plain \subseteq All(s)
    BY DEF All, Blocks, Still
  <2> QED
    BY <2>1
<1>2. ASSUME NEW b \in Plain PROVE Allowed(b, x) /\ After(b, x) = x
  <2>1. x.dist = "G91" /\ x.active = w /\ x.fixed = F
    BY DEF St
  <2>2. b.op \notin {"G90", "G91", "G10", "G65"} /\ b.op \notin WorkSystems
    BY DEF Plain, Moves, MoveOps, Assigns, WorkSystems
  <2>3. SetBy(b) = {}
    BY <2>2 DEF SetBy
  <2> HIDE DEF x
  <2>4. After(b, x) = St("G91", w, F)
    BY <2>1, <2>2, <2>3 DEF After
  <2> QED
    BY <2>1, <2>4 DEF Allowed, x
<1>3. \A k \in 1..Len(p) : p[k] \in Plain
  OBVIOUS
<1>4. \A k \in 1..Len(p) : k \in 1..(Len(p) + 1) /\ k + 1 \in 1..(Len(p) + 1)
  BY <1>1
<1>5. /\ \A k \in 1..Len(p) : st[k] = x /\ st[k + 1] = x
      /\ st[1] = x /\ st[Len(p) + 1] = x
  BY <1>1, <1>4
<1> HIDE DEF x, st
<1>6. Run(p, st)
  BY <1>2, <1>3, <1>5 DEF Run
<1>7. Leads(s, p, x, x)
  BY <1>1, <1>5, <1>6 DEF Leads
<1> QED
  BY <1>7 DEF x

LEMMA LeadsWord ==
    ASSUME NEW s, NEW d, NEW w, NEW F
    PROVE  /\ Leads(s, Word("G90"), St(d, w, F), St("G90", w, F))
           /\ Leads(s, Word("G91"), St(d, w, F), St("G91", w, F))
           /\ s.wcs \in WorkSystems =>
                Leads(s, Word(s.wcs), St(d, w, F), St(d, s.wcs, F))
<1> DEFINE x == St(d, w, F)
<1>1. x.dist = d /\ x.active = w /\ x.fixed = F
  BY DEF St
<1> HIDE DEF x
<1>2. ASSUME NEW g \in {"G90", "G91"}
      PROVE  Leads(s, Word(g), x, St(g, w, F))
  <2> DEFINE b == [op |-> g]
  <2>1. b \in All(s)
    BY DEF All, Blocks, Still, ModeWords
  <2>2. b.op = g /\ g \notin WorkSystems /\ g \notin MoveOps /\ g \notin {"G10", "G65"}
    BY DEF WorkSystems, MoveOps
  <2> HIDE DEF b
  <2>3. SetBy(b) = {}
    BY <2>2 DEF SetBy
  <2>4. Allowed(b, x) /\ After(b, x) = St(g, w, F)
    BY <1>1, <2>2, <2>3 DEF Allowed, After
  <2>5. Leads(s, <<b>>, x, St(g, w, F))
    BY <2>1, <2>4, LeadsOne
  <2> QED
    BY <2>5 DEF Word, b
<1>3. ASSUME s.wcs \in WorkSystems
      PROVE  Leads(s, Word(s.wcs), x, St(d, s.wcs, F))
  <2> DEFINE b == [op |-> s.wcs]
  <2>1. b \in All(s)
    BY <1>3 DEF All, Blocks, Still, ModeWords
  <2>2. /\ b.op = s.wcs /\ s.wcs \notin MoveOps
        /\ s.wcs \notin {"G10", "G65", "G90", "G91"}
    BY <1>3 DEF WorkSystems, MoveOps
  <2> HIDE DEF b
  <2>3. SetBy(b) = {}
    BY <2>2 DEF SetBy
  <2>4. Allowed(b, x) /\ After(b, x) = St(d, s.wcs, F)
    BY <1>1, <1>3, <2>2, <2>3 DEF Allowed, After
  <2>5. Leads(s, <<b>>, x, St(d, s.wcs, F))
    BY <2>1, <2>4, LeadsOne
  <2> QED
    BY <2>5 DEF Word, b
<1> QED
  BY <1>2, <1>3 DEF x

\* A positioning move along axes that have been set.
LEMMA LeadsMove ==
    ASSUME NEW s, NEW to, to \in Targets, NEW d, NEW w, NEW F,
           \A a \in DOMAIN to : <<w, a>> \in F
    PROVE  Leads(s, Move("G00", to), St(d, w, F), St(d, w, F))
<1> DEFINE x == St(d, w, F)
           b == [op |-> "G00", to |-> to]
<1>1. x.dist = d /\ x.active = w /\ x.fixed = F
  BY DEF St
<1>2. b \in All(s)
  BY DEF All, Blocks, Still, Plain, Moves, MoveOps
<1>3. b.op = "G00" /\ b.to = to /\ "G00" \notin WorkSystems
  BY DEF WorkSystems
<1> HIDE DEF x, b
<1>4. SetBy(b) = {}
  BY <1>3 DEF SetBy
<1>5. Allowed(b, x)
  BY <1>1, <1>3 DEF Allowed
<1>6. After(b, x) = St(d, w, F)
  BY <1>1, <1>3, <1>4 DEF After
<1>7. Leads(s, <<b>>, x, St(d, w, F))
  BY <1>2, <1>5, <1>6, LeadsOne
<1> QED
  BY <1>7 DEF Move, x, b

LEMMA LeadsRapid ==
    ASSUME NEW s, NEW a \in Axes, NEW v \in Int, NEW d, NEW w, NEW F, <<w, a>> \in F
    PROVE  Leads(s, Rapid(a, v), St(d, w, F), St(d, w, F))
<1> DEFINE to == To(a, v)
<1>1. to \in Targets /\ DOMAIN to = {a}
  <2>1. to \in [{a} -> Int] /\ {a} \in SUBSET Axes
    BY DEF To
  <2> QED
    BY <2>1 DEF Targets, To
<1> HIDE DEF to
<1>2. Leads(s, Move("G00", to), St(d, w, F), St(d, w, F))
  BY <1>1, LeadsMove
<1> QED
  BY <1>2 DEF Rapid, to

LEMMA LeadsAbsZ ==
    ASSUME NEW s, NEW z \in Int, NEW d, NEW w, NEW F, <<w, "Z">> \in F
    PROVE  Leads(s, AbsZ(z), St(d, w, F), St("G90", w, F))
<1>1. Leads(s, Word("G90"), St(d, w, F), St("G90", w, F))
  BY LeadsWord
<1>2. Leads(s, Rapid("Z", z), St("G90", w, F), St("G90", w, F))
  BY LeadsRapid, AxesNames
<1> QED
  BY <1>1, <1>2, LeadsJoined DEF AbsZ

LEMMA LeadsG10 ==
    ASSUME NEW s, s.set_wcs, NEW a \in Axes, NEW n \in Int, NEW d, NEW w, NEW F
    PROVE  Leads(s, SetWcs(s, a, n), St(d, w, F),
                 St(d, w, F \cup {<<System(s), a>>}))
<1> DEFINE x == St(d, w, F)
           b == [op |-> "G10", wcs |-> System(s), axis |-> a, var |-> n]
<1>1. x.dist = d /\ x.active = w /\ x.fixed = F
  BY DEF St
<1>2. b \in All(s)
  BY DEF All, Blocks, G10s
<1>3. b.op = "G10" /\ "G10" \notin WorkSystems /\ "G10" \notin MoveOps
  BY DEF WorkSystems, MoveOps
<1>4. SetBy(b) = {<<System(s), a>>}
  BY DEF SetBy
<1> HIDE DEF x, b
<1>5. Allowed(b, x)
  BY <1>3 DEF Allowed
<1>6. After(b, x) = St(d, w, F \cup {<<System(s), a>>})
  BY <1>1, <1>3, <1>4 DEF After
<1>7. Leads(s, <<b>>, x, St(d, w, F \cup {<<System(s), a>>}))
  BY <1>2, <1>5, <1>6, LeadsOne
<1>8. SetWcs(s, a, n) = <<b>>
  BY DEF SetWcs, When, b
<1> QED
  BY <1>7, <1>8 DEF x

LEMMA LeadsSides ==
    ASSUME NEW s, BoxRequest(s), s.set_wcs, NEW a \in Axes, NEW width \in Int,
           NEW m \in Int, NEW d, NEW w, NEW F, <<w, "Z">> \in F
    PROVE  Leads(s, Sides(s, a, width, m), St(d, w, F),
                 St("G90", w, F \cup {<<System(s), a>>}))
<1> DEFINE reach == width \div 2 + 2 * s.safety
           n == 110 + (m - 100) \div 2
           first == DoubleTouch(s, a, -1, reach, m + 1)
           over == Rapid(a, -(width + 2 * s.safety))
           second == DoubleTouch(s, a, 1, reach, m + 2)
           mid == Mid(n, m + 1, m + 2)
           inc == Word("G91")
           up == AbsZ(s.clearance)
           down == AbsZ(s.probe_z)
           x == St("G90", w, F)
           y == St("G91", w, F)
<1>1. /\ reach \in Int /\ n \in Int /\ -(width + 2 * s.safety) \in Int
      /\ m + 1 \in Int /\ m + 2 \in Int /\ -1 \in Int /\ 1 \in Int
      /\ s.clearance \in Int /\ s.probe_z \in Int /\ s.retract \in Int
  BY DEF BoxRequest
<1> HIDE DEF reach, n
<1>2. /\ first \in Seq(Plain) /\ second \in Seq(Plain) /\ over \in Seq(Plain)
      /\ mid \in Seq(Plain)
  BY <1>1, DoubleTouchPlain, PlainParts
<1> HIDE DEF first, second, over, mid
<1>3. /\ Leads(s, first, y, y) /\ Leads(s, second, y, y) /\ Leads(s, over, y, y)
      /\ Leads(s, mid, y, y)
  BY <1>2, LeadsIncremental
<1>4. Leads(s, inc, St(d, w, F), y) /\ Leads(s, inc, x, y)
  BY LeadsWord
<1>5. Leads(s, up, y, x) /\ Leads(s, down, x, x) /\ Leads(s, down, y, x)
  BY <1>1, LeadsAbsZ
<1>6. Leads(s, SetWcs(s, a, n), x, St("G90", w, F \cup {<<System(s), a>>}))
  BY <1>1, LeadsG10
<1> HIDE DEF inc, up, down, x, y
<1>7. Leads(s, inc \o first \o up \o inc, St(d, w, F), y)
  BY ONLY <1>3, <1>4, <1>5, LeadsJoined
<1>8. Leads(s, inc \o first \o up \o inc \o over \o down \o inc, St(d, w, F), y)
  BY ONLY <1>3, <1>4, <1>5, <1>7, LeadsJoined
<1>9. Leads(s, inc \o first \o up \o inc \o over \o down \o inc \o second \o mid \o up,
            St(d, w, F), x)
  BY ONLY <1>3, <1>4, <1>5, <1>8, LeadsJoined
<1>10. Leads(s, (inc \o first \o up \o inc \o over \o down \o inc \o second \o mid \o up)
                \o SetWcs(s, a, n),
             St(d, w, F), St("G90", w, F \cup {<<System(s), a>>}))
  BY <1>6, <1>9, LeadsJoined
<1> QED
  BY <1>10 DEF Sides, inc, first, up, over, down, second, mid, reach, n

LEMMA LeadsProbeTop ==
    ASSUME NEW s, BoxRequest(s), s.set_wcs, NEW w, NEW F
    PROVE  Leads(s, ProbeTop(s), St("G91", w, F),
                 St("G90", s.wcs, F \cup {<<System(s), "Z">>}))
<1> DEFINE touch == DoubleTouch(s, "Z", -1, 30, 100)
           shift == When(s.z_offset # 0, Shift(100, s.z_offset))
           set == SetWcs(s, "Z", 100)
           up == Rapid("Z", s.clearance)
           G == F \cup {<<System(s), "Z">>}
           y == St("G91", w, F)
           z == St("G90", s.wcs, G)
<1>1. /\ s.retract \in Int /\ s.clearance \in Int /\ s.wcs \in WorkSystems
      /\ -1 \in Int /\ 30 \in Int /\ s.z_offset \in Int /\ System(s) = s.wcs
  BY DEF BoxRequest, System
<1>2. Leads(s, touch, y, y)
  BY <1>1, DoubleTouchPlain, LeadsIncremental, AxesNames, Numbers
<1>3. Leads(s, shift, y, y)
  <2>1. Leads(s, Shift(100, s.z_offset), y, y) /\ Leads(s, <<>>, y, y)
    BY <1>1, PlainParts, LeadsIncremental, LeadsNothing, Numbers
  <2> HIDE DEF y
  <2>2. CASE s.z_offset # 0
    BY <2>1, <2>2 DEF When
  <2>3. CASE s.z_offset = 0
    BY <2>1, <2>3 DEF When
  <2> QED
    BY <2>2, <2>3
<1>4. Leads(s, set, y, St("G91", w, G))
  BY LeadsG10, AxesNames, Numbers
<1>5. /\ Leads(s, Word("G90"), St("G91", w, G), St("G90", w, G))
      /\ Leads(s, Word(s.wcs), St("G90", w, G), z)
  BY <1>1, LeadsWord
<1>6. Leads(s, up, z, z)
  <2>1. <<s.wcs, "Z">> \in G
    BY <1>1
  <2> QED
    BY <1>1, <2>1, LeadsRapid, AxesNames
<1> HIDE DEF touch, shift, set, up, y, z, G
<1>7. Leads(s, shift \o set \o Word("G90") \o Word(s.wcs) \o up, y, z)
  BY ONLY <1>3, <1>4, <1>5, <1>6, LeadsJoined
<1>8. Leads(s, touch \o (shift \o set \o Word("G90") \o Word(s.wcs) \o up), y, z)
  BY <1>2, <1>7, LeadsJoined
<1> QED
  BY <1>8 DEF ProbeTop, touch, shift, set, up, y, z, G

LEMMA LeadsXSides ==
    ASSUME NEW s, BoxRequest(s), s.set_wcs, s.probe_top, NEW d, NEW w, NEW F,
           <<w, "Z">> \in F
    PROVE  Leads(s, XSides(s), St(d, w, F), St("G90", w, F \cup {<<System(s), "X">>}))
<1> DEFINE over == Rapid("X", s.x_width \div 2 + s.safety)
           down == AbsZ(s.probe_z)
           sides == Sides(s, "X", s.x_width, 100)
           x == St("G90", w, F)
           y == St("G91", w, F)
<1>1. s.x_width \div 2 + s.safety \in Int /\ s.x_width \in Int /\ s.probe_z \in Int
  BY DEF BoxRequest
<1>2. /\ Leads(s, Word("G91"), St(d, w, F), y) /\ Leads(s, over, y, y)
      /\ Leads(s, down, y, x)
  BY <1>1, LeadsWord, PlainParts, LeadsIncremental, LeadsAbsZ, AxesNames
<1>3. Leads(s, sides, x, St("G90", w, F \cup {<<System(s), "X">>}))
  BY <1>1, LeadsSides, AxesNames, Numbers
<1> HIDE DEF over, down, sides, x, y
<1>4. Leads(s, Word("G91") \o over \o down \o sides, St(d, w, F),
            St("G90", w, F \cup {<<System(s), "X">>}))
  BY ONLY <1>2, <1>3, LeadsJoined
<1> QED
  BY <1>4 DEF XSides, over, down, sides

LEMMA LeadsYSides ==
    ASSUME NEW s, BoxRequest(s), s.set_wcs, NEW d, NEW w, NEW F,
           <<w, "Z">> \in F, <<w, "X">> \in F
    PROVE  Leads(s, YSides(s), St(d, w, F), St("G90", w, F \cup {<<System(s), "Y">>}))
<1> DEFINE home == Word("G90") \o Rapid("X", 0)
           over == Rapid("Y", s.y_width \div 2 + s.safety)
           down == AbsZ(s.probe_z)
           sides == Sides(s, "Y", s.y_width, 102)
           x == St("G90", w, F)
           y == St("G91", w, F)
<1>1. s.y_width \div 2 + s.safety \in Int /\ s.y_width \in Int /\ s.probe_z \in Int
  BY DEF BoxRequest
<1>2. Leads(s, home, St(d, w, F), x)
  <2>1. Leads(s, Word("G90"), St(d, w, F), x) /\ Leads(s, Rapid("X", 0), x, x)
    BY LeadsWord, LeadsRapid, AxesNames, Numbers
  <2> QED
    BY <2>1, LeadsJoined
<1>3. /\ Leads(s, Word("G91"), x, y) /\ Leads(s, over, y, y)
      /\ Leads(s, down, y, x)
  BY <1>1, LeadsWord, PlainParts, LeadsIncremental, LeadsAbsZ, AxesNames
<1>4. Leads(s, sides, x, St("G90", w, F \cup {<<System(s), "Y">>}))
  BY <1>1, LeadsSides, AxesNames, Numbers
<1> HIDE DEF home, over, down, sides, x, y
<1>5. Leads(s, home \o Word("G91") \o over \o down \o sides, St(d, w, F),
            St("G90", w, F \cup {<<System(s), "Y">>}))
  BY ONLY <1>2, <1>3, <1>4, LeadsJoined
<1>6. When(s.set_wcs, home) = home
  BY DEF When
<1> QED
  BY <1>5, <1>6 DEF YSides, home, over, down, sides

LEMMA LeadsFooter ==
    ASSUME NEW s, NEW d, NEW w, NEW F
    PROVE  Leads(s, Footer, St(d, w, F), St("G91", w, F))
<1> DEFINE y == St("G91", w, F)
<1>1. y.dist = "G91" /\ y.active = w /\ y.fixed = F
  BY DEF St
<1>2. ASSUME NEW g \in {"G28", "M30"}
      PROVE  Leads(s, Word(g), y, y)
  <2> DEFINE b == [op |-> g]
  <2>1. b \in All(s)
    BY DEF All, Blocks, Still, ModeWords, End
  <2>2. b.op = g /\ g \notin WorkSystems /\ g \notin {"G10", "G65", "G90", "G91"}
    BY DEF WorkSystems
  <2> HIDE DEF b
  <2>3. SetBy(b) = {}
    BY <2>2 DEF SetBy
  <2> HIDE DEF y
  <2>4. Allowed(b, y)
    BY <1>1 DEF Allowed
  <2>5. After(b, y) = St("G91", w, F)
    BY <1>1, <2>2, <2>3 DEF After
  <2>6. Leads(s, <<b>>, y, St("G91", w, F))
    BY <2>1, <2>4, <2>5, LeadsOne
  <2> QED
    BY <2>6 DEF Word, b, y
<1>3. Leads(s, Word("G91"), St(d, w, F), y)
  BY LeadsWord
<1> HIDE DEF y
<1>4. Leads(s, Word("G28"), y, y) /\ Leads(s, Word("M30"), y, y)
  BY <1>2
<1>5. Leads(s, Word("G91") \o Word("G28") \o Word("M30"), St(d, w, F), y)
  BY ONLY <1>3, <1>4, LeadsJoined
<1> QED
  BY <1>5 DEF Footer, y

LEMMA LeadsBox ==
    ASSUME NEW s, SetsAll(s), Request(s), NEW v
    PROVE  \E y : Leads(s, Generated(s), St("G90", v, {}), y)
<1> DEFINE w == s.wcs
           Z == {} \cup {<<w, "Z">>}
           X == Z \cup {<<w, "X">>}
           Y == X \cup {<<w, "Y">>}
           top == ProbeTop(s)
           home == Word("G90") \o Move("G00", [X |-> 0, Y |-> 0])
           up == AbsZ(s.clearance)
           body == top \o XSides(s) \o YSides(s) \o home
           inc == Word("G91")
           y == St("G90", w, Y)
<1>1. BoxRequest(s) /\ System(s) = w /\ s.clearance \in Int
  BY DEF SetsAll, Request, Parameters, BoxRequest, System
<1>2. s.cycle = "outside_box" /\ s.mode # "renishaw" /\ s.probe_top /\ s.set_wcs
  BY DEF SetsAll
<1>3. <<w, "Z">> \in Z /\ <<w, "Z">> \in X /\ <<w, "X">> \in X
      /\ <<w, "Z">> \in Y /\ <<w, "X">> \in Y /\ <<w, "Y">> \in Y
  OBVIOUS
<1>4. Leads(s, top, St("G91", v, {}), St("G90", w, Z))
  BY <1>1, <1>2, LeadsProbeTop
<1> HIDE DEF Z
<1>5. Leads(s, XSides(s), St("G90", w, Z), St("G90", w, X))
  BY <1>1, <1>2, <1>3, LeadsXSides
<1> HIDE DEF X
<1>6. Leads(s, YSides(s), St("G90", w, X), y)
  BY <1>1, <1>2, <1>3, LeadsYSides
<1> HIDE DEF Y
<1>7. Leads(s, home, y, y)
  <2> DEFINE to == [X |-> 0, Y |-> 0]
  <2>1. to \in [{"X", "Y"} -> Int] /\ {"X", "Y"} \in SUBSET Axes
    BY AxesNames
  <2>2. to \in Targets /\ DOMAIN to = {"X", "Y"}
    BY <2>1 DEF Targets
  <2> HIDE DEF to
  <2>3. Leads(s, Move("G00", to), y, y)
    BY <1>3, <2>2, LeadsMove
  <2>4. Leads(s, Word("G90"), y, y)
    BY LeadsWord
  <2> HIDE DEF y
  <2>5. Leads(s, Word("G90") \o Move("G00", to), y, y)
    BY <2>3, <2>4, LeadsJoined
  <2> QED
    BY <2>5 DEF to
<1>8. Leads(s, up, y, y)
  BY <1>1, <1>3, LeadsAbsZ
<1>9. /\ Leads(s, inc, St("G90", v, {}), St("G91", v, {}))
      /\ Leads(s, inc, St("G91", v, {}), St("G91", v, {}))
  BY LeadsWord
<1>10. Leads(s, Footer, y, St("G91", w, Y))
  BY LeadsFooter
<1> HIDE DEF top, home, up, y, inc, w
<1>11. Leads(s, body, St("G91", v, {}), y)
  BY ONLY <1>4, <1>5, <1>6, <1>7, LeadsJoined
<1> HIDE DEF body
<1>12. Leads(s, inc \o inc \o body \o up \o Footer, St("G90", v, {}), St("G91", w, Y))
  BY ONLY <1>8, <1>9, <1>10, <1>11, LeadsJoined
<1>13. OutsideBox(s) = inc \o inc \o body \o up \o Footer
  <2>1. When(s.probe_top, top) = top /\ When(s.set_wcs, home) = home
    BY <1>2 DEF When
  <2>2. Header(TRUE) = inc
    BY DEF Header, inc
  <2> QED
    BY <1>2, <2>1, <2>2 DEF OutsideBox, body, top, home, up, inc
<1>14. Generated(s) = OutsideBox(s)
  BY <1>2 DEF Generated
<1> QED
  BY <1>12, <1>13, <1>14

-------------------------------------------------------------------------------
(* The machine executes the program *)

\* What the first blocks of the program, those executed, have set.
SetSoFar == UNION {SetBy(program[j]) : j \in 1..(pc - 1)}

RequestInv ==
    /\ setup \in Setups /\ answer \in {"none", "gcode", "error"}
    /\ answer # "gcode" => program = <<>> /\ pc = 1 /\ fixed = {}
    /\ answer = "gcode" => setup.cycle \in Cycles /\ program = Generated(setup)

ShapeInv ==
    DOMAIN offset = WorkSystems /\ \A w \in WorkSystems : DOMAIN offset[w] = Axes

OffsetInv ==
    \A w \in WorkSystems, a \in Axes :
       offset[w][a] = setup.offset[w][a] \/ <<w, a>> \in fixed

RunInv == answer = "gcode" => pc \in 1..Len(program) /\ fixed = SetSoFar

ProbeInv == RequestInv /\ ShapeInv /\ OffsetInv /\ RunInv

\* The answered program sets what its request measures.
LEMMA Answered ==
    ASSUME RequestInv, answer = "gcode"
    PROVE  Complete(setup, program, Measured(setup))
<1>1. setup \in Setups /\ setup.cycle \in Cycles /\ program = Generated(setup)
  BY DEF RequestInv
<1>2. Request(setup)
  BY <1>1, SetupsAssumption
<1> QED
  BY <1>1, <1>2, GeneratedSets

\* No block but the last one of a program ends it.
LEMMA OnlyTheLastEnds ==
    ASSUME NEW s, NEW b \in Blocks(s)
    PROVE  b.op # "M30"
<1>1. \A x \in Still(s) : x.op # "M30"
  BY DEF Still, Plain, Moves, MoveOps, ModeWords, WorkSystems, Assigns
<1>2. \A x \in G10s(s) : x.op # "M30"
  BY DEF G10s
<1>3. \A x \in Macros(s) : x.op # "M30"
  BY DEF Macros
<1> QED
  BY <1>1, <1>2, <1>3 DEF Blocks

\* A block that is executed is followed by another one.
LEMMA OneMore ==
    ASSUME RequestInv, RunInv, answer = "gcode", Block.op # "M30"
    PROVE  pc \in 1..(Len(program) - 1) /\ pc + 1 \in 1..Len(program)
<1>1. Len(program) \in Nat \ {0} /\ program[Len(program)] = End
  BY Answered DEF Complete
<1>2. pc \in 1..Len(program) /\ pc # Len(program)
  BY <1>1 DEF RunInv, Block, End
<1> QED
  BY <1>1, <1>2

\* Executing the block at pc adds what that block sets.
LEMMA Stepped ==
    ASSUME RequestInv, RunInv, Running, Block.op # "M30", Next1,
           fixed' = fixed \cup SetBy(Block)
    PROVE  RequestInv' /\ RunInv' /\ answer = "gcode"
<1>1. answer = "gcode"
  BY DEF RequestInv, Running
<1>2. /\ pc \in 1..(Len(program) - 1) /\ pc + 1 \in 1..Len(program)
      /\ Len(program) \in Nat
  BY <1>1, OneMore, Answered DEF Complete
<1>3. /\ pc' = pc + 1 /\ setup' = setup /\ answer' = answer /\ program' = program
  BY DEF Next1
<1>4. RequestInv'
  BY <1>1, <1>3 DEF RequestInv
<1>5. fixed' = SetSoFar'
  <2>1. 1..(pc' - 1) = 1..(pc - 1) \cup {pc}
    BY <1>2, <1>3
  <2>2. SetSoFar' = UNION {SetBy(program[j]) : j \in 1..(pc' - 1)}
    BY <1>3 DEF SetSoFar
  <2>3. SetSoFar' = SetSoFar \cup SetBy(program[pc])
    BY <2>1, <2>2 DEF SetSoFar
  <2> QED
    BY <1>1, <2>3 DEF RunInv, Block
<1> QED
  BY <1>1, <1>2, <1>3, <1>4, <1>5 DEF RunInv

LEMMA ProbeInit == Init => ProbeInv
<1> SUFFICES ASSUME Init PROVE ProbeInv
  OBVIOUS
<1>1. setup.offset \in [WorkSystems -> [Axes -> Int]]
  BY SetupsAssumption DEF Init
<1> QED
  BY <1>1 DEF Init, ProbeInv, RequestInv, ShapeInv, OffsetInv, RunInv

LEMMA ProbeStep ==
    ASSUME ProbeInv, [Next]_vars
    PROVE  ProbeInv'
<1> USE DEF ProbeInv
<1>1. CASE ApiGenerate
  <2>1. /\ answer = "none" /\ UNCHANGED <<setup, pc, offset, fixed>>
        /\ program = <<>> /\ pc = 1 /\ fixed = {}
    BY <1>1 DEF ApiGenerate, RequestInv
  <2>2. RequestInv' /\ ShapeInv' /\ OffsetInv'
    BY <1>1, <2>1 DEF ApiGenerate, RequestInv, ShapeInv, OffsetInv
  <2>3. RunInv'
    <3> SUFFICES ASSUME answer' = "gcode" PROVE RunInv'
      BY DEF RunInv
    <3>1. setup' = setup /\ setup.cycle \in Cycles /\ program' = Generated(setup)
          /\ pc' = 1 /\ fixed' = {} /\ setup \in Setups
      BY <1>1, <2>1 DEF ApiGenerate, RequestInv
    <3>2. Len(program') \in Nat \ {0}
      BY <3>1, SetupsAssumption, GeneratedSets DEF Complete
    <3>3. 1..(pc' - 1) = {}
      BY <3>1
    <3>4. SetSoFar' = {}
      BY <3>3 DEF SetSoFar
    <3> QED
      BY <3>1, <3>2, <3>4 DEF RunInv
  <2> QED
    BY <2>2, <2>3
<1>2. ASSUME Running, Block.op \notin {"G10", "G65", "M30"}, Next1,
             UNCHANGED <<offset, fixed>>
      PROVE  ProbeInv'
  <2>1. SetBy(Block) = {}
    BY <1>2 DEF SetBy
  <2>2. RequestInv' /\ RunInv'
    BY <1>2, <2>1, Stepped
  <2>3. ShapeInv' /\ OffsetInv'
    BY <1>2 DEF ShapeInv, OffsetInv, Next1
  <2> QED
    BY <2>2, <2>3
<1>3. CASE RunMove
  BY <1>2, <1>3 DEF RunMove
<1>4. CASE RunProbe
  BY <1>2, <1>4 DEF RunProbe
<1>5. CASE RunWord
  <2>1. Running /\ Next1 /\ UNCHANGED <<offset, fixed>>
    BY <1>5 DEF RunWord
  <2>2. Block.op \in {"G90", "G91", "G28"} \cup WorkSystems
    BY <1>5 DEF RunWord
  <2>3. Block.op \notin {"G10", "G65", "M30"}
    BY <2>2 DEF WorkSystems
  <2> QED
    BY <1>2, <2>1, <2>3
<1>6. CASE RunAssign
  BY <1>2, <1>6 DEF RunAssign
<1>7. CASE RunG10
  <2>1. /\ Running /\ Block.op = "G10" /\ Next1
        /\ offset' = [offset EXCEPT ![Block.wcs][Block.axis] = var[Block.var]]
        /\ fixed' = fixed \cup {<<Block.wcs, Block.axis>>}
    BY <1>7 DEF RunG10
  <2>2. SetBy(Block) = {<<Block.wcs, Block.axis>>}
    BY <2>1 DEF SetBy
  <2>3. RequestInv' /\ RunInv'
    BY <2>1, <2>2, Stepped
  <2>4. ShapeInv'
    BY <2>1 DEF ShapeInv
  <2>5. \A w \in WorkSystems, a \in Axes :
           offset'[w][a] = offset[w][a] \/ <<w, a>> = <<Block.wcs, Block.axis>>
    BY <2>1 DEF ShapeInv
  <2>6. OffsetInv'
    BY <2>1, <2>5 DEF OffsetInv, Next1
  <2> QED
    BY <2>3, <2>4, <2>6
<1>8. CASE RunMacro
  <2>1. Running /\ Block.op = "G65" /\ Next1
    BY <1>8 DEF RunMacro
  <2>2. CASE Block.set
    <3>1. /\ offset' = [offset EXCEPT ![Block.wcs] =
                          [a \in Axes |-> IF a \in Block.axes THEN setup.feature[a]
                                          ELSE @[a]]]
          /\ fixed' = fixed \cup ({Block.wcs} \X Block.axes)
      BY <1>8, <2>2 DEF RunMacro
    <3>2. SetBy(Block) = {Block.wcs} \X Block.axes
      BY <2>1, <2>2 DEF SetBy
    <3>3. RequestInv' /\ RunInv'
      BY <2>1, <3>1, <3>2, Stepped
    <3>4. ShapeInv'
      BY <3>1 DEF ShapeInv
    <3>5. \A w \in WorkSystems, a \in Axes :
             offset'[w][a] = offset[w][a] \/ <<w, a>> \in {Block.wcs} \X Block.axes
      BY <3>1 DEF ShapeInv
    <3>6. OffsetInv'
      BY <2>1, <3>1, <3>5 DEF OffsetInv, Next1
    <3> QED
      BY <3>3, <3>4, <3>6
  <2>3. CASE ~Block.set
    <3>1. UNCHANGED <<offset, fixed>>
      BY <1>8, <2>3 DEF RunMacro
    <3>2. SetBy(Block) = {}
      BY <2>1, <2>3 DEF SetBy
    <3>3. RequestInv' /\ RunInv'
      BY <2>1, <3>1, <3>2, Stepped
    <3>4. ShapeInv' /\ OffsetInv'
      BY <2>1, <3>1 DEF ShapeInv, OffsetInv, Next1
    <3> QED
      BY <3>3, <3>4
  <2> QED
    BY <2>2, <2>3
<1>9. CASE UNCHANGED vars
  BY <1>9 DEF vars, RequestInv, ShapeInv, OffsetInv, RunInv, SetSoFar
<1> QED
  BY <1>1, <1>3, <1>4, <1>5, <1>6, <1>7, <1>8, <1>9 DEF Next

LEMMA Probing == Spec => []ProbeInv
<1>1. Init => ProbeInv
  BY ProbeInit
<1>2. ProbeInv /\ [Next]_vars => ProbeInv'
  BY ProbeStep
<1> QED
  BY <1>1, <1>2, PTL DEF Spec

\* The machine never leaves the program it was given, and the program ends at
\* its last block and nowhere before.
RunsToItsEnd ==
    answer = "gcode" =>
       pc \in 1..Len(program) /\ (Ended <=> pc = Len(program))

LEMMA EndsAtTheEnd == ProbeInv => RunsToItsEnd
<1> SUFFICES ASSUME ProbeInv, answer = "gcode"
             PROVE  pc \in 1..Len(program) /\ (Ended <=> pc = Len(program))
  BY DEF RunsToItsEnd
<1>1. Complete(setup, program, Measured(setup)) /\ pc \in 1..Len(program)
  BY Answered DEF ProbeInv, RunInv
<1>2. pc # Len(program) => Block.op # "M30"
  <2>1. pc # Len(program) => pc \in 1..(Len(program) - 1)
    BY <1>1 DEF Complete
  <2> QED
    BY <1>1, <2>1, OnlyTheLastEnds DEF Complete, Block
<1>3. pc = Len(program) => Running /\ Block.op = "M30"
  BY <1>1 DEF Complete, Block, End, Running
<1> QED
  BY <1>1, <1>2, <1>3 DEF Ended

\* Every generated program of every request is executed up to its M30, which
\* is its last block (the footers of all six _gen_* functions).
THEOREM ProgramsEnd == Spec => []RunsToItsEnd
BY Probing, EndsAtTheEnd, PTL

\* A program changes no work offset but those it was asked to set, and when it
\* ends it has set every one of them (set_wcs in the six _gen_* functions).
THEOREM OffsetsAsked == Spec => []OnlyItsOffsets
<1>1. ASSUME ProbeInv PROVE OnlyItsOffsets
  <2>1. \A w \in WorkSystems, a \in Axes :
           offset[w][a] = setup.offset[w][a] \/ <<w, a>> \in fixed
    BY <1>1 DEF ProbeInv, OffsetInv
  <2>2. ASSUME answer = "gcode"
        PROVE  fixed \subseteq ToBeSet(setup) /\ (Ended => fixed = ToBeSet(setup))
    <3>1. /\ Len(program) \in Nat \ {0} /\ program[Len(program)] = End
          /\ SetIn(program) = Pairs(setup, Measured(setup))
          /\ pc \in 1..Len(program) /\ fixed = SetSoFar
      BY <1>1, <2>2, Answered DEF ProbeInv, RunInv, Complete
    <3>2. Pairs(setup, Measured(setup)) = ToBeSet(setup)
      <4>1. CASE setup.set_wcs
        BY <4>1 DEF Pairs, ToBeSet
      <4>2. CASE ~setup.set_wcs
        BY <4>2 DEF Pairs, ToBeSet
      <4> QED
        BY <4>1, <4>2
    <3>3. \A j \in 1..(pc - 1) : j \in 1..Len(program)
      BY <3>1
    <3>4. SetSoFar \subseteq SetIn(program)
      BY <3>3 DEF SetSoFar, SetIn
    <3>5. ASSUME Ended PROVE SetIn(program) \subseteq SetSoFar
      <4>1. pc = Len(program)
        BY <1>1, <2>2, <3>5, EndsAtTheEnd DEF RunsToItsEnd
      <4>2. SetBy(program[pc]) = {}
        BY <3>1, <4>1 DEF SetBy, End
      <4>3. \A k \in 1..Len(program) : k \in 1..(pc - 1) \/ k = pc
        BY <3>1, <4>1
      <4> QED
        BY <4>2, <4>3 DEF SetIn, SetSoFar
    <3> QED
      BY <3>1, <3>2, <3>4, <3>5
  <2> QED
    BY <2>1, <2>2 DEF OnlyItsOffsets
<1> QED
  BY <1>1, Probing, PTL

\* The modes of the machine are those of a run of its program.
ModeInv ==
    /\ answer # "gcode" => dist = "G90" /\ active = setup.active
    /\ answer = "gcode" /\ SetsAll(setup) =>
          \E st : Run(program, st) /\ st[pc] = St(dist, active, fixed)

LEMMA ModeStepped ==
    ASSUME ProbeInv, ModeInv, Running, Block.op # "M30", Next1,
           St(dist', active', fixed') = After(Block, St(dist, active, fixed))
    PROVE  ModeInv'
<1>1. answer = "gcode"
  BY DEF ProbeInv, RequestInv, Running
<1>2. pc \in 1..Len(program) /\ pc' = pc + 1 /\ UNCHANGED <<setup, answer, program>>
  BY <1>1 DEF ProbeInv, RunInv, Next1
<1>3. ASSUME SetsAll(setup)
      PROVE  \E st : Run(program', st) /\ st[pc'] = St(dist', active', fixed')
  <2>1. PICK st : Run(program, st) /\ st[pc] = St(dist, active, fixed)
    BY <1>1, <1>3 DEF ModeInv
  <2>2. st[pc + 1] = After(program[pc], st[pc])
    BY <1>2, <2>1 DEF Run
  <2>3. st[pc'] = St(dist', active', fixed')
    BY <1>2, <2>1, <2>2 DEF Block
  <2>4. Run(program', st)
    BY <1>2, <2>1
  <2> QED
    BY <2>3, <2>4
<1> QED
  BY <1>1, <1>2, <1>3 DEF ModeInv, SetsAll

LEMMA ModeStep ==
    ASSUME ProbeInv, ModeInv, [Next]_vars
    PROVE  ModeInv'
<1> DEFINE x == St(dist, active, fixed)
<1>1. x.dist = dist /\ x.active = active /\ x.fixed = fixed
  BY DEF St
<1> HIDE DEF x
<1>2. CASE ApiGenerate
  <2>1. answer = "none" /\ UNCHANGED <<setup, pc, dist, active, fixed>>
        /\ pc = 1 /\ fixed = {} /\ dist = "G90" /\ active = setup.active
    BY <1>2 DEF ApiGenerate, ProbeInv, RequestInv, ModeInv
  <2>2. answer' # "gcode" => dist' = "G90" /\ active' = setup'.active
    BY <2>1
  <2>3. ASSUME answer' = "gcode", SetsAll(setup)
        PROVE  \E st : Run(program', st) /\ st[pc'] = St(dist', active', fixed')
    <3>1. program' = Generated(setup) /\ Request(setup)
      BY <1>2, <2>3, SetupsAssumption DEF ApiGenerate, ProbeInv, RequestInv
    <3>2. PICK y : Leads(setup, Generated(setup), St("G90", setup.active, {}), y)
      BY <2>3, <3>1, LeadsBox
    <3>3. PICK st : Run(Generated(setup), st) /\ st[1] = St("G90", setup.active, {})
      BY <3>2 DEF Leads
    <3>4. Run(program', st)
      BY <3>1, <3>3
    <3>5. st[pc'] = St(dist', active', fixed')
      BY <2>1, <3>3
    <3> QED
      BY <3>4, <3>5
  <2> QED
    BY <2>1, <2>2, <2>3 DEF ModeInv, SetsAll
<1>3. ASSUME Running, Block.op # "M30", Next1,
             dist' = IF Block.op \in {"G90", "G91"} THEN Block.op ELSE dist,
             active' = IF Block.op \in WorkSystems THEN Block.op ELSE active,
             fixed' = fixed \cup SetBy(Block)
      PROVE  ModeInv'
  <2>1. St(dist', active', fixed') = After(Block, x)
    BY <1>1, <1>3 DEF After
  <2> QED
    BY <1>3, <2>1, ModeStepped DEF x
<1>4. ASSUME Running, Next1, Block.op \notin {"G90", "G91", "M30"},
             Block.op \notin WorkSystems, UNCHANGED <<dist, active>>,
             fixed' = fixed \cup SetBy(Block)
      PROVE  ModeInv'
  BY <1>3, <1>4
<1>5. "G90" \notin WorkSystems /\ "G91" \notin WorkSystems /\ "G28" \notin WorkSystems
  BY DEF WorkSystems
<1>6. CASE RunMove
  <2>1. /\ Running /\ Block.op \in {"G00", "G01"} /\ Next1
        /\ UNCHANGED <<dist, active, fixed>>
    BY <1>6 DEF RunMove
  <2>2. SetBy(Block) = {} /\ Block.op \notin WorkSystems
    BY <2>1 DEF SetBy, WorkSystems
  <2> QED
    BY <1>4, <2>1, <2>2
<1>7. CASE RunProbe
  <2>1. /\ Running /\ Block.op = "G31" /\ Next1
        /\ UNCHANGED <<dist, active, fixed>>
    BY <1>7 DEF RunProbe
  <2>2. SetBy(Block) = {} /\ Block.op \notin WorkSystems
    BY <2>1 DEF SetBy, WorkSystems
  <2> QED
    BY <1>4, <2>1, <2>2
<1>8. CASE RunWord
  <2>1. Running /\ Next1 /\ UNCHANGED fixed
    BY <1>8 DEF RunWord
  <2>2. \/ Block.op \in {"G90", "G91"} /\ dist' = Block.op /\ active' = active
        \/ Block.op \in WorkSystems /\ active' = Block.op /\ dist' = dist
        \/ Block.op = "G28" /\ dist' = dist /\ active' = active
    BY <1>8 DEF RunWord
  <2>3. Block.op \notin {"G10", "G65", "M30"}
    BY <2>2 DEF WorkSystems
  <2>4. SetBy(Block) = {}
    BY <2>3 DEF SetBy
  <2>5. /\ dist' = IF Block.op \in {"G90", "G91"} THEN Block.op ELSE dist
        /\ active' = IF Block.op \in WorkSystems THEN Block.op ELSE active
    BY <1>5, <2>2
  <2> QED
    BY <1>3, <2>1, <2>3, <2>4, <2>5
<1>9. CASE RunAssign
  <2>1. /\ Running /\ Block.op \in {"read", "mid", "shift"} /\ Next1
        /\ UNCHANGED <<dist, active, fixed>>
    BY <1>9 DEF RunAssign
  <2>2. SetBy(Block) = {} /\ Block.op \notin WorkSystems
    BY <2>1 DEF SetBy, WorkSystems
  <2> QED
    BY <1>4, <2>1, <2>2
<1>10. CASE RunG10
  <2>1. /\ Running /\ Block.op = "G10" /\ Next1 /\ UNCHANGED <<dist, active>>
        /\ fixed' = fixed \cup {<<Block.wcs, Block.axis>>}
    BY <1>10 DEF RunG10
  <2>2. SetBy(Block) = {<<Block.wcs, Block.axis>>} /\ Block.op \notin WorkSystems
    BY <2>1 DEF SetBy, WorkSystems
  <2> QED
    BY <1>4, <2>1, <2>2
<1>11. CASE RunMacro
  <2>1. /\ Running /\ Block.op = "G65" /\ Next1 /\ UNCHANGED <<dist, active>>
        /\ IF Block.set THEN fixed' = fixed \cup ({Block.wcs} \X Block.axes)
                        ELSE fixed' = fixed
    BY <1>11 DEF RunMacro
  <2>2. Block.op \notin WorkSystems
    BY <2>1 DEF WorkSystems
  <2>3. fixed' = fixed \cup SetBy(Block)
    <3>1. CASE Block.set
      BY <2>1, <3>1 DEF SetBy
    <3>2. CASE ~Block.set
      BY <2>1, <3>2 DEF SetBy
    <3> QED
      BY <3>1, <3>2
  <2> QED
    BY <1>4, <2>1, <2>2, <2>3
<1>12. CASE UNCHANGED vars
  BY <1>12 DEF vars, ModeInv, SetsAll
<1> QED
  BY <1>2, <1>6, <1>7, <1>8, <1>9, <1>10, <1>11, <1>12 DEF Next

\* In an outside box cycle that sets its three axes an absolute move is along
\* an axis whose offset has been set (_gen_outside_box, probe.py:498).
THEOREM AbsoluteMoves == Spec => [](SetsAll(setup) => AbsoluteOnlyWhenSet)
<1>1. Init => ModeInv
  BY DEF Init, ModeInv
<1>2. ProbeInv /\ ModeInv /\ [Next]_vars => ModeInv'
  BY ModeStep
<1>3. ASSUME ProbeInv, ModeInv, SetsAll(setup) PROVE AbsoluteOnlyWhenSet
  <2> SUFFICES ASSUME Running, Block.op \in {"G00", "G01", "G31"}, dist = "G90"
               PROVE  \A a \in DOMAIN Block.to : <<active, a>> \in fixed
    BY DEF AbsoluteOnlyWhenSet
  <2>1. answer = "gcode" /\ pc \in 1..Len(program)
    BY <1>3 DEF ProbeInv, RequestInv, RunInv, Running
  <2>2. PICK st : Run(program, st) /\ st[pc] = St(dist, active, fixed)
    BY <1>3, <2>1 DEF ModeInv
  <2>3. Allowed(Block, St(dist, active, fixed))
    BY <2>1, <2>2 DEF Run, Block
  <2>4. /\ St(dist, active, fixed).dist = dist
        /\ St(dist, active, fixed).active = active
        /\ St(dist, active, fixed).fixed = fixed
    BY DEF St
  <2> QED
    BY <2>3, <2>4 DEF Allowed, MoveOps
<1> QED
  BY <1>1, <1>2, <1>3, Probing, PTL DEF Spec


-------------------------------------------------------------------------------
(* A point that moves within free space, and up to the faces that bound it *)

Points == [Axes -> Int]

LEMMA SpotPoint ==
    ASSUME NEW r, NEW p \in Spots(r)
    PROVE  p \in Points /\ \A a \in Axes : p[a] \in Int /\ Covers(r, a, p[a])
BY DEF Spots, Points, Covers

\* One coordinate of a point replaced, as often as one likes.
LEMMA PutPoint ==
    ASSUME NEW p \in Points, NEW a \in Axes, NEW x \in Int
    PROVE  /\ Put(p, a, x) \in Points /\ Put(p, a, x)[a] = x
           /\ \A o \in Axes : o # a => Put(p, a, x)[o] = p[o]
BY DEF Put, Points

LEMMA PutSpot ==
    ASSUME NEW r, NEW p \in Spots(r), NEW a \in Axes, NEW x \in Int, Covers(r, a, x)
    PROVE  Put(p, a, x) \in Spots(r)
<1> DEFINE q == Put(p, a, x)
<1>1. p \in Points /\ \A o \in Axes : Covers(r, o, p[o])
  BY SpotPoint
<1>2. q \in Points /\ q[a] = x /\ \A o \in Axes : o # a => q[o] = p[o]
  BY <1>1, PutPoint
<1> HIDE DEF q
<1>3. \A o \in Axes : Covers(r, o, q[o])
  BY <1>1, <1>2
<1>4. q \in Spots(r)
  BY <1>2, <1>3 DEF Spots, Points, Covers
<1> QED
  BY <1>4 DEF q

LEMMA PutTwice ==
    ASSUME NEW p, NEW a, NEW x, NEW y
    PROVE  Put(Put(p, a, x), a, y) = Put(p, a, y)
BY DEF Put

LEMMA PutBoth ==
    ASSUME NEW p, NEW a, NEW b, a # b, NEW x, NEW y
    PROVE  Put(Put(p, a, x), b, y) = Put(Put(p, b, y), a, x)
BY DEF Put

\* A way between two places of a free region crosses no box.
LEMMA WayFree ==
    ASSUME NEW s, NEW r, Free(s, r), NEW p \in Spots(r), NEW q \in Spots(r),
           \A b \in s.solid : b \in Regions
    PROVE  \A c \in s.solid : ~Crosses(c, p, q)
<1> SUFFICES ASSUME NEW c \in s.solid, Crosses(c, p, q) PROVE FALSE
  OBVIOUS
<1>1. PICK a \in Axes : c[a][2] <= r[a][1] \/ r[a][2] <= c[a][1]
  BY DEF Free
<1>2. /\ p[a] < c[a][2] \/ q[a] < c[a][2]
      /\ p[a] > c[a][1] \/ q[a] > c[a][1]
  BY DEF Crosses
<1>3. p[a] \in Int /\ q[a] \in Int /\ Covers(r, a, p[a]) /\ Covers(r, a, q[a])
  BY SpotPoint
<1>4. r[a] \in Int \X Int /\ c[a] \in Int \X Int
  BY DEF Free, Regions
<1> QED
  BY <1>1, <1>2, <1>3, <1>4 DEF Covers

\* The machine of ProbeGcode, for any place of the stylus.
Met(s, p, a, t) ==
    LET beside == {b \in s.solid : \A o \in Axes \ {a} : Within(b[o], p[o])}
    IN  IF t > p[a]
        THEN {f \in {b[a][1] : b \in beside} : p[a] <= f /\ f < t}
        ELSE {f \in {b[a][2] : b \in beside} : t < f /\ f <= p[a]}

First(p, a, faces) ==
    CHOOSE f \in faces : \A g \in faces :
        (p[a] <= f /\ f <= g) \/ (g <= f /\ f <= p[a])

Proper(s) == \A b \in s.solid : b \in Regions /\ \A a \in Axes : b[a][1] < b[a][2]

\* A skip move through free space towards a walled end of it stops there.
LEMMA MeetsTheWall ==
    ASSUME NEW s, NEW r, Proper(s), Free(s, r), NEW p \in Spots(r), NEW a \in Axes,
           NEW end \in {1, 2}, Walled(s, r, a, end, p["Z"]),
           NEW t \in Int, Beyond(r, a, end, t)
    PROVE  Met(s, p, a, t) # {} /\ First(p, a, Met(s, p, a, t)) = r[a][end]
<1> DEFINE f == r[a][end]
           beside == {b \in s.solid : \A o \in Axes \ {a} : Within(b[o], p[o])}
           M == Met(s, p, a, t)
<1>1. /\ p \in Points /\ p[a] \in Int /\ Covers(r, a, p[a])
      /\ r[a] \in Int \X Int /\ f \in Int
  BY SpotPoint DEF Free, Regions
<1>2. \A b \in s.solid : b[a] \in Int \X Int /\ b[a][1] < b[a][2]
  BY DEF Proper, Regions
\* The wall is beside the stylus.
<1>3. PICK w \in beside : w[a][3 - end] = f
  <2>1. PICK w \in s.solid :
           /\ w[a][3 - end] = f /\ (a # "Z" => Within(w["Z"], p["Z"]))
           /\ \A o \in {"X", "Y"} \ {a} : w[o][1] < r[o][1] /\ r[o][2] < w[o][2]
    BY DEF Walled
  <2>2. ASSUME NEW o \in Axes \ {a} PROVE Within(w[o], p[o])
    <3>1. CASE o = "Z"
      BY <2>1, <3>1
    <3>2. CASE o # "Z"
      <4>1. o \in {"X", "Y"} \ {a}
        BY <3>2 DEF Axes
      <4>2. w[o] \in Int \X Int /\ r[o] \in Int \X Int /\ p[o] \in Int /\ Covers(r, o, p[o])
        BY <2>1, SpotPoint DEF Proper, Regions, Free
      <4> QED
        BY <2>1, <4>1, <4>2 DEF Within, Covers
    <3> QED
      BY <3>1, <3>2
  <2> QED
    BY <2>1, <2>2
\* Every other box beside it is at the one end of the region or the other.
<1>4. \A b \in beside : b[a][2] <= r[a][1] \/ r[a][2] <= b[a][1]
  <2> TAKE b \in beside
  <2>1. PICK o \in Axes : b[o][2] <= r[o][1] \/ r[o][2] <= b[o][1]
    BY DEF Free
  <2>2. ASSUME o # a PROVE FALSE
    <3>1. Within(b[o], p[o])
      BY <2>2
    <3>2. b[o] \in Int \X Int /\ r[o] \in Int \X Int /\ p[o] \in Int /\ Covers(r, o, p[o])
      BY SpotPoint DEF Proper, Regions, Free
    <3> QED
      BY <2>1, <3>1, <3>2 DEF Within, Covers
  <2> QED
    BY <2>1, <2>2
<1>5. \A b \in beside : b \in s.solid
  OBVIOUS
<1> HIDE DEF beside
<1>6. f \in M /\ \A g \in M : g \in Int /\ ((end = 2 /\ f <= g) \/ (end = 1 /\ g <= f))
  <2>1. CASE end = 2
    <3>1. f = r[a][2] /\ r[a][2] < t /\ t > p[a] /\ w[a][1] = f /\ p[a] <= f
      BY <1>1, <1>3, <2>1 DEF Beyond, Covers
    <3>2. M = {g \in {b[a][1] : b \in beside} : p[a] <= g /\ g < t}
      BY <3>1 DEF Met, beside
    <3>3. f \in M
      BY <1>3, <3>1, <3>2
    <3>4. ASSUME NEW g \in M PROVE g \in Int /\ f <= g
      <4>1. PICK b \in beside : g = b[a][1]
        BY <3>2
      <4> QED
        BY <1>1, <1>2, <1>4, <1>5, <3>1, <3>2, <4>1 DEF Covers
    <3> QED
      BY <2>1, <3>3, <3>4
  <2>2. CASE end = 1
    <3>1. f = r[a][1] /\ t < r[a][1] /\ ~(t > p[a]) /\ w[a][2] = f /\ f <= p[a]
      BY <1>1, <1>3, <2>2 DEF Beyond, Covers
    <3>2. M = {g \in {b[a][2] : b \in beside} : t < g /\ g <= p[a]}
      BY <3>1 DEF Met, beside
    <3>3. f \in M
      BY <1>3, <3>1, <3>2
    <3>4. ASSUME NEW g \in M PROVE g \in Int /\ g <= f
      <4>1. PICK b \in beside : g = b[a][2]
        BY <3>2
      <4> QED
        BY <1>1, <1>2, <1>4, <1>5, <3>1, <3>2, <4>1 DEF Covers
    <3> QED
      BY <2>2, <3>3, <3>4
  <2> QED
    BY <2>1, <2>2
<1> HIDE DEF M
<1>7. First(p, a, M) = f
  <2> DEFINE Is(x) == \A g \in M : (p[a] <= x /\ x <= g) \/ (g <= x /\ x <= p[a])
  <2>1. Is(f)
    BY <1>1, <1>6 DEF Covers
  <2>2. \A x \in M : Is(x) => x = f
    BY <1>1, <1>6 DEF Covers
  <2> HIDE DEF Is
  <2>3. (CHOOSE x \in M : Is(x)) = f
    BY <1>6, <2>1, <2>2
  <2> QED
    BY <2>3 DEF First, Is
<1> QED
  BY <1>6, <1>7 DEF M, f

-------------------------------------------------------------------------------
(* What a block does to the machine, and what must hold before it *)

\* A state of the machine: its modes and offsets, the stylus, the variables.
Modal(d, w, o, F) == [dist |-> d, active |-> w, offset |-> o, fixed |-> F]
Machine(m, p, v) == [modal |-> m, pos |-> p, var |-> v]

\* Where a coordinate of a block is counted from.
Base(m, p, a) == IF m.dist = "G90" THEN m.offset[m.active][a] ELSE p[a]
Goal(b, m, p) ==
    [a \in Axes |-> IF a \notin DOMAIN b.to THEN p[a] ELSE b.to[a] + Base(m, p, a)]

\* Every offset that has been set is the feature's place.
Right(s, m) == \A q \in m.fixed : m.offset[q[1]][q[2]] = s.feature[q[2]]

\* The properties of the block that is executed next.
Fine(s, b, x) ==
    /\ Right(s, x.modal)
    /\ b.op \in {"G00", "G01"} =>
         \A c \in s.solid : ~Crosses(c, x.pos, Goal(b, x.modal, x.pos))
    /\ b.op = "G31" =>
         \A a \in DOMAIN b.to : Met(s, x.pos, a, Goal(b, x.modal, x.pos)[a]) # {}

Touched(s, p, a, t) ==
    IF Met(s, p, a, t[a]) = {} THEN t ELSE Put(p, a, First(p, a, Met(s, p, a, t[a])))

\* Every step of the block leads from x to y.
Takes(s, b, x, y) ==
    LET m == x.modal
        t == Goal(b, m, x.pos)
    IN  /\ b.op \in {"G00", "G01"} => y = Machine(m, t, x.var)
        /\ b.op = "G31" =>
             \A a \in DOMAIN b.to : y = Machine(m, Touched(s, x.pos, a, t), x.var)
        /\ b.op \in {"G90", "G91"} =>
             y = Machine(Modal(b.op, m.active, m.offset, m.fixed), x.pos, x.var)
        /\ b.op \in WorkSystems =>
             y = Machine(Modal(m.dist, b.op, m.offset, m.fixed), x.pos, x.var)
        /\ b.op = "G28" => y = Machine(m, Put(x.pos, "Z", Home), x.var)
        /\ b.op = "read" => y = Machine(m, x.pos, Put(x.var, b.var, x.pos[b.axis]))
        /\ b.op = "mid" =>
             y = Machine(m, x.pos,
                         Put(x.var, b.var, (x.var[b.of[1]] + x.var[b.of[2]]) \div 2))
        /\ b.op = "shift" =>
             y = Machine(m, x.pos, Put(x.var, b.var, x.var[b.var] + b.by))
        /\ b.op = "G10" =>
             y = Machine(Modal(m.dist, m.active,
                               [m.offset EXCEPT ![b.wcs][b.axis] = x.var[b.var]],
                               m.fixed \cup {<<b.wcs, b.axis>>}), x.pos, x.var)
        /\ b.op = "G65" /\ b.set =>
             y = Machine(Modal(m.dist, m.active,
                               [m.offset EXCEPT ![b.wcs] =
                                  [a \in Axes |-> IF a \in b.axes THEN s.feature[a]
                                                  ELSE @[a]]],
                               m.fixed \cup ({b.wcs} \X b.axes)), x.pos, x.var)
        /\ b.op = "G65" /\ ~b.set => y = x

\* A run of a part of a program on the machine, and one that leads from x to y.
Works(s, p, st) ==
    \A k \in 1..Len(p) : Fine(s, p[k], st[k]) /\ Takes(s, p[k], st[k], st[k + 1])
Passes(s, p, x, y) ==
    p \in Seq(All(s)) /\ \E st : Works(s, p, st) /\ st[1] = x /\ st[Len(p) + 1] = y

LEMMA PassJoined ==
    ASSUME NEW s, NEW p, NEW q, NEW x, NEW y, NEW z,
           Passes(s, p, x, y), Passes(s, q, y, z)
    PROVE  Passes(s, p \o q, x, z)
<1> DEFINE r == p \o q
           m == Len(p)
           n == Len(q)
<1>1. p \in Seq(All(s)) /\ q \in Seq(All(s))
  BY DEF Passes
<1>2. /\ m \in Nat /\ n \in Nat /\ Len(r) = m + n /\ r \in Seq(All(s))
      /\ \A k \in 1..m : r[k] = p[k]
      /\ \A k \in 1..n : r[m + k] = q[k]
  BY <1>1, Joined
<1>3. PICK f : Works(s, p, f) /\ f[1] = x /\ f[m + 1] = y
  BY DEF Passes
<1>4. PICK g : Works(s, q, g) /\ g[1] = y /\ g[n + 1] = z
  BY DEF Passes
<1>5. /\ \A k \in 1..m : Fine(s, p[k], f[k]) /\ Takes(s, p[k], f[k], f[k + 1])
      /\ \A k \in 1..n : Fine(s, q[k], g[k]) /\ Takes(s, q[k], g[k], g[k + 1])
  BY <1>3, <1>4 DEF Works
<1> HIDE DEF r, m, n
<1> DEFINE st == Splice(m, n, f, g)
<1>6. /\ \A k \in 1..(m + 1) : st[k] = f[k]
      /\ \A k \in 1..(n + 1) : st[m + k] = g[k]
  BY <1>2, <1>3, <1>4, Spliced
<1> HIDE DEF st
<1>7. Works(s, r, st)
  <2> SUFFICES ASSUME NEW k \in 1..(m + n)
               PROVE  Fine(s, r[k], st[k]) /\ Takes(s, r[k], st[k], st[k + 1])
    BY <1>2 DEF Works
  <2>1. k \in 1..m \/ \E j \in 1..n : k = m + j
    BY <1>2, JoinedPlaces
  <2>2. CASE k \in 1..m
    <3>1. k \in 1..(m + 1) /\ k + 1 \in 1..(m + 1)
      BY <1>2, <2>2
    <3>2. r[k] = p[k] /\ st[k] = f[k] /\ st[k + 1] = f[k + 1]
      BY <1>2, <1>6, <2>2, <3>1
    <3> QED
      BY <1>5, <2>2, <3>2
  <2>3. ASSUME NEW j \in 1..n, k = m + j
        PROVE  Fine(s, r[k], st[k]) /\ Takes(s, r[k], st[k], st[k + 1])
    <3>1. j \in 1..(n + 1) /\ j + 1 \in 1..(n + 1) /\ k + 1 = m + (j + 1)
      BY <1>2, <2>3
    <3>2. r[k] = q[j] /\ st[k] = g[j] /\ st[k + 1] = g[j + 1]
      BY <1>2, <1>6, <2>3, <3>1
    <3> QED
      BY <1>5, <3>2
  <2> QED
    BY <2>1, <2>2, <2>3
<1>8. st[1] = x /\ st[Len(r) + 1] = z
  <2>1. 1 \in 1..(m + 1) /\ n + 1 \in 1..(n + 1) /\ Len(r) + 1 = m + (n + 1)
    BY <1>2
  <2> QED
    BY <1>3, <1>4, <1>6, <2>1
<1>9. Passes(s, r, x, z)
  BY <1>2, <1>7, <1>8 DEF Passes
<1> QED
  BY <1>9 DEF r

LEMMA PassNothing == ASSUME NEW s, NEW x PROVE Passes(s, <<>>, x, x)
<1> DEFINE st == [k \in {1} |-> x]
<1>1. <<>> \in Seq(All(s)) /\ Len(<<>>) = 0 /\ 1..0 = {} /\ 0 + 1 = 1
  OBVIOUS
<1>2. Works(s, <<>>, st) /\ st[1] = x
  BY <1>1 DEF Works
<1> HIDE DEF st
<1> QED
  BY <1>1, <1>2 DEF Passes

LEMMA PassOne ==
    ASSUME NEW s, NEW b \in All(s), NEW x, NEW y, Fine(s, b, x), Takes(s, b, x, y)
    PROVE  Passes(s, <<b>>, x, y)
<1> DEFINE p == <<b>>
           st == [k \in {1, 2} |-> IF k = 1 THEN x ELSE y]
<1>1. p \in Seq(All(s)) /\ Len(p) = 1 /\ p[1] = b
  OBVIOUS
<1>2. 1..1 = {1} /\ 1 + 1 = 2
  OBVIOUS
<1>3. st[1] = x /\ st[2] = y
  OBVIOUS
<1> HIDE DEF p, st
<1>4. Works(s, p, st)
  BY <1>1, <1>2, <1>3 DEF Works
<1>5. Passes(s, p, x, y)
  BY <1>1, <1>2, <1>3, <1>4 DEF Passes
<1> QED
  BY <1>5 DEF p

-------------------------------------------------------------------------------
(* Each block on the machine *)

\* The modes a cycle is in: the offsets set so far are the feature's place.
Sound(s, w, o, F) ==
    /\ w \in WorkSystems /\ o \in [WorkSystems -> Points]
    /\ \A q \in F : q \in WorkSystems \X Axes /\ o[q[1]][q[2]] = s.feature[q[2]]

LEMMA ModalParts ==
    ASSUME NEW d, NEW w, NEW o, NEW F
    PROVE  /\ Modal(d, w, o, F).dist = d /\ Modal(d, w, o, F).active = w
           /\ Modal(d, w, o, F).offset = o /\ Modal(d, w, o, F).fixed = F
BY DEF Modal

LEMMA MachineParts ==
    ASSUME NEW m, NEW p, NEW v
    PROVE  Machine(m, p, v).modal = m /\ Machine(m, p, v).pos = p /\ Machine(m, p, v).var = v
BY DEF Machine

LEMMA SoundRight ==
    ASSUME NEW s, NEW d, NEW w, NEW o, NEW F, Sound(s, w, o, F)
    PROVE  Right(s, Modal(d, w, o, F))
BY ModalParts DEF Sound, Right

\* Absolute and incremental coordinates.
LEMMA Bases ==
    ASSUME NEW w, NEW o, NEW F, NEW p, NEW a
    PROVE  /\ Base(Modal("G90", w, o, F), p, a) = o[w][a]
           /\ Base(Modal("G91", w, o, F), p, a) = p[a]
<1>1. "G91" # "G90"
  OBVIOUS
<1> QED
  BY <1>1, ModalParts DEF Base

LEMMA GoalOne ==
    ASSUME NEW g, NEW a \in Axes, NEW n \in Int, NEW m, NEW p \in Points
    PROVE  Goal([op |-> g, to |-> To(a, n)], m, p) = Put(p, a, n + Base(m, p, a))
<1> DEFINE b == [op |-> g, to |-> To(a, n)]
<1>1. DOMAIN b.to = {a} /\ b.to[a] = n
  BY DEF To
<1>2. Put(p, a, n + Base(m, p, a))
      = [x \in Axes |-> IF x = a THEN n + Base(m, p, a) ELSE p[x]]
  BY DEF Put, Points
<1> HIDE DEF b
<1>3. Goal(b, m, p) = [x \in Axes |-> IF x = a THEN n + Base(m, p, a) ELSE p[x]]
  BY <1>1 DEF Goal
<1> QED
  BY <1>2, <1>3 DEF b

\* A positioning move within a free region.
LEMMA PassWay ==
    ASSUME NEW s, Proper(s), NEW r, Free(s, r), NEW d, NEW w, NEW o, NEW F,
           Sound(s, w, o, F), NEW p \in Spots(r), NEW q \in Spots(r), NEW v,
           NEW g \in {"G00", "G01"}, NEW to \in Targets,
           q = Goal([op |-> g, to |-> to], Modal(d, w, o, F), p)
    PROVE  Passes(s, Move(g, to), Machine(Modal(d, w, o, F), p, v),
                  Machine(Modal(d, w, o, F), q, v))
<1> DEFINE b == [op |-> g, to |-> to]
           m == Modal(d, w, o, F)
           x == Machine(m, p, v)
           y == Machine(m, q, v)
<1>1. b \in All(s)
  BY DEF All, Blocks, Still, Plain, Moves, MoveOps
<1>2. Right(s, m) /\ \A c \in s.solid : ~Crosses(c, p, q)
  BY SoundRight, WayFree DEF Proper
<1>3. x.modal = m /\ x.pos = p /\ x.var = v
  BY MachineParts
<1>4. b.op \in {"G00", "G01"} /\ b.op = g
  OBVIOUS
<1> HIDE DEF b, m, x
<1>5. Fine(s, b, x)
  BY <1>2, <1>3, <1>4 DEF Fine, b, m
<1>6. Takes(s, b, x, y)
  <2>1. /\ g # "G31" /\ g \notin {"G90", "G91"} /\ g \notin WorkSystems /\ g # "G28"
        /\ g # "read" /\ g # "mid" /\ g # "shift" /\ g # "G10" /\ g # "G65"
    BY DEF WorkSystems
  <2>2. y = Machine(x.modal, Goal(b, x.modal, x.pos), x.var)
    BY <1>3 DEF b, m
  <2> HIDE DEF y
  <2> QED
    BY <1>4, <2>1, <2>2 DEF Takes
<1>7. Passes(s, <<b>>, x, y)
  BY <1>1, <1>5, <1>6, PassOne
<1> QED
  BY <1>7 DEF Move, b, m, x

LEMMA ToTarget == ASSUME NEW a \in Axes, NEW n \in Int PROVE To(a, n) \in Targets
<1>1. To(a, n) \in [{a} -> Int] /\ {a} \in SUBSET Axes
  BY DEF To
<1> QED
  BY <1>1 DEF Targets

LEMMA PassRapid ==
    ASSUME NEW s, Proper(s), NEW r, Free(s, r), NEW d, NEW w, NEW o, NEW F,
           Sound(s, w, o, F), NEW p \in Spots(r), NEW v, NEW a \in Axes, NEW n \in Int,
           NEW x \in Int, x = n + Base(Modal(d, w, o, F), p, a), Covers(r, a, x)
    PROVE  /\ Put(p, a, x) \in Spots(r)
           /\ Passes(s, Rapid(a, n), Machine(Modal(d, w, o, F), p, v),
                     Machine(Modal(d, w, o, F), Put(p, a, x), v))
           /\ Passes(s, Feed(a, n), Machine(Modal(d, w, o, F), p, v),
                     Machine(Modal(d, w, o, F), Put(p, a, x), v))
<1> DEFINE q == Put(p, a, x)
           to == To(a, n)
<1>1. q \in Spots(r) /\ to \in Targets /\ p \in Points
  BY PutSpot, ToTarget, SpotPoint
<1>2. \A g : q = Goal([op |-> g, to |-> to], Modal(d, w, o, F), p)
  BY <1>1, GoalOne
<1> HIDE DEF q, to
<1>3. \A g \in {"G00", "G01"} :
         Passes(s, Move(g, to), Machine(Modal(d, w, o, F), p, v),
                Machine(Modal(d, w, o, F), q, v))
  BY <1>1, <1>2, PassWay
<1> QED
  BY <1>1, <1>3 DEF Rapid, Feed, q, to

\* A skip move towards a walled end of a free region.
LEMMA PassProbe ==
    ASSUME NEW s, Proper(s), NEW r, Free(s, r), NEW d, NEW w, NEW o, NEW F,
           Sound(s, w, o, F), NEW p \in Spots(r), NEW v, NEW a \in Axes, NEW n \in Int,
           NEW x \in Int, x = n + Base(Modal(d, w, o, F), p, a),
           NEW end \in {1, 2}, Walled(s, r, a, end, p["Z"]), Beyond(r, a, end, x)
    PROVE  /\ Put(p, a, r[a][end]) \in Spots(r)
           /\ Passes(s, Probe(a, n), Machine(Modal(d, w, o, F), p, v),
                     Machine(Modal(d, w, o, F), Put(p, a, r[a][end]), v))
<1> DEFINE f == r[a][end]
           q == Put(p, a, f)
           to == To(a, n)
           b == [op |-> "G31", to |-> to]
           m == Modal(d, w, o, F)
           t == Put(p, a, x)
           xx == Machine(m, p, v)
           y == Machine(m, q, v)
<1>1. f \in Int /\ p \in Points /\ to \in Targets /\ Covers(r, a, f)
  <2>1. /\ r[a] \in Int \X Int /\ p[a] \in Int /\ p \in Points
        /\ r[a][1] <= p[a] /\ p[a] <= r[a][2]
    BY SpotPoint DEF Free, Regions, Covers
  <2> QED
    BY <2>1, ToTarget DEF Covers
<1> HIDE DEF f
<1>2. q \in Spots(r)
  BY <1>1, PutSpot
<1>3. Goal(b, m, p) = t /\ t[a] = x
  <2>1. t[a] = x
    BY <1>1, PutPoint
  <2>2. Goal(b, m, p) = t
    BY <1>1, GoalOne
  <2> QED
    BY <2>1, <2>2
<1> USE DEF f
<1>4. Met(s, p, a, x) # {} /\ First(p, a, Met(s, p, a, x)) = f
  BY MeetsTheWall
<1>5. b \in All(s)
  BY <1>1 DEF All, Blocks, Still, Plain, Moves, MoveOps
<1>6. DOMAIN b.to = {a} /\ b.op = "G31"
  BY DEF To
<1>7. Right(s, m)
  BY SoundRight
<1>8. xx.modal = m /\ xx.pos = p /\ xx.var = v
  BY MachineParts
<1> HIDE DEF b, m, xx, t, to, q, f
<1>9. Fine(s, b, xx)
  BY <1>3, <1>4, <1>6, <1>7, <1>8 DEF Fine
<1>10. Touched(s, p, a, t) = q
  BY <1>3, <1>4 DEF Touched, q
<1> HIDE DEF y
<1>11. Takes(s, b, xx, y)
  <2>1. "G31" \notin WorkSystems
    BY DEF WorkSystems
  <2>2. y = Machine(m, Touched(s, p, a, t), v)
    BY <1>10 DEF y
  <2> QED
    BY <1>3, <1>6, <1>8, <2>1, <2>2 DEF Takes
<1>12. Passes(s, <<b>>, xx, y)
  BY <1>5, <1>9, <1>11, PassOne
<1> QED
  BY <1>2, <1>12 DEF Probe, Move, b, m, xx, y, to, q, f

\* What is assigned to a macro variable.
LEMMA PassAssign ==
    ASSUME NEW s, NEW d, NEW w, NEW o, NEW F, Sound(s, w, o, F), NEW p, NEW v
    PROVE  /\ \A n \in Int, a \in Axes :
                Passes(s, Read(n, a), Machine(Modal(d, w, o, F), p, v),
                       Machine(Modal(d, w, o, F), p, Put(v, n, p[a])))
           /\ \A n, l, h \in Int :
                Passes(s, Mid(n, l, h), Machine(Modal(d, w, o, F), p, v),
                       Machine(Modal(d, w, o, F), p, Put(v, n, (v[l] + v[h]) \div 2)))
           /\ \A n, e \in Int :
                Passes(s, Shift(n, e), Machine(Modal(d, w, o, F), p, v),
                       Machine(Modal(d, w, o, F), p, Put(v, n, v[n] + e)))
<1> DEFINE m == Modal(d, w, o, F)
           x == Machine(m, p, v)
<1>1. x.modal = m /\ x.pos = p /\ x.var = v /\ Right(s, m)
  BY MachineParts, SoundRight
<1>2. "read" \notin WorkSystems /\ "mid" \notin WorkSystems /\ "shift" \notin WorkSystems
  BY DEF WorkSystems
<1> HIDE DEF m, x
<1>3. ASSUME NEW n \in Int, NEW a \in Axes
      PROVE  Passes(s, Read(n, a), x, Machine(m, p, Put(v, n, p[a])))
  <2> DEFINE b == [op |-> "read", var |-> n, axis |-> a]
             y == Machine(m, p, Put(v, n, p[a]))
  <2>1. b \in All(s) /\ b.op = "read" /\ b.var = n /\ b.axis = a
    BY DEF All, Blocks, Still, Plain, Assigns
  <2> HIDE DEF b
  <2>2. y = Machine(m, x.pos, Put(x.var, b.var, x.pos[b.axis]))
    BY <1>1, <2>1
  <2> HIDE DEF y
  <2>3. Fine(s, b, x) /\ Takes(s, b, x, y)
    BY <1>1, <1>2, <2>1, <2>2 DEF Fine, Takes
  <2> QED
    BY <2>1, <2>3, PassOne DEF Read, b, y
<1>4. ASSUME NEW n \in Int, NEW l \in Int, NEW h \in Int
      PROVE  Passes(s, Mid(n, l, h), x, Machine(m, p, Put(v, n, (v[l] + v[h]) \div 2)))
  <2> DEFINE b == [op |-> "mid", var |-> n, of |-> <<l, h>>]
             y == Machine(m, p, Put(v, n, (v[l] + v[h]) \div 2))
  <2>1. /\ b \in All(s) /\ b.op = "mid" /\ b.var = n
        /\ b.of[1] = l /\ b.of[2] = h
    BY DEF All, Blocks, Still, Plain, Assigns
  <2> HIDE DEF b
  <2>2. y = Machine(m, x.pos,
                    Put(x.var, b.var, (x.var[b.of[1]] + x.var[b.of[2]]) \div 2))
    BY <1>1, <2>1
  <2> HIDE DEF y
  <2>3. Fine(s, b, x) /\ Takes(s, b, x, y)
    BY <1>1, <1>2, <2>1, <2>2 DEF Fine, Takes
  <2> QED
    BY <2>1, <2>3, PassOne DEF Mid, b, y
<1>5. ASSUME NEW n \in Int, NEW e \in Int
      PROVE  Passes(s, Shift(n, e), x, Machine(m, p, Put(v, n, v[n] + e)))
  <2> DEFINE b == [op |-> "shift", var |-> n, by |-> e]
             y == Machine(m, p, Put(v, n, v[n] + e))
  <2>1. b \in All(s) /\ b.op = "shift" /\ b.var = n /\ b.by = e
    BY DEF All, Blocks, Still, Plain, Assigns
  <2> HIDE DEF b
  <2>2. y = Machine(m, x.pos, Put(x.var, b.var, x.var[b.var] + b.by))
    BY <1>1, <2>1
  <2> HIDE DEF y
  <2>3. Fine(s, b, x) /\ Takes(s, b, x, y)
    BY <1>1, <1>2, <2>1, <2>2 DEF Fine, Takes
  <2> QED
    BY <2>1, <2>3, PassOne DEF Shift, b, y
<1> QED
  BY <1>3, <1>4, <1>5 DEF m, x

\* A change of distance mode or of the work system.
LEMMA PassWord ==
    ASSUME NEW s, NEW d, NEW w, NEW o, NEW F, Sound(s, w, o, F), NEW p, NEW v
    PROVE  /\ \A g \in {"G90", "G91"} :
                Passes(s, Word(g), Machine(Modal(d, w, o, F), p, v),
                       Machine(Modal(g, w, o, F), p, v))
           /\ s.wcs \in WorkSystems =>
                Passes(s, Word(s.wcs), Machine(Modal(d, w, o, F), p, v),
                       Machine(Modal(d, s.wcs, o, F), p, v))
<1> DEFINE m == Modal(d, w, o, F)
           x == Machine(m, p, v)
<1>1. x.modal = m /\ x.pos = p /\ x.var = v /\ Right(s, m)
  BY MachineParts, SoundRight
<1>2. m.dist = d /\ m.active = w /\ m.offset = o /\ m.fixed = F
  BY ModalParts
<1> HIDE DEF m, x
<1>3. ASSUME NEW g \in {"G90", "G91"}
      PROVE  Passes(s, Word(g), x, Machine(Modal(g, w, o, F), p, v))
  <2> DEFINE b == [op |-> g]
             y == Machine(Modal(g, w, o, F), p, v)
  <2>1. b \in All(s) /\ b.op = g
    BY DEF All, Blocks, Still, ModeWords
  <2>2. g \in {"G90", "G91"} /\ g \notin WorkSystems
    BY DEF WorkSystems
  <2>3. y = Machine(Modal(b.op, m.active, m.offset, m.fixed), x.pos, x.var)
    BY <1>1, <1>2, <2>1
  <2> HIDE DEF b, y
  <2>4. Fine(s, b, x) /\ Takes(s, b, x, y)
    BY <1>1, <2>1, <2>2, <2>3 DEF Fine, Takes
  <2> QED
    BY <2>1, <2>4, PassOne DEF Word, b, y
<1>4. ASSUME s.wcs \in WorkSystems
      PROVE  Passes(s, Word(s.wcs), x, Machine(Modal(d, s.wcs, o, F), p, v))
  <2> DEFINE b == [op |-> s.wcs]
             y == Machine(Modal(d, s.wcs, o, F), p, v)
  <2>1. b \in All(s) /\ b.op = s.wcs
    BY <1>4 DEF All, Blocks, Still, ModeWords
  <2>2. /\ s.wcs \notin {"G90", "G91", "G00", "G01", "G31", "G28", "read", "mid",
                         "shift", "G10", "G65"}
        /\ b.op \in WorkSystems
    BY <1>4, <2>1 DEF WorkSystems
  <2>3. y = Machine(Modal(m.dist, b.op, m.offset, m.fixed), x.pos, x.var)
    BY <1>1, <1>2, <2>1
  <2> HIDE DEF b, y
  <2>4. Fine(s, b, x)
    BY <1>1, <2>1, <2>2 DEF Fine
  <2>5. Takes(s, b, x, y)
    BY <1>1, <2>1, <2>2, <2>3 DEF Takes
  <2> QED
    BY <2>1, <2>4, <2>5, PassOne DEF Word, b, y
<1> QED
  BY <1>3, <1>4 DEF m, x

\* The end of every program: up to the reference point of Z.
LEMMA PassFooter ==
    ASSUME NEW s, NEW d, NEW w, NEW o, NEW F, Sound(s, w, o, F), NEW p, NEW v
    PROVE  \E y : Passes(s, Footer, Machine(Modal(d, w, o, F), p, v), y)
<1> DEFINE m == Modal("G91", w, o, F)
           x == Machine(m, p, v)
           z == Machine(m, Put(p, "Z", Home), v)
<1>1. /\ x.modal = m /\ x.pos = p /\ x.var = v /\ Right(s, m)
      /\ z.modal = m /\ z.pos = Put(p, "Z", Home) /\ z.var = v
  BY MachineParts, SoundRight
<1>2. Passes(s, Word("G91"), Machine(Modal(d, w, o, F), p, v), x)
  BY PassWord
<1>3. z = Machine(x.modal, Put(x.pos, "Z", Home), x.var)
  BY <1>1
<1> HIDE DEF m, x, z
<1>4. Passes(s, Word("G28"), x, z)
  <2> DEFINE b == [op |-> "G28"]
  <2>1. b \in All(s) /\ b.op = "G28" /\ "G28" \notin WorkSystems
    BY DEF All, Blocks, Still, ModeWords, WorkSystems
  <2> HIDE DEF b
  <2>2. Fine(s, b, x) /\ Takes(s, b, x, z)
    BY <1>1, <1>3, <2>1 DEF Fine, Takes
  <2> QED
    BY <2>1, <2>2, PassOne DEF Word, b
<1>5. Passes(s, Word("M30"), z, z)
  <2> DEFINE b == [op |-> "M30"]
  <2>1. b \in All(s) /\ b.op = "M30" /\ "M30" \notin WorkSystems
    BY DEF All, End, WorkSystems
  <2> HIDE DEF b
  <2>2. Fine(s, b, z) /\ Takes(s, b, z, z)
    BY <1>1, <2>1 DEF Fine, Takes
  <2> QED
    BY <2>1, <2>2, PassOne DEF Word, b
<1>6. Passes(s, Word("G91") \o Word("G28") \o Word("M30"),
             Machine(Modal(d, w, o, F), p, v), z)
  BY ONLY <1>2, <1>4, <1>5, PassJoined
<1> QED
  BY <1>6 DEF Footer

\* The offsets after those of some axes have been set, if the request says so.
Placing(s, o, A) ==
    [w \in WorkSystems |->
       [a \in Axes |-> IF s.set_wcs /\ w = System(s) /\ a \in A THEN s.feature[a]
                       ELSE o[w][a]]]

LEMMA PlacingSound ==
    ASSUME NEW s, NEW w, NEW o, NEW F, Sound(s, w, o, F), NEW A \in SUBSET Axes,
           \A a \in A : s.feature[a] \in Int
    PROVE  Sound(s, w, Placing(s, o, A), F \cup Pairs(s, A))
<1> DEFINE N == Placing(s, o, A)
<1>1. System(s) \in WorkSystems
  BY DEF System, WorkSystems
<1>2. \A x \in WorkSystems, a \in Axes :
         /\ s.set_wcs /\ x = System(s) /\ a \in A => N[x][a] = s.feature[a]
         /\ ~(s.set_wcs /\ x = System(s) /\ a \in A) => N[x][a] = o[x][a]
  BY DEF Placing
<1>3. N \in [WorkSystems -> Points]
  <2>1. \A x \in WorkSystems, a \in Axes : o[x][a] \in Int
    BY DEF Sound, Points
  <2>2. \A x \in WorkSystems, a \in Axes : N[x][a] \in Int
    BY <1>2, <2>1
  <2>3. DOMAIN N = WorkSystems
    BY DEF Placing
  <2>4. \A x \in WorkSystems : N[x] \in Points
    <3> TAKE x \in WorkSystems
    <3>1. N[x] = [a \in Axes |-> N[x][a]]
      BY DEF Placing
    <3> HIDE DEF N
    <3> QED
      BY <2>2, <3>1 DEF Points
  <2>5. N = [x \in WorkSystems |-> N[x]]
    BY DEF Placing
  <2> HIDE DEF N
  <2> QED
    BY <2>4, <2>5
<1> HIDE DEF N
<1>4. ASSUME NEW q \in F \cup Pairs(s, A)
      PROVE  q \in WorkSystems \X Axes /\ N[q[1]][q[2]] = s.feature[q[2]]
  <2>1. CASE q \in Pairs(s, A)
    <3>1. s.set_wcs /\ q = <<q[1], q[2]>> /\ q[1] = System(s) /\ q[2] \in A
      BY <2>1 DEF Pairs
    <3> QED
      BY <1>1, <1>2, <3>1
  <2>2. CASE q \in F
    <3>1. q \in WorkSystems \X Axes /\ o[q[1]][q[2]] = s.feature[q[2]]
      BY <2>2 DEF Sound
    <3> QED
      BY <1>2, <3>1
  <2> QED
    BY <2>1, <2>2
<1>5. Sound(s, w, N, F \cup Pairs(s, A))
  BY <1>3, <1>4 DEF Sound
<1> QED
  BY <1>5 DEF N

LEMMA PlacingSet ==
    ASSUME NEW s, s.set_wcs, NEW o, NEW A, NEW a \in Axes, a \in A
    PROVE  Placing(s, o, A)[System(s)][a] = s.feature[a]
<1>1. System(s) \in WorkSystems
  BY DEF System, WorkSystems
<1> QED
  BY <1>1 DEF Placing

LEMMA PlacingKeeps ==
    ASSUME NEW s, NEW o, NEW A, NEW a \in Axes, a \notin A, NEW w \in WorkSystems
    PROVE  Placing(s, o, A)[w][a] = o[w][a]
BY DEF Placing

\* A block that sets the offsets of some axes to the feature's place.
LEMMA PassPlacing ==
    ASSUME NEW s, NEW d, NEW w, NEW o, NEW F, Sound(s, w, o, F), NEW p, NEW v
    PROVE  /\ \A a \in Axes, n \in Int : v[n] = s.feature[a] =>
                Passes(s, SetWcs(s, a, n), Machine(Modal(d, w, o, F), p, v),
                       Machine(Modal(d, w, Placing(s, o, {a}), F \cup Pairs(s, {a})),
                               p, v))
           /\ s.set_wcs \in BOOLEAN => \A A \in SUBSET Axes :
                Passes(s, Macro(s, A), Machine(Modal(d, w, o, F), p, v),
                       Machine(Modal(d, w, Placing(s, o, A), F \cup Pairs(s, A)), p, v))
<1> DEFINE m == Modal(d, w, o, F)
           x == Machine(m, p, v)
           sys == System(s)
<1>1. x.modal = m /\ x.pos = p /\ x.var = v /\ Right(s, m)
  BY MachineParts, SoundRight
<1>2. m.dist = d /\ m.active = w /\ m.offset = o /\ m.fixed = F
  BY ModalParts
<1>3. sys \in WorkSystems /\ o \in [WorkSystems -> [Axes -> Int]]
  BY DEF System, WorkSystems, Sound, Points
<1>4. "G10" \notin WorkSystems /\ "G65" \notin WorkSystems
  BY DEF WorkSystems
<1> HIDE DEF m, x
<1>5. ASSUME ~s.set_wcs, NEW A PROVE Placing(s, o, A) = o /\ F \cup Pairs(s, A) = F
  <2>1. \A y \in WorkSystems : o[y] = [a \in Axes |-> o[y][a]]
    BY <1>3
  <2>2. o = [y \in WorkSystems |-> [a \in Axes |-> o[y][a]]]
    BY <1>3, <2>1
  <2> QED
    BY <1>5, <2>2 DEF Placing, Pairs
<1>6. ASSUME NEW a \in Axes, NEW n \in Int, v[n] = s.feature[a]
      PROVE  Passes(s, SetWcs(s, a, n), x,
                    Machine(Modal(d, w, Placing(s, o, {a}), F \cup Pairs(s, {a})), p, v))
  <2>1. CASE s.set_wcs
    <3> DEFINE b == [op |-> "G10", wcs |-> System(s), axis |-> a, var |-> n]
               N == Placing(s, o, {a})
               G == F \cup Pairs(s, {a})
               y == Machine(Modal(d, w, N, G), p, v)
    <3>1. b \in All(s) /\ b.op = "G10" /\ b.wcs = sys /\ b.axis = a /\ b.var = n
      BY <2>1 DEF All, Blocks, G10s
    <3>2. [o EXCEPT ![sys][a] = v[n]] = N
      BY <1>3, <1>6, <2>1 DEF Placing
    <3>3. F \cup {<<sys, a>>} = G
      BY <2>1 DEF Pairs
    <3> HIDE DEF b, N, G, sys
    <3>4. y = Machine(Modal(m.dist, m.active,
                            [m.offset EXCEPT ![b.wcs][b.axis] = x.var[b.var]],
                            m.fixed \cup {<<b.wcs, b.axis>>}), x.pos, x.var)
      BY <1>1, <1>2, <3>1, <3>2, <3>3
    <3> HIDE DEF y
    <3>5. Fine(s, b, x)
      BY <1>1, <3>1 DEF Fine
    <3>6. Takes(s, b, x, y)
      BY <1>1, <1>4, <3>1, <3>4 DEF Takes
    <3>7. Passes(s, <<b>>, x, y)
      BY <3>1, <3>5, <3>6, PassOne
    <3>8. SetWcs(s, a, n) = <<b>>
      BY <2>1 DEF SetWcs, When, b, sys
    <3> QED
      BY <3>7, <3>8 DEF y, N, G
  <2>2. CASE ~s.set_wcs
    <3>1. SetWcs(s, a, n) = <<>>
      BY <2>2 DEF SetWcs, When
    <3>2. Passes(s, <<>>, x, Machine(Modal(d, w, o, F), p, v))
      BY PassNothing DEF x, m
    <3> QED
      BY <1>5, <2>2, <3>1, <3>2
  <2> QED
    BY <2>1, <2>2
<1>7. ASSUME s.set_wcs \in BOOLEAN, NEW A \in SUBSET Axes
      PROVE  Passes(s, Macro(s, A), x,
                    Machine(Modal(d, w, Placing(s, o, A), F \cup Pairs(s, A)), p, v))
  <2> DEFINE b == [op |-> "G65", axes |-> A, wcs |-> System(s), set |-> s.set_wcs]
             N == Placing(s, o, A)
             G == F \cup Pairs(s, A)
             y == Machine(Modal(d, w, N, G), p, v)
  <2>1. b \in All(s) /\ b.op = "G65" /\ b.wcs = sys /\ b.axes = A /\ b.set = s.set_wcs
    BY DEF All, Blocks, Macros
  <2>2. ASSUME s.set_wcs
        PROVE  /\ [o EXCEPT ![sys] = [a \in Axes |-> IF a \in A THEN s.feature[a]
                                                     ELSE @[a]]] = N
               /\ F \cup ({sys} \X A) = G
    <3>1. [o EXCEPT ![sys] = [a \in Axes |-> IF a \in A THEN s.feature[a]
                                             ELSE @[a]]] = N
      <4>1. \A y1 \in WorkSystems : o[y1] = [a \in Axes |-> o[y1][a]]
        BY <1>3
      <4>2. N[sys] = [a \in Axes |-> IF a \in A THEN s.feature[a] ELSE o[sys][a]]
        BY <1>3, <2>2 DEF Placing
      <4>3. \A y1 \in WorkSystems : y1 # sys => N[y1] = o[y1]
        BY <1>3, <4>1 DEF Placing
      <4>4. DOMAIN N = WorkSystems /\ N = [y1 \in WorkSystems |-> N[y1]]
        BY DEF Placing
      <4> HIDE DEF N, sys
      <4> QED
        BY <1>3, <4>2, <4>3, <4>4
    <3>2. F \cup ({sys} \X A) = G
      BY <2>2 DEF Pairs
    <3> QED
      BY <3>1, <3>2
  <2> HIDE DEF b, N, G, sys
  <2>3. Fine(s, b, x)
    BY <1>1, <2>1 DEF Fine
  <2>4. Takes(s, b, x, y)
    <3>1. CASE s.set_wcs
      <4>1. y = Machine(Modal(m.dist, m.active,
                              [m.offset EXCEPT ![b.wcs] =
                                 [a \in Axes |-> IF a \in b.axes THEN s.feature[a]
                                                 ELSE @[a]]],
                              m.fixed \cup ({b.wcs} \X b.axes)), x.pos, x.var)
        BY <1>1, <1>2, <2>1, <2>2, <3>1
      <4> HIDE DEF y
      <4> QED
        BY <1>1, <1>4, <2>1, <3>1, <4>1 DEF Takes
    <3>2. CASE ~s.set_wcs
      <4>1. y = x
        BY <1>5, <3>2 DEF N, G, x, m
      <4> HIDE DEF y
      <4> QED
        BY <1>1, <1>4, <2>1, <3>2, <4>1 DEF Takes
    <3> QED
      BY <3>1, <3>2
  <2>5. Passes(s, <<b>>, x, y)
    BY <2>1, <2>3, <2>4, PassOne
  <2> QED
    BY <2>5 DEF Macro, b, N, G
<1> QED
  BY <1>6, <1>7 DEF m, x

-------------------------------------------------------------------------------
(* The programs that stay in one region of free space *)

\* A wall is touched from one place on the axis, and the stylus taken to another.
LEMMA PassTouch ==
    ASSUME NEW s, Proper(s), NEW r, Free(s, r), NEW w, NEW o, NEW F, Sound(s, w, o, F),
           NEW p \in Spots(r), NEW v, NEW a \in {"X", "Y"}, NEW from \in Int,
           NEW target \in Int, NEW n \in Int, NEW back \in Int,
           NEW x1 \in Int, x1 = from + o[w][a], Covers(r, a, x1),
           NEW x2 \in Int, x2 = target + o[w][a], NEW end \in {1, 2},
           Walled(s, r, a, end, p["Z"]), Beyond(r, a, end, x2),
           NEW x3 \in Int, x3 = back + o[w][a], Covers(r, a, x3)
    PROVE  /\ Put(p, a, x3) \in Spots(r)
           /\ Passes(s, Touch(a, from, target, n, back),
                     Machine(Modal("G90", w, o, F), p, v),
                     Machine(Modal("G90", w, o, F), Put(p, a, x3),
                             Put(v, n, r[a][end])))
<1> DEFINE f == r[a][end]
           p1 == Put(p, a, x1)
           p2 == Put(p1, a, f)
           p3 == Put(p2, a, x3)
           u == Put(v, n, f)
           M(q, y) == Machine(Modal("G90", w, o, F), q, y)
<1>1. a \in Axes /\ a # "Z" /\ "Z" \in Axes
  BY DEF Axes
<1>2. o[w][a] \in Int /\ f \in Int /\ p \in Points
  BY <1>1, SpotPoint DEF Sound, Points, Free, Regions
<1>3. \A q : /\ x1 = from + Base(Modal("G90", w, o, F), q, a)
             /\ x2 = target + Base(Modal("G90", w, o, F), q, a)
             /\ x3 = back + Base(Modal("G90", w, o, F), q, a)
  BY Bases
<1>4. p1 \in Spots(r) /\ Passes(s, Rapid(a, from), M(p, v), M(p1, v))
  BY <1>1, <1>3, PassRapid
<1>5. p1 \in Points /\ p1["Z"] = p["Z"]
  <2>1. p1 \in Points
    BY <1>1, <1>2, PutPoint
  <2>2. p1["Z"] = p["Z"]
    BY <1>1, <1>2 DEF p1, Put, Points
  <2> QED
    BY <2>1, <2>2
<1> HIDE DEF p1
<1>6. p2 \in Spots(r) /\ Passes(s, Probe(a, target), M(p1, v), M(p2, v))
  BY <1>1, <1>3, <1>4, <1>5, PassProbe
<1>7. p2[a] = f
  BY <1>1, <1>5 DEF p2, Put, Points
<1>8. Passes(s, Read(n, a), M(p2, v), M(p2, u))
  <2>1. Passes(s, Read(n, a), M(p2, v), M(p2, Put(v, n, p2[a])))
    BY <1>1, PassAssign
  <2> QED
    BY <1>7, <2>1
<1> HIDE DEF p2, u
<1>9. p3 \in Spots(r) /\ Passes(s, Rapid(a, back), M(p2, u), M(p3, u))
  BY <1>1, <1>3, <1>6, PassRapid
<1>10. p3 = Put(p, a, x3)
  <2>1. p3 = Put(p1, a, x3)
    BY PutTwice DEF p2
  <2>2. Put(p1, a, x3) = Put(p, a, x3)
    BY PutTwice DEF p1
  <2> QED
    BY <2>1, <2>2
<1> HIDE DEF p3, M
<1>11. Passes(s, Rapid(a, from) \o Probe(a, target) \o Read(n, a) \o Rapid(a, back),
              M(p, v), M(p3, u))
  BY ONLY <1>4, <1>6, <1>8, <1>9, PassJoined
<1> QED
  BY <1>9, <1>10, <1>11 DEF Touch, M, u, f

\* The machine a request meets.
Start(s) ==
    Machine(Modal("G90", s.active, s.offset, {}), s.start, [n \in 100..111 |-> 0])

LEMMA Starting ==
    ASSUME NEW s, s.offset \in [WorkSystems -> [Axes -> Int]], NEW G, Fits(s, G)
    PROVE  /\ Proper(s) /\ Sound(s, s.active, s.offset, {})
           /\ s.start \in Points /\ Zero(s) \in Points
           /\ \A a \in Axes : Zero(s)[a] \in Int
BY DEF Fits, Proper, Sound, Points, Zero

\* Macro variables hold numbers, and each the last one assigned to it.
Values == [100..111 -> Int]

\* Down to the probing height, by way of the clearance.
LEMMA PassDescend ==
    ASSUME NEW s, Proper(s), NEW r, NEW z \in Int, s.clearance \in Int, Shaft(s, r, z),
           Sound(s, s.active, s.offset, {}), NEW v
    PROVE  /\ Put(s.start, "Z", Height(s, z)) \in Spots(r)
           /\ Passes(s, Descend(s, z),
                     Machine(Modal("G90", s.active, s.offset, {}), s.start, v),
                     Machine(Modal("G90", s.active, s.offset, {}),
                             Put(s.start, "Z", Height(s, z)), v))
<1> DEFINE w == s.active
           o == s.offset
           h == Height(s, s.clearance)
           k == Height(s, z)
           p1 == Put(s.start, "Z", h)
           p2 == Put(p1, "Z", k)
           M(q) == Machine(Modal("G90", w, o, {}), q, v)
<1>1. /\ Free(s, r) /\ s.start \in Spots(r) /\ "Z" \in Axes /\ s.start \in Points
      /\ Covers(r, "Z", h) /\ Covers(r, "Z", k)
  BY SpotPoint DEF Shaft, Axes
<1>2. o[w]["Z"] \in Int
  BY <1>1 DEF Sound, Points
<1>3. /\ h \in Int /\ k \in Int /\ h = s.clearance + o[w]["Z"] /\ k = z + o[w]["Z"]
  BY <1>2 DEF Height, Zero
<1>4. \A q : /\ h = s.clearance + Base(Modal("G90", w, o, {}), q, "Z")
             /\ k = z + Base(Modal("G90", w, o, {}), q, "Z")
  BY <1>3, Bases
<1> HIDE DEF h, k
<1>5. p1 \in Spots(r) /\ Passes(s, Rapid("Z", s.clearance), M(s.start), M(p1))
  BY <1>1, <1>3, <1>4, PassRapid
<1>6. p2 = Put(s.start, "Z", k)
  BY <1>1, <1>3, PutTwice
<1> HIDE DEF p1
<1>7. p2 \in Spots(r) /\ Passes(s, Rapid("Z", z), M(p1), M(p2))
  BY <1>1, <1>3, <1>4, <1>5, PassRapid
<1> HIDE DEF M, p2
<1>8. Passes(s, Rapid("Z", s.clearance) \o Rapid("Z", z), M(s.start), M(p2))
  BY ONLY <1>5, <1>7, PassJoined
<1> QED
  BY <1>6, <1>7, <1>8 DEF Descend, M, k

\* Up to the clearance, and the footer.
LEMMA PassRaise ==
    ASSUME NEW s, Proper(s), NEW r, Free(s, r), s.clearance \in Int, NEW w, NEW o, NEW F,
           Sound(s, w, o, F), NEW p \in Spots(r), NEW v,
           o[w]["Z"] = Zero(s)["Z"], Covers(r, "Z", Height(s, s.clearance))
    PROVE  \E x, y : /\ Passes(s, Rapid("Z", s.clearance),
                                Machine(Modal("G90", w, o, F), p, v), x)
                     /\ Passes(s, Footer, x, y)
<1> DEFINE h == Height(s, s.clearance)
           q == Put(p, "Z", h)
<1>1. "Z" \in Axes
  BY DEF Axes
<1>2. o[w]["Z"] \in Int
  BY <1>1 DEF Sound, Points
<1>3. h \in Int /\ h = s.clearance + Base(Modal("G90", w, o, F), p, "Z")
  BY <1>2, Bases DEF Height
<1> HIDE DEF h
<1>4. Passes(s, Rapid("Z", s.clearance), Machine(Modal("G90", w, o, F), p, v),
             Machine(Modal("G90", w, o, F), q, v))
  BY <1>1, <1>3, PassRapid DEF h
<1>5. PICK y : Passes(s, Footer, Machine(Modal("G90", w, o, F), q, v), y)
  BY PassFooter
<1> QED
  BY <1>4, <1>5

LEMMA SurfaceRuns ==
    ASSUME NEW s, s.cycle = "single_surface", Request(s),
           s.offset \in [WorkSystems -> [Axes -> Int]], NEW G, Fits(s, G)
    PROVE  \E y : Passes(s, SingleSurface(s), Start(s), y)
<1> DEFINE sign == IF s.direction = "-" THEN -1 ELSE 1
           a == s.axis
           w == s.active
           o == s.offset
           end1 == s.expected_pos - sign * 50
           x1 == s.approach_pos + o[w][a]
           x2 == end1 + o[w][a]
           v == [n \in 100..111 |-> 0]
           M(p, u) == Machine(Modal("G90", w, o, {}), p, u)
           approach == Rapid(a, s.approach_pos)
           p1 == Put(s.start, a, x1)
<1>1. /\ a \in Axes /\ s.approach_pos \in Int /\ s.expected_pos \in Int
      /\ s.set_wcs \in BOOLEAN /\ sign \in Int
  BY DEF Request, Parameters
<1>2. /\ Proper(s) /\ Sound(s, w, o, {}) /\ s.start \in Points /\ Zero(s)[a] \in Int
      /\ Zero(s)[a] = o[w][a]
  BY <1>1, Starting DEF Zero
<1>3. SurfaceFits(s, G)
  BY DEF Fits
<1>4. /\ Free(s, G) /\ s.start \in Spots(G)
      /\ Covers(G, a, Zero(s)[a] + s.approach_pos)
  BY <1>3 DEF SurfaceFits
<1>5. PICK end \in {1, 2} :
         /\ Walled(s, G, a, end, s.start["Z"])
         /\ Beyond(G, a, end, Zero(s)[a] + s.expected_pos - sign * 50)
         /\ s.feature[a] = G[a][end]
  BY <1>3 DEF SurfaceFits
<1> DEFINE f == G[a][end]
           p2 == Put(p1, a, f)
           p3 == Put(p2, a, x1)
           u == Put(v, 100, f)
<1>6. /\ x1 \in Int /\ end1 \in Int /\ x2 \in Int /\ f \in Int
      /\ x1 = Zero(s)[a] + s.approach_pos
      /\ x2 = Zero(s)[a] + s.expected_pos - sign * 50
  <2> HIDE DEF sign
  <2>1. G[a] \in Int \X Int
    BY <1>1, <1>4 DEF Free, Regions
  <2> QED
    BY <1>1, <1>2, <2>1
<1>7. \A q : /\ x1 = s.approach_pos + Base(Modal("G90", w, o, {}), q, a)
             /\ x2 = end1 + Base(Modal("G90", w, o, {}), q, a)
  BY Bases
<1>8. Covers(G, a, x1) /\ Beyond(G, a, end, x2)
  BY <1>4, <1>5, <1>6
<1>9. Start(s) = M(s.start, v)
  BY DEF Start, v
<1> HIDE DEF x1, x2, end1, a, w, o, v, sign
<1>10. p1 \in Spots(G) /\ Passes(s, approach, M(s.start, v), M(p1, v))
  BY <1>1, <1>2, <1>4, <1>6, <1>7, <1>8, PassRapid
<1>11. Walled(s, G, a, end, p1["Z"])
  <2>1. CASE a = "Z"
    BY <1>5, <2>1 DEF Walled
  <2>2. CASE a # "Z"
    <3>1. p1["Z"] = s.start["Z"]
      BY <1>1, <1>2, <2>2 DEF Put, Points, Axes
    <3> QED
      BY <1>5, <3>1
  <2> QED
    BY <2>1, <2>2
<1> HIDE DEF p1
<1>12. p2 \in Spots(G) /\ Passes(s, Probe(a, end1), M(p1, v), M(p2, v))
  BY <1>1, <1>2, <1>4, <1>6, <1>7, <1>8, <1>10, <1>11, PassProbe
<1>13. p2[a] = f
  BY <1>1, <1>10, SpotPoint DEF Put, Points
<1>14. Passes(s, Read(100, a), M(p2, v), M(p2, u))
  <2>1. Passes(s, Read(100, a), M(p2, v), M(p2, Put(v, 100, p2[a])))
    BY <1>1, <1>2, PassAssign
  <2> QED
    BY <1>13, <2>1
<1>15. u[100] = s.feature[a]
  BY <1>5 DEF Put, v
<1> HIDE DEF p2, u
<1>16. Passes(s, approach, M(p2, u), M(p3, u))
  BY <1>1, <1>2, <1>4, <1>6, <1>7, <1>8, <1>12, PassRapid
<1> DEFINE o1 == Placing(s, o, {a})
           F1 == {} \cup Pairs(s, {a})
           M1(p, y) == Machine(Modal("G90", w, o1, F1), p, y)
<1>17. Sound(s, w, o1, F1)
  BY <1>1, <1>2, <1>5, <1>6, PlacingSound
<1>18. Passes(s, SetWcs(s, a, 100), M(p3, u), M1(p3, u))
  BY <1>1, <1>2, <1>15, Numbers, PassPlacing
<1>19. Passes(s, Macro(s, {a}), M(p1, v), M1(p1, v))
  BY <1>1, <1>2, PassPlacing
<1>20. PICK y : Passes(s, Footer, M1(p3, u), y)
  BY <1>17, PassFooter
<1>21. PICK z : Passes(s, Footer, M1(p1, v), z)
  BY <1>17, PassFooter
<1>22. Passes(s, Header(FALSE), M(s.start, v), M(s.start, v))
  <2>1. Passes(s, Word("G90"), M(s.start, v), M(s.start, v))
    BY <1>2, PassWord
  <2>2. Header(FALSE) = Word("G90")
    BY DEF Header
  <2> QED
    BY <2>1, <2>2
<1> DEFINE manual == Probe(a, end1) \o Read(100, a) \o approach \o SetWcs(s, a, 100)
<1> HIDE DEF p3, M, M1, approach
<1>23. Passes(s, manual, M(p1, v), M1(p3, u))
  BY ONLY <1>12, <1>14, <1>16, <1>18, PassJoined
<1>24. CASE s.mode = "renishaw"
  <2>1. Passes(s, Header(FALSE) \o approach \o Macro(s, {a}) \o Footer, Start(s), z)
    BY ONLY <1>10, <1>19, <1>21, <1>22, <1>9, PassJoined
  <2>2. SingleSurface(s) = Header(FALSE) \o approach \o Macro(s, {a}) \o Footer
    BY <1>24 DEF SingleSurface, approach, a
  <2> QED
    BY <2>1, <2>2
<1>25. CASE s.mode # "renishaw"
  <2>1. SingleSurface(s) = Header(FALSE) \o approach \o manual \o Footer
    BY <1>25 DEF SingleSurface, approach, manual, end1, sign, a
  <2> HIDE DEF manual
  <2>2. Passes(s, Header(FALSE) \o approach \o manual \o Footer, Start(s), y)
    BY ONLY <1>10, <1>20, <1>22, <1>9, <1>23, PassJoined
  <2> QED
    BY <2>1, <2>2
<1> QED
  BY <1>24, <1>25

\* The settings at the end of a cycle that measures X and Y.
Both == {"X", "Y"}

LEMMA PlacingBoth ==
    ASSUME NEW s, NEW w, NEW o, NEW F, Sound(s, w, o, F),
           s.feature["X"] \in Int, s.feature["Y"] \in Int
    PROVE  /\ Sound(s, w, Placing(s, o, Both), F \cup Pairs(s, Both))
           /\ Placing(s, o, Both)[w]["Z"] = o[w]["Z"]
<1>1. /\ Both \in SUBSET Axes /\ (\A a \in Both : s.feature[a] \in Int)
      /\ "Z" \in Axes /\ "Z" \notin Both /\ w \in WorkSystems
  BY DEF Axes, Both, Sound
<1>2. Sound(s, w, Placing(s, o, Both), F \cup Pairs(s, Both))
  BY <1>1, PlacingSound
<1>3. Placing(s, o, Both)[w]["Z"] = o[w]["Z"]
  BY <1>1, PlacingKeeps
<1> QED
  BY <1>2, <1>3

LEMMA PlacingTwice ==
    ASSUME NEW s, NEW o, NEW F
    PROVE  /\ Placing(s, Placing(s, o, {"X"}), {"Y"}) = Placing(s, o, Both)
           /\ (F \cup Pairs(s, {"X"})) \cup Pairs(s, {"Y"}) = F \cup Pairs(s, Both)
<1> DEFINE o2 == Placing(s, Placing(s, o, {"X"}), {"Y"})
           o3 == Placing(s, o, Both)
<1>1. \A x \in WorkSystems, a \in Axes : o2[x][a] = o3[x][a]
  BY DEF Placing, Both
<1>2. \A x \in WorkSystems : /\ o2[x] = [a \in Axes |-> o2[x][a]]
                             /\ o3[x] = [a \in Axes |-> o3[x][a]]
  BY DEF Placing
<1>3. /\ o2 = [x \in WorkSystems |-> o2[x]]
      /\ o3 = [x \in WorkSystems |-> o3[x]]
  BY DEF Placing
<1>4. (F \cup Pairs(s, {"X"})) \cup Pairs(s, {"Y"}) = F \cup Pairs(s, Both)
  BY DEF Pairs, Both
<1> HIDE DEF o2, o3
<1>5. \A x \in WorkSystems : o2[x] = o3[x]
  BY <1>1, <1>2
<1>6. o2 = o3
  BY <1>3, <1>5
<1> QED
  BY <1>4, <1>6 DEF o2, o3

\* The setting of Y, after that of X.
LEMMA PassSecond ==
    ASSUME NEW s, NEW w, NEW o, NEW F, Sound(s, w, o, F), NEW p, NEW v,
           NEW m \in Int, s.feature["X"] \in Int, v[m] = s.feature["Y"]
    PROVE  Passes(s, SetWcs(s, "Y", m),
                  Machine(Modal("G90", w, Placing(s, o, {"X"}), F \cup Pairs(s, {"X"})),
                          p, v),
                  Machine(Modal("G90", w, Placing(s, o, Both), F \cup Pairs(s, Both)),
                          p, v))
<1> DEFINE o1 == Placing(s, o, {"X"})
           F1 == F \cup Pairs(s, {"X"})
           o2 == Placing(s, o1, {"Y"})
           F2 == F1 \cup Pairs(s, {"Y"})
<1>1. "Y" \in Axes /\ {"X"} \in SUBSET Axes /\ {"Y"} \in SUBSET Axes
  BY DEF Axes
<1>2. Sound(s, w, o1, F1)
  <2>1. \A a \in {"X"} : s.feature[a] \in Int
    OBVIOUS
  <2> QED
    BY <1>1, <2>1, PlacingSound
<1>3. o2 = Placing(s, o, Both) /\ F2 = F \cup Pairs(s, Both)
  BY PlacingTwice
<1> HIDE DEF o1, F1
<1>4. Passes(s, SetWcs(s, "Y", m), Machine(Modal("G90", w, o1, F1), p, v),
             Machine(Modal("G90", w, o2, F2), p, v))
  BY <1>1, <1>2, PassPlacing
<1> HIDE DEF o2, F2
<1> QED
  BY <1>3, <1>4 DEF o1, F1

\* The same by macros.
LEMMA PassSecondMacro ==
    ASSUME NEW s, s.set_wcs \in BOOLEAN, NEW w, NEW o, NEW F, Sound(s, w, o, F),
           NEW p, NEW v, s.feature["X"] \in Int
    PROVE  Passes(s, Macro(s, {"Y"}),
                  Machine(Modal("G90", w, Placing(s, o, {"X"}), F \cup Pairs(s, {"X"})),
                          p, v),
                  Machine(Modal("G90", w, Placing(s, o, Both), F \cup Pairs(s, Both)),
                          p, v))
<1> DEFINE o1 == Placing(s, o, {"X"})
           F1 == F \cup Pairs(s, {"X"})
           o2 == Placing(s, o1, {"Y"})
           F2 == F1 \cup Pairs(s, {"Y"})
<1>1. {"X"} \in SUBSET Axes /\ {"Y"} \in SUBSET Axes
  BY DEF Axes
<1>2. Sound(s, w, o1, F1)
  <2>1. \A a \in {"X"} : s.feature[a] \in Int
    OBVIOUS
  <2> QED
    BY <1>1, <2>1, PlacingSound
<1>3. o2 = Placing(s, o, Both) /\ F2 = F \cup Pairs(s, Both)
  BY PlacingTwice
<1> HIDE DEF o1, F1
<1>4. Passes(s, Macro(s, {"Y"}), Machine(Modal("G90", w, o1, F1), p, v),
             Machine(Modal("G90", w, o2, F2), p, v))
  BY <1>1, <1>2, PassPlacing
<1> HIDE DEF o2, F2
<1> QED
  BY <1>3, <1>4 DEF o1, F1

\* What the walls of a hole are to the moves of its cycle.
LEMMA HoleParts ==
    ASSUME NEW s, NEW r, NEW a \in Axes, NEW half \in Nat, NEW z \in Int,
           Zero(s)[a] = z, Free(s, r), Between(s, r, a, half)
    PROVE  /\ Safe(half) \in Int
           /\ Covers(r, a, -Safe(half) + z) /\ Covers(r, a, Safe(half) + z)
           /\ Covers(r, a, 0 + z)
           /\ Beyond(r, a, 2, half + 10 + z) /\ Beyond(r, a, 1, -(half + 10) + z)
           /\ r[a][1] \in Int /\ r[a][2] \in Int
           /\ (r[a][2] + r[a][1]) \div 2 = s.feature[a] /\ s.feature[a] \in Int
<1>1. r[a] \in Int \X Int
  BY DEF Free, Regions
<1>2. Safe(half) \in Nat
  BY DEF Safe
<1>3. /\ Covers(r, a, z - Safe(half)) /\ Covers(r, a, z + Safe(half))
      /\ Beyond(r, a, 1, z - (half + 10)) /\ Beyond(r, a, 2, z + half + 10)
      /\ s.feature[a] = (r[a][1] + r[a][2]) \div 2
  BY DEF Between
<1> DEFINE l == r[a][1]
           h == r[a][2]
           k == Safe(half)
<1>4. /\ l <= z - k /\ z - k <= h /\ l <= z + k /\ z + k <= h
      /\ z - (half + 10) < l /\ h < z + half + 10 /\ l \in Int /\ h \in Int
  BY <1>1, <1>3 DEF Covers, Beyond
<1> HIDE DEF l, h, k
<1>5. k \in Nat
  BY <1>2 DEF k
<1>6. /\ l <= -k + z /\ -k + z <= h /\ l <= k + z /\ k + z <= h
      /\ l <= 0 + z /\ 0 + z <= h
      /\ -(half + 10) + z < l /\ h < half + 10 + z
  BY <1>4, <1>5
<1>7. (h + l) \div 2 = (l + h) \div 2 /\ (l + h) \div 2 \in Int
  <2>1. h + l = l + h /\ l + h \in Int
    BY <1>4
  <2> QED
    BY <2>1
<1> QED
  BY <1>2, <1>3, <1>4, <1>6, <1>7 DEF Covers, Beyond, l, h, k

\* The places of a region at one height.
Level(r, z) == {p \in Spots(r) : p["Z"] = z}

\* How far the two moves of a cycle go to one wall of a hole, and where it is left.
Reaches(end, half, from, target, back, z, x) ==
    /\ IF end = 2 THEN from = -Safe(half) /\ target = half + 10
       ELSE from = Safe(half) /\ target = -(half + 10)
    /\ back \in {from, 0} /\ x = back + z

\* One wall of a hole, touched from the other side of the zero.
LEMMA PassHole ==
    ASSUME NEW s, Proper(s), NEW r, Free(s, r), NEW w, NEW o, NEW F, Sound(s, w, o, F),
           NEW a \in {"X", "Y"}, Zero(s)[a] = o[w][a], NEW half \in Nat,
           Between(s, r, a, half), NEW p \in Level(r, Height(s, s.depth)), NEW v,
           NEW n \in Int, NEW end \in {1, 2}, NEW from, NEW target, NEW back,
           NEW x, Reaches(end, half, from, target, back, o[w][a], x)
    PROVE  /\ Put(p, a, x) \in Level(r, Height(s, s.depth))
           /\ Passes(s, Touch(a, from, target, n, back),
                     Machine(Modal("G90", w, o, F), p, v),
                     Machine(Modal("G90", w, o, F), Put(p, a, x), Put(v, n, r[a][end])))
<1> DEFINE z == o[w][a]
           x1 == from + z
           x2 == target + z
           depth == Height(s, s.depth)
<1>1. a \in Axes /\ a # "Z" /\ "Z" \in Axes /\ p \in Spots(r) /\ p["Z"] = depth
  BY DEF Axes, Level
<1>2. z \in Int
  BY <1>1 DEF Sound, Points
<1>3. /\ Safe(half) \in Int
      /\ Covers(r, a, -Safe(half) + z) /\ Covers(r, a, Safe(half) + z)
      /\ Covers(r, a, 0 + z)
      /\ Beyond(r, a, 2, half + 10 + z) /\ Beyond(r, a, 1, -(half + 10) + z)
  BY <1>1, <1>2, HoleParts
<1>4. /\ from \in Int /\ target \in Int /\ back \in Int
      /\ x1 \in Int /\ x2 \in Int /\ x \in Int
      /\ x1 = from + o[w][a] /\ x2 = target + o[w][a] /\ x = back + o[w][a]
  BY <1>2, <1>3 DEF Reaches
<1>5. Covers(r, a, x1) /\ Covers(r, a, x)
  <2>1. CASE end = 1
    BY <1>3, <2>1 DEF Reaches
  <2>2. CASE end = 2
    BY <1>3, <2>2 DEF Reaches
  <2> QED
    BY <2>1, <2>2
<1>6. Beyond(r, a, end, x2)
  <2>1. CASE end = 1
    BY <1>3, <2>1 DEF Reaches
  <2>2. CASE end = 2
    BY <1>3, <2>2 DEF Reaches
  <2> QED
    BY <2>1, <2>2
<1>7. Walled(s, r, a, end, p["Z"])
  BY <1>1 DEF Between
<1>8. Put(p, a, x)["Z"] = depth
  BY <1>1, <1>4, SpotPoint DEF Put, Points
<1> HIDE DEF x1, x2
<1>9. /\ Put(p, a, x) \in Spots(r)
      /\ Passes(s, Touch(a, from, target, n, back),
                Machine(Modal("G90", w, o, F), p, v),
                Machine(Modal("G90", w, o, F), Put(p, a, x), Put(v, n, r[a][end])))
  BY <1>1, <1>4, <1>5, <1>6, <1>7, PassTouch
<1> QED
  BY <1>8, <1>9 DEF Level

LEMMA HeaderRuns ==
    ASSUME NEW s, NEW w, NEW o, NEW F, Sound(s, w, o, F), NEW p, NEW v
    PROVE  Passes(s, Header(FALSE), Machine(Modal("G90", w, o, F), p, v),
                  Machine(Modal("G90", w, o, F), p, v))
<1>1. Passes(s, Word("G90"), Machine(Modal("G90", w, o, F), p, v),
             Machine(Modal("G90", w, o, F), p, v))
  BY PassWord
<1>2. Header(FALSE) = Word("G90")
  BY DEF Header
<1> QED
  BY <1>1, <1>2

LEMMA PocketRuns ==
    ASSUME NEW s, s.cycle = "pocket_width", Request(s),
           s.offset \in [WorkSystems -> [Axes -> Int]], NEW G, Fits(s, G)
    PROVE  \E y : Passes(s, PocketWidth(s), Start(s), y)
<1> DEFINE half == s.width \div 2
           safe == Safe(half)
           a == s.axis
           w == s.active
           o == s.offset
           v == [n \in 100..111 |-> 0]
           M(p, u) == Machine(Modal("G90", w, o, {}), p, u)
           o1 == Placing(s, o, {a})
           F1 == {} \cup Pairs(s, {a})
           M1(p, u) == Machine(Modal("G90", w, o1, F1), p, u)
           p1 == Put(s.start, "Z", Height(s, s.depth))
           low == G[a][1]
           high == G[a][2]
           v1 == Put(v, 101, high)
           v2 == Put(v1, 102, low)
           v3 == Put(v2, 110, (v2[101] + v2[102]) \div 2)
           raise == Rapid("Z", s.clearance)
<1>1. /\ a \in Axes /\ s.clearance \in Int /\ s.width \in Int /\ s.depth \in Int
      /\ s.set_wcs \in BOOLEAN
  BY DEF Request, Parameters
<1>2. /\ Proper(s) /\ Sound(s, w, o, {}) /\ s.start \in Points /\ Zero(s)[a] \in Int
      /\ Zero(s)[a] = o[w][a]
  BY <1>1, Starting DEF Zero
<1>3. a # "Z" /\ HoleFits(s, G, {a}, half)
  BY DEF Fits
<1>4. /\ half \in Nat /\ Shaft(s, G, s.depth) /\ Between(s, G, a, half)
      /\ a \in {"X", "Y"} /\ Free(s, G) /\ Covers(G, "Z", Height(s, s.clearance))
  BY <1>1, <1>3 DEF HoleFits, Axes, Shaft
<1>5. /\ (high + low) \div 2 = s.feature[a] /\ s.feature[a] \in Int
  BY <1>1, <1>2, <1>4, HoleParts
<1>6. Start(s) = M(s.start, v)
  BY DEF Start
<1>7. Height(s, s.depth) \in Int
  BY <1>1, Starting, AxesNames DEF Height
<1>8. v3[110] = s.feature[a]
  <2>1. v1[101] = high /\ v2[102] = low /\ v2[101] = high /\ v3[110] = (high + low) \div 2
    BY DEF Put
  <2> QED
    BY <1>5, <2>1
<1> HIDE DEF half, a, w, o, v
<1>9. p1 \in Spots(G) /\ Passes(s, Descend(s, s.depth), M(s.start, v), M(p1, v))
  BY <1>1, <1>2, <1>4, PassDescend DEF w, o
<1>10. p1 \in Level(G, Height(s, s.depth))
  BY <1>2, <1>7, <1>9, AxesNames DEF Put, Points, Level
<1> HIDE DEF p1
<1> DEFINE near == -safe
           over == half + 10
           under == -(half + 10)
           x2 == near + o[w][a]
           x3 == 0 + o[w][a]
           p2 == Put(p1, a, x2)
           p3 == Put(p2, a, x3)
<1>11. /\ Reaches(2, half, near, over, near, o[w][a], x2)
      /\ Reaches(1, half, safe, under, 0, o[w][a], x3)
  BY DEF Reaches
<1> HIDE DEF near, over, under, safe, x2, x3
<1>12. /\ p2 \in Level(G, Height(s, s.depth))
       /\ Passes(s, Touch(a, near, over, 101, near), M(p1, v), M(p2, v1))
  BY <1>2, <1>4, <1>11, <1>10, PassHole
<1> HIDE DEF v1, p2
<1>13. /\ p3 \in Level(G, Height(s, s.depth))
       /\ Passes(s, Touch(a, safe, under, 102, 0), M(p2, v1), M(p3, v2))
  BY <1>2, <1>4, <1>11, <1>12, PassHole
<1> HIDE DEF p3
<1>14. p3 \in Spots(G)
  BY <1>13 DEF Level
<1> HIDE DEF v2
<1>15. Passes(s, Mid(110, 101, 102), M(p3, v2), M(p3, v3))
  BY <1>2, PassAssign
<1> HIDE DEF v3
<1>16. Passes(s, SetWcs(s, a, 110), M(p3, v3), M1(p3, v3))
  BY <1>1, <1>2, <1>8, PassPlacing
<1>17. Passes(s, Macro(s, {a}), M(p1, v), M1(p1, v))
  BY <1>1, <1>2, PassPlacing
<1>18. Sound(s, w, o1, F1) /\ o1[w]["Z"] = Zero(s)["Z"]
  <2>1. {a} \in SUBSET Axes /\ (\A b \in {a} : s.feature[b] \in Int)
        /\ "Z" \in Axes \ {a} /\ w \in WorkSystems /\ o[w]["Z"] = Zero(s)["Z"]
    BY <1>1, <1>2, <1>3, <1>5, AxesNames DEF Sound, Zero, w, o
  <2>2. Sound(s, w, o1, F1)
    BY <1>2, <2>1, PlacingSound
  <2>3. o1[w]["Z"] = o[w]["Z"]
    BY <2>1 DEF Placing
  <2> QED
    BY <2>1, <2>2, <2>3
<1> HIDE DEF o1, F1
<1>19. PICK x1, y1 : Passes(s, raise, M1(p3, v3), x1) /\ Passes(s, Footer, x1, y1)
  BY <1>1, <1>2, <1>4, <1>14, <1>18, PassRaise
<1>20. PICK x4, y2 : Passes(s, raise, M1(p1, v), x4) /\ Passes(s, Footer, x4, y2)
  BY <1>1, <1>2, <1>4, <1>9, <1>18, PassRaise
<1>21. Passes(s, Header(FALSE), M(s.start, v), M(s.start, v))
  BY <1>2, HeaderRuns
<1> DEFINE manual == Touch(a, near, over, 101, near) \o Touch(a, safe, under, 102, 0)
                     \o Mid(110, 101, 102) \o SetWcs(s, a, 110)
<1> HIDE DEF M, M1, raise
<1>22. Passes(s, manual, M(p1, v), M1(p3, v3))
  BY ONLY <1>12, <1>13, <1>15, <1>16, PassJoined
<1>23. CASE s.mode = "renishaw"
  <2>1. Passes(s, Header(FALSE) \o Descend(s, s.depth) \o Macro(s, {a}) \o raise \o Footer,
               M(s.start, v), y2)
    BY ONLY <1>9, <1>17, <1>20, <1>21, PassJoined
  <2>2. PocketWidth(s)
        = Header(FALSE) \o Descend(s, s.depth) \o Macro(s, {a}) \o raise \o Footer
    BY <1>23 DEF PocketWidth, raise, a
  <2> QED
    BY <1>6, <2>1, <2>2
<1>24. CASE s.mode # "renishaw"
  <2>1. PocketWidth(s) = Header(FALSE) \o Descend(s, s.depth) \o manual \o raise \o Footer
    BY <1>24 DEF PocketWidth, raise, manual, a, half, safe, near, over, under
  <2> HIDE DEF manual
  <2>2. Passes(s, Header(FALSE) \o Descend(s, s.depth) \o manual \o raise \o Footer,
               M(s.start, v), y1)
    BY ONLY <1>9, <1>19, <1>21, <1>22, PassJoined
  <2> QED
    BY <1>6, <2>1, <2>2
<1> QED
  BY <1>23, <1>24

\* A move sideways stays at its height.
LEMMA PutLevel ==
    ASSUME NEW r, NEW z, NEW p \in Level(r, z), NEW a \in {"X", "Y"}, NEW x \in Int,
           Covers(r, a, x)
    PROVE  Put(p, a, x) \in Level(r, z)
<1>1. a \in Axes /\ a # "Z" /\ "Z" \in Axes /\ p \in Spots(r) /\ p["Z"] = z
  BY DEF Axes, Level
<1>2. Put(p, a, x) \in Spots(r)
  BY <1>1, PutSpot
<1>3. Put(p, a, x)["Z"] = z
  BY <1>1, SpotPoint DEF Put, Points
<1> QED
  BY <1>2, <1>3 DEF Level

\* A positioning move of X and Y.
LEMMA GoalTwo ==
    ASSUME NEW x \in Int, NEW y \in Int, NEW w, NEW o, NEW F, NEW p \in Points,
           NEW x1, x1 = x + o[w]["X"], NEW y1, y1 = y + o[w]["Y"]
    PROVE  /\ [X |-> x, Y |-> y] \in Targets
           /\ Goal([op |-> "G00", to |-> [X |-> x, Y |-> y]], Modal("G90", w, o, F), p)
              = Put(Put(p, "X", x1), "Y", y1)
<1> DEFINE to == [X |-> x, Y |-> y]
           m == Modal("G90", w, o, F)
           b == [op |-> "G00", to |-> to]
<1>1. to \in Targets /\ DOMAIN to = {"X", "Y"} /\ to["X"] = x /\ to["Y"] = y
  <2>1. {"X", "Y"} \in SUBSET Axes /\ to \in [{"X", "Y"} -> Int]
    BY DEF Axes
  <2> QED
    BY <2>1 DEF Targets
<1>2. Base(m, p, "X") = o[w]["X"] /\ Base(m, p, "Y") = o[w]["Y"]
  BY Bases
<1>3. b.to = to
  OBVIOUS
<1> HIDE DEF m, to, b
<1>4. Goal(b, m, p) = [a \in Axes |-> IF a = "X" THEN x1 ELSE IF a = "Y" THEN y1 ELSE p[a]]
  BY <1>1, <1>2, <1>3 DEF Goal
<1>5. Put(Put(p, "X", x1), "Y", y1)
      = [a \in Axes |-> IF a = "X" THEN x1 ELSE IF a = "Y" THEN y1 ELSE p[a]]
  BY DEF Put, Points
<1> QED
  BY <1>1, <1>4, <1>5 DEF m, to, b

LEMMA PassCross ==
    ASSUME NEW s, Proper(s), NEW r, Free(s, r), NEW w, NEW o, NEW F, Sound(s, w, o, F),
           NEW p \in Spots(r), NEW v, NEW x \in Int, NEW y \in Int,
           NEW x1, x1 = x + o[w]["X"], NEW y1, y1 = y + o[w]["Y"],
           Put(Put(p, "X", x1), "Y", y1) \in Spots(r)
    PROVE  Passes(s, Move("G00", [X |-> x, Y |-> y]), Machine(Modal("G90", w, o, F), p, v),
                  Machine(Modal("G90", w, o, F), Put(Put(p, "X", x1), "Y", y1), v))
<1> DEFINE to == [X |-> x, Y |-> y]
           q == Put(Put(p, "X", x1), "Y", y1)
<1>1. p \in Points
  BY SpotPoint
<1>2. to \in Targets /\ Goal([op |-> "G00", to |-> to], Modal("G90", w, o, F), p) = q
  BY <1>1, GoalTwo
<1> HIDE DEF to, q
<1>3. q \in Spots(r)
  BY DEF q
<1> QED
  BY <1>2, <1>3, PassWay DEF to, q

\* The centres of two pairs of contacts.
LEMMA Centres ==
    ASSUME NEW u \in Values, NEW a \in Int, NEW b \in Int, NEW c \in Int, NEW d \in Int
    PROVE  LET v4 == Put(Put(Put(Put(u, 101, a), 102, b), 103, c), 104, d)
               v5 == Put(v4, 110, (v4[101] + v4[102]) \div 2)
               v6 == Put(v5, 111, (v5[103] + v5[104]) \div 2)
           IN  v6[110] = (a + b) \div 2 /\ v6[111] = (c + d) \div 2
<1> DEFINE v1 == Put(u, 101, a)
           v2 == Put(v1, 102, b)
           v3 == Put(v2, 103, c)
           v4 == Put(v3, 104, d)
           v5 == Put(v4, 110, (v4[101] + v4[102]) \div 2)
           v6 == Put(v5, 111, (v5[103] + v5[104]) \div 2)
<1>1. v1 \in Values /\ v1[101] = a
  BY DEF Put, Values
<1> HIDE DEF v1
<1>2. v2 \in Values /\ v2[101] = a /\ v2[102] = b
  BY <1>1 DEF Put, Values
<1> HIDE DEF v2
<1>3. v3 \in Values /\ v3[101] = a /\ v3[102] = b /\ v3[103] = c
  BY <1>2 DEF Put, Values
<1> HIDE DEF v3
<1>4. v4 \in Values /\ v4[101] = a /\ v4[102] = b /\ v4[103] = c /\ v4[104] = d
  BY <1>3 DEF Put, Values
<1> HIDE DEF v4
<1>5. /\ v5 \in Values /\ v5[103] = c /\ v5[104] = d /\ v5[110] = (a + b) \div 2
  <2>1. (a + b) \div 2 \in Int
    OBVIOUS
  <2> QED
    BY <1>4, <2>1 DEF Put, Values
<1> HIDE DEF v5
<1>6. v6[110] = (a + b) \div 2 /\ v6[111] = (c + d) \div 2
  <2>1. (c + d) \div 2 \in Int
    OBVIOUS
  <2> QED
    BY <1>5, <2>1 DEF Put, Values
<1> QED
  BY <1>6 DEF v1, v2, v3, v4, v5, v6

LEMMA BoreRuns ==
    ASSUME NEW s, s.cycle = "bore", Request(s),
           s.offset \in [WorkSystems -> [Axes -> Int]], NEW G, Fits(s, G)
    PROVE  \E y : Passes(s, Bore(s), Start(s), y)
<1> DEFINE half == s.diameter \div 2
           safe == Safe(half)
           near == -safe
           over == half + 10
           under == -(half + 10)
           w == s.active
           o == s.offset
           zx == o[w]["X"]
           zy == o[w]["Y"]
           v == [n \in 100..111 |-> 0]
           M(p, u) == Machine(Modal("G90", w, o, {}), p, u)
           L == Level(G, Height(s, s.depth))
           lowX == G["X"][1]
           highX == G["X"][2]
           lowY == G["Y"][1]
           highY == G["Y"][2]
           nearX == near + zx
           safeX == safe + zx
           zeroX == 0 + zx
           nearY == near + zy
           zeroY == 0 + zy
           v1 == Put(v, 101, highX)
           v2 == Put(v1, 102, lowX)
           v3 == Put(v2, 103, highY)
           v4 == Put(v3, 104, lowY)
           v5 == Put(v4, 110, (v4[101] + v4[102]) \div 2)
           v6 == Put(v5, 111, (v5[103] + v5[104]) \div 2)
           p1 == Put(s.start, "Z", Height(s, s.depth))
           p2 == Put(p1, "X", nearX)
           p3 == Put(p2, "X", safeX)
           p4 == Put(Put(p3, "X", zeroX), "Y", nearY)
           p5 == Put(p4, "Y", highY)
           p6 == Put(p5, "Y", nearY)
           p7 == Put(p6, "Y", zeroY)
           raise == Rapid("Z", s.clearance)
<1>1. /\ s.clearance \in Int /\ s.diameter \in Int /\ s.depth \in Int
      /\ s.set_wcs \in BOOLEAN /\ "X" \in Axes /\ "Y" \in Axes /\ "Z" \in Axes
      /\ {"X", "Y"} \in SUBSET Axes
  BY DEF Request, Parameters, Axes
<1>2. /\ Proper(s) /\ Sound(s, w, o, {}) /\ s.start \in Points
      /\ zx \in Int /\ zy \in Int /\ Zero(s)["X"] = zx /\ Zero(s)["Y"] = zy
  BY <1>1, Starting DEF Zero
<1>3. HoleFits(s, G, {"X", "Y"}, half)
  BY DEF Fits
<1>4. /\ half \in Nat /\ Shaft(s, G, s.depth)
      /\ Between(s, G, "X", half) /\ Between(s, G, "Y", half)
      /\ Free(s, G) /\ Covers(G, "Z", Height(s, s.clearance))
  BY <1>3 DEF HoleFits, Shaft
<1>5. /\ (highX + lowX) \div 2 = s.feature["X"] /\ s.feature["X"] \in Int
      /\ lowX \in Int /\ highX \in Int
  BY ONLY <1>1, <1>2, <1>4, HoleParts
<1>6. /\ (highY + lowY) \div 2 = s.feature["Y"] /\ s.feature["Y"] \in Int
       /\ lowY \in Int /\ highY \in Int
  BY ONLY <1>1, <1>2, <1>4, HoleParts
<1>7. Covers(G, "X", 0 + zx) /\ Covers(G, "Y", -safe + zy) /\ Beyond(G, "Y", 2, half + 10 + zy)
  BY <1>1, <1>2, <1>4, HoleParts
<1>8. v6[110] = s.feature["X"] /\ v6[111] = s.feature["Y"]
  <2>1. v \in Values
    BY DEF Values
  <2> HIDE DEF v, highX, lowX, highY, lowY
  <2>2. v6[110] = (highX + lowX) \div 2 /\ v6[111] = (highY + lowY) \div 2
    BY <1>5, <1>6, <2>1, Centres
  <2> QED
    BY <1>5, <1>6, <2>2
<1>9. safe \in Int /\ near \in Int /\ over \in Int /\ nearX \in Int /\ nearY \in Int
      /\ zeroX \in Int
  <2>1. safe \in Int
    BY <1>4 DEF Safe
  <2> HIDE DEF safe, half
  <2> QED
    BY <1>2, <1>4, <2>1
<1>10. Height(s, s.depth) \in Int
  BY <1>1, Starting DEF Height
<1>11. Start(s) = M(s.start, v)
  BY DEF Start
<1>12. Reaches(2, half, near, over, near, zx, nearX)
  BY DEF Reaches
<1>13. Reaches(1, half, safe, under, safe, zx, safeX)
  BY DEF Reaches
<1>14. Reaches(1, half, safe, under, 0, zy, zeroY)
  BY DEF Reaches
<1>15. Bore(s) = Header(FALSE) \o Descend(s, s.depth) \o
                 (IF s.mode = "renishaw" THEN Macro(s, {"X", "Y"})
                  ELSE Touch("X", near, over, 101, near)
                       \o Touch("X", safe, under, 102, safe)
                       \o Move("G00", [X |-> 0, Y |-> near])
                       \o Probe("Y", over) \o Read(103, "Y") \o Rapid("Y", near)
                       \o Touch("Y", safe, under, 104, 0)
                       \o Mid(110, 101, 102) \o Mid(111, 103, 104)
                       \o SetWcs(s, "X", 110) \o SetWcs(s, "Y", 111))
                 \o raise \o Footer
  BY DEF Bore
<1>16. /\ Covers(G, "X", zeroX) /\ Covers(G, "Y", nearY)
  BY <1>7
<1> DEFINE yover == over + zy
<1>17. /\ yover \in Int /\ Beyond(G, "Y", 2, yover)
  BY <1>2, <1>7, <1>9
<1>18. \A q : /\ nearY = near + Base(Modal("G90", w, o, {}), q, "Y")
              /\ yover = over + Base(Modal("G90", w, o, {}), q, "Y")
  BY Bases
<1>19. p1 \in Spots(G) /\ Passes(s, Descend(s, s.depth), M(s.start, v), M(p1, v))
  BY <1>1, <1>2, <1>4, PassDescend
<1>20. p1 \in L
  BY <1>2, <1>10, <1>19, AxesNames DEF Put, Points, Level
<1>21. nearY = near + o[w]["Y"] /\ zeroX = 0 + o[w]["X"]
  OBVIOUS
<1> HIDE DEF p1, near, over, under, safe, nearX, safeX, zeroX, nearY, zeroY, yover, half, v
<1>22. p2 \in L /\ Passes(s, Touch("X", near, over, 101, near), M(p1, v), M(p2, v1))
  <2>1. p2 \in L
    BY <1>2, <1>4, <1>12, <1>20, PassHole
  <2>2. Passes(s, Touch("X", near, over, 101, near), M(p1, v), M(p2, v1))
    BY <1>2, <1>4, <1>12, <1>20, PassHole
  <2> QED
    BY <2>1, <2>2
<1> HIDE DEF v1, p2
<1>23. p3 \in L /\ Passes(s, Touch("X", safe, under, 102, safe), M(p2, v1), M(p3, v2))
  BY <1>2, <1>4, <1>13, <1>22, PassHole
<1> HIDE DEF v2, p3
<1>24. p4 \in L
  <2> DEFINE q == Put(p3, "X", zeroX)
  <2>1. q \in L
    BY <1>9, <1>16, <1>23, PutLevel
  <2> HIDE DEF q
  <2>2. Put(q, "Y", nearY) \in L
    BY <1>9, <1>16, <2>1, PutLevel
  <2> QED
    BY <2>2 DEF q
<1>25. Passes(s, Move("G00", [X |-> 0, Y |-> near]), M(p3, v2), M(p4, v2))
  <2>1. p3 \in Spots(G) /\ p4 \in Spots(G)
    BY <1>23, <1>24 DEF Level
  <2> QED
    BY <1>2, <1>4, <1>9, <1>21, <2>1, PassCross
<1> HIDE DEF p4
<1>26. Walled(s, G, "Y", 2, p4["Z"])
  BY <1>4, <1>24 DEF Between, Level
<1>27. /\ p5 \in Spots(G) /\ Passes(s, Probe("Y", over), M(p4, v2), M(p5, v2))
  <2>1. p4 \in Spots(G)
    BY <1>24 DEF Level
  <2> QED
    BY <1>1, <1>2, <1>4, <1>9, <1>17, <1>18, <1>26, <2>1, PassProbe
<1>28. Passes(s, Read(103, "Y"), M(p5, v2), M(p5, v3))
  <2>1. p5["Y"] = highY
    BY <1>1, <1>24, SpotPoint DEF Level, Put, Points
  <2>2. Passes(s, Read(103, "Y"), M(p5, v2), M(p5, Put(v2, 103, p5["Y"])))
    BY <1>1, <1>2, PassAssign
  <2> QED
    BY <2>1, <2>2
<1>29. p6 \in Spots(G) /\ Passes(s, Rapid("Y", near), M(p5, v3), M(p6, v3))
  BY <1>1, <1>2, <1>4, <1>9, <1>16, <1>18, <1>27, PassRapid
<1>30. p6 \in L
  <2>1. p6 = Put(p4, "Y", nearY)
    BY PutTwice DEF p5
  <2> QED
    BY <1>9, <1>16, <1>24, <2>1, PutLevel
<1> HIDE DEF v3, p5, p6
<1>31. p7 \in L /\ Passes(s, Touch("Y", safe, under, 104, 0), M(p6, v3), M(p7, v4))
  BY <1>2, <1>4, <1>14, <1>30, PassHole
<1>32. p7 \in Spots(G)
  BY <1>31 DEF Level
<1> HIDE DEF v4, p7
<1>33. Passes(s, Mid(110, 101, 102), M(p7, v4), M(p7, v5))
  BY <1>2, PassAssign
<1> HIDE DEF v5
<1>34. Passes(s, Mid(111, 103, 104), M(p7, v5), M(p7, v6))
  BY <1>2, PassAssign
<1> HIDE DEF v6
<1>35. s.feature["X"] \in Int /\ s.feature["Y"] \in Int
  BY <1>5, <1>6
<1> DEFINE ox == Placing(s, o, {"X"})
           Fx == {} \cup Pairs(s, {"X"})
           o1 == Placing(s, o, Both)
           F1 == {} \cup Pairs(s, Both)
           Mx(p, u) == Machine(Modal("G90", w, ox, Fx), p, u)
           M1(p, u) == Machine(Modal("G90", w, o1, F1), p, u)
<1>36. /\ Passes(s, SetWcs(s, "X", 110), M(p7, v6), Mx(p7, v6))
       /\ Passes(s, SetWcs(s, "Y", 111), Mx(p7, v6), M1(p7, v6))
  <2> HIDE DEF v6, p7, o, w, v
  <2>1. Passes(s, SetWcs(s, "X", 110), M(p7, v6), Mx(p7, v6))
    BY ONLY <1>1, <1>2, <1>8, Numbers, PassPlacing
  <2>2. Passes(s, SetWcs(s, "Y", 111), Mx(p7, v6), M1(p7, v6))
    BY ONLY <1>2, <1>8, <1>35, Numbers, PassSecond
  <2> QED
    BY <2>1, <2>2
<1>37. Passes(s, Macro(s, Both), M(p1, v), M1(p1, v))
  BY <1>1, <1>2, PassPlacing DEF Both
<1>38. Sound(s, w, o1, F1) /\ o1[w]["Z"] = Zero(s)["Z"]
  <2> HIDE DEF o, w
  <2>1. Sound(s, w, o1, F1)
    BY ONLY <1>2, <1>35, PlacingBoth
  <2>2. o1[w]["Z"] = o[w]["Z"]
    BY ONLY <1>2, <1>35, PlacingBoth
  <2> QED
    BY <2>1, <2>2 DEF Zero, o, w
<1> HIDE DEF o1, F1, Mx
<1>39. PICK x1, y1 : Passes(s, raise, M1(p7, v6), x1) /\ Passes(s, Footer, x1, y1)
  BY <1>1, <1>2, <1>4, <1>32, <1>38, PassRaise
<1>40. PICK x2, y2 : Passes(s, raise, M1(p1, v), x2) /\ Passes(s, Footer, x2, y2)
  BY <1>1, <1>2, <1>4, <1>19, <1>38, PassRaise
<1>41. Passes(s, Header(FALSE), M(s.start, v), M(s.start, v))
  BY <1>2, HeaderRuns
<1> DEFINE part1 == Touch("X", near, over, 101, near) \o Touch("X", safe, under, 102, safe)
                    \o Move("G00", [X |-> 0, Y |-> near]) \o Probe("Y", over)
           part2 == part1 \o Read(103, "Y") \o Rapid("Y", near)
                    \o Touch("Y", safe, under, 104, 0) \o Mid(110, 101, 102)
           manual == part2 \o Mid(111, 103, 104) \o SetWcs(s, "X", 110) \o SetWcs(s, "Y", 111)
<1> HIDE DEF M, M1, raise, L
<1>42. Passes(s, part1, M(p1, v), M(p5, v2))
  BY ONLY <1>22, <1>23, <1>25, <1>27, PassJoined
<1> HIDE DEF part1
<1>43. Passes(s, part2, M(p1, v), M(p7, v5))
  BY ONLY <1>28, <1>29, <1>31, <1>33, <1>42, PassJoined
<1> HIDE DEF part2
<1>44. Passes(s, manual, M(p1, v), M1(p7, v6))
  BY ONLY <1>34, <1>36, <1>43, PassJoined
<1>45. CASE s.mode = "renishaw"
  <2>1. Passes(s, Header(FALSE) \o Descend(s, s.depth) \o Macro(s, Both) \o raise \o Footer,
               M(s.start, v), y2)
    BY ONLY <1>19, <1>37, <1>40, <1>41, PassJoined
  <2> QED
    BY <1>11, <1>15, <1>45, <2>1 DEF Both
<1>46. CASE s.mode # "renishaw"
  <2>1. Bore(s) = Header(FALSE) \o Descend(s, s.depth) \o manual \o raise \o Footer
    BY <1>15, <1>46 DEF part1, part2
  <2> HIDE DEF manual
  <2>2. Passes(s, Header(FALSE) \o Descend(s, s.depth) \o manual \o raise \o Footer,
               M(s.start, v), y1)
    BY ONLY <1>19, <1>39, <1>41, <1>44, PassJoined
  <2> QED
    BY <1>11, <2>1, <2>2
<1> QED
  BY <1>45, <1>46

\* One wall of a corner, touched from the other side of the zero.
Aims(d, from, z, x) == d \in Int /\ from = -d /\ x = from + z

LEMMA PassCorner ==
    ASSUME NEW s, Proper(s), NEW r, Free(s, r), NEW w, NEW o, NEW F, Sound(s, w, o, F),
           NEW a \in {"X", "Y"}, NEW k, NEW p \in Level(r, k), NEW v, NEW n \in Int,
           NEW d, NEW from, NEW x, Aims(d, from, o[w][a], x), Covers(r, a, o[w][a] - d),
           \E end \in {1, 2} : /\ Walled(s, r, a, end, k)
                               /\ Beyond(r, a, end, o[w][a] + d)
                               /\ s.feature[a] = r[a][end]
    PROVE  /\ Put(p, a, x) \in Level(r, k) /\ s.feature[a] \in Int
           /\ Passes(s, Touch(a, from, d, n, from), Machine(Modal("G90", w, o, F), p, v),
                     Machine(Modal("G90", w, o, F), Put(p, a, x),
                             Put(v, n, s.feature[a])))
<1> DEFINE z == o[w][a]
           x2 == d + z
<1>1. a \in Axes /\ a # "Z" /\ "Z" \in Axes /\ p \in Spots(r) /\ p["Z"] = k
  BY DEF Axes, Level
<1>2. z \in Int
  BY <1>1 DEF Sound, Points
<1>3. PICK end \in {1, 2} : /\ Walled(s, r, a, end, k)
                            /\ Beyond(r, a, end, z + d)
                            /\ s.feature[a] = r[a][end]
  OBVIOUS
<1>4. /\ from \in Int /\ d \in Int /\ x \in Int /\ x2 \in Int
      /\ x = from + o[w][a] /\ x2 = d + o[w][a]
  BY <1>2 DEF Aims
<1>5. Covers(r, a, x) /\ Beyond(r, a, end, x2)
  <2>1. x = z - d /\ x2 = z + d
    BY <1>2 DEF Aims
  <2> QED
    BY <1>3, <2>1
<1>6. Put(p, a, x) \in Level(r, k)
  BY <1>4, <1>5, PutLevel
<1>7. s.feature[a] \in Int
  <2>1. r[a] \in Int \X Int
    BY <1>1 DEF Free, Regions
  <2> QED
    BY <1>3, <2>1
<1>8. Walled(s, r, a, end, p["Z"])
  BY <1>1, <1>3
<1> HIDE DEF x2
<1>9. Passes(s, Touch(a, from, d, n, from), Machine(Modal("G90", w, o, F), p, v),
             Machine(Modal("G90", w, o, F), Put(p, a, x), Put(v, n, r[a][end])))
  BY <1>1, <1>4, <1>5, <1>8, PassTouch
<1> QED
  BY <1>3, <1>6, <1>7, <1>9

LEMMA CornerRuns ==
    ASSUME NEW s, s.cycle = "corner", Request(s),
           s.offset \in [WorkSystems -> [Axes -> Int]], NEW G, Fits(s, G)
    PROVE  \E y : Passes(s, Corner(s), Start(s), y)
<1> DEFINE x == XDir(s.corner) * s.distance
           y == YDir(s.corner) * s.distance
           fromX == -x
           fromY == -y
           w == s.active
           o == s.offset
           k == Height(s, s.probe_z)
           v == [n \in 100..111 |-> 0]
           v1 == Put(v, 101, s.feature["X"])
           v2 == Put(v1, 102, s.feature["Y"])
           p1 == Put(s.start, "Z", k)
           nearX == fromX + o[w]["X"]
           nearY == fromY + o[w]["Y"]
           p2 == Put(p1, "X", nearX)
           p3 == Put(p2, "Y", nearY)
           ox == Placing(s, o, {"X"})
           Fx == {} \cup Pairs(s, {"X"})
           o1 == Placing(s, o, Both)
           F1 == {} \cup Pairs(s, Both)
           M(p, u) == Machine(Modal("G90", w, o, {}), p, u)
           Mx(p, u) == Machine(Modal("G90", w, ox, Fx), p, u)
           M1(p, u) == Machine(Modal("G90", w, o1, F1), p, u)
           raise == Rapid("Z", s.clearance)
<1>1. /\ s.clearance \in Int /\ s.distance \in Int /\ s.probe_z \in Int
      /\ s.set_wcs \in BOOLEAN /\ "X" \in Axes /\ "Y" \in Axes /\ "Z" \in Axes
  BY DEF Request, Parameters, Axes
<1>2. /\ Proper(s) /\ Sound(s, w, o, {}) /\ s.start \in Points
      /\ Zero(s) = o[w] /\ k \in Int
  BY <1>1, Starting DEF Zero, Height
<1>3. CornerFits(s, G)
  BY DEF Fits
<1>4. /\ Shaft(s, G, s.probe_z) /\ Free(s, G)
      /\ Covers(G, "Z", Height(s, s.clearance))
  BY <1>3 DEF CornerFits, Shaft
<1>5. /\ Covers(G, "X", o[w]["X"] - x)
      /\ \E end \in {1, 2} : /\ Walled(s, G, "X", end, k)
                             /\ Beyond(G, "X", end, o[w]["X"] + x)
                             /\ s.feature["X"] = G["X"][end]
  BY <1>2, <1>3 DEF CornerFits
<1>6. /\ Covers(G, "Y", o[w]["Y"] - y)
      /\ \E end \in {1, 2} : /\ Walled(s, G, "Y", end, k)
                             /\ Beyond(G, "Y", end, o[w]["Y"] + y)
                             /\ s.feature["Y"] = G["Y"][end]
  BY <1>2, <1>3 DEF CornerFits
<1>7. x \in Int /\ y \in Int
  <2>1. XDir(s.corner) \in Int /\ YDir(s.corner) \in Int
    BY DEF XDir, YDir
  <2> QED
    BY <1>1, <2>1
<1>8. Aims(x, fromX, o[w]["X"], nearX) /\ Aims(y, fromY, o[w]["Y"], nearY)
  BY <1>7 DEF Aims
<1>9. Start(s) = M(s.start, v)
  BY DEF Start
<1>10. Corner(s) = Header(FALSE) \o Descend(s, s.probe_z) \o
                   (IF s.mode = "renishaw" THEN Macro(s, {"X"}) \o Macro(s, {"Y"})
                    ELSE Touch("X", fromX, x, 101, fromX) \o Touch("Y", fromY, y, 102, fromY)
                         \o SetWcs(s, "X", 101) \o SetWcs(s, "Y", 102))
                   \o raise \o Footer
  BY DEF Corner
<1>11. v2[101] = s.feature["X"] /\ v2[102] = s.feature["Y"]
  BY DEF Put
<1>12. p1 \in Spots(G) /\ Passes(s, Descend(s, s.probe_z), M(s.start, v), M(p1, v))
  BY <1>1, <1>2, <1>4, PassDescend
<1>13. p1 \in Level(G, k)
  BY <1>2, <1>12, AxesNames DEF Put, Points, Level
<1> HIDE DEF p1, x, y, fromX, fromY, nearX, nearY, w, o, k, v
<1>14. p2 \in Level(G, k) /\ s.feature["X"] \in Int
  BY <1>2, <1>4, <1>5, <1>8, <1>13, PassCorner
<1>15. Passes(s, Touch("X", fromX, x, 101, fromX), M(p1, v), M(p2, v1))
  BY <1>2, <1>4, <1>5, <1>8, <1>13, PassCorner
<1> HIDE DEF v1, p2
<1>16. p3 \in Level(G, k) /\ s.feature["Y"] \in Int
  BY <1>2, <1>4, <1>6, <1>8, <1>14, PassCorner
<1>17. Passes(s, Touch("Y", fromY, y, 102, fromY), M(p2, v1), M(p3, v2))
  BY <1>2, <1>4, <1>6, <1>8, <1>14, PassCorner
<1>18. p3 \in Spots(G)
  BY <1>16 DEF Level
<1> HIDE DEF v2, p3
<1>19. Passes(s, SetWcs(s, "X", 101), M(p3, v2), Mx(p3, v2))
  BY ONLY <1>1, <1>2, <1>11, Numbers, PassPlacing
<1>20. Passes(s, SetWcs(s, "Y", 102), Mx(p3, v2), M1(p3, v2))
  BY ONLY <1>2, <1>11, <1>14, <1>16, Numbers, PassSecond
<1>21. Passes(s, Macro(s, {"X"}), M(p1, v), Mx(p1, v))
  <2>1. {"X"} \in SUBSET Axes
    BY <1>1
  <2> QED
    BY ONLY <1>1, <1>2, <2>1, PassPlacing
<1>22. Passes(s, Macro(s, {"Y"}), Mx(p1, v), M1(p1, v))
  BY ONLY <1>1, <1>2, <1>14, PassSecondMacro
<1>23. Sound(s, w, o1, F1)
  BY ONLY <1>2, <1>14, <1>16, PlacingBoth
<1>24. o1[w]["Z"] = Zero(s)["Z"]
  <2>1. o1[w]["Z"] = o[w]["Z"]
    BY ONLY <1>2, <1>14, <1>16, PlacingBoth
  <2> QED
    BY <1>2, <2>1
<1> HIDE DEF ox, Fx, o1, F1, Mx
<1>25. PICK x1, y1 : Passes(s, raise, M1(p3, v2), x1) /\ Passes(s, Footer, x1, y1)
  BY <1>1, <1>2, <1>4, <1>18, <1>23, <1>24, PassRaise
<1>26. PICK x2, y2 : Passes(s, raise, M1(p1, v), x2) /\ Passes(s, Footer, x2, y2)
  BY <1>1, <1>2, <1>4, <1>12, <1>23, <1>24, PassRaise
<1>27. Passes(s, Header(FALSE), M(s.start, v), M(s.start, v))
  BY <1>2, HeaderRuns
<1> DEFINE macros == Macro(s, {"X"}) \o Macro(s, {"Y"})
           manual == Touch("X", fromX, x, 101, fromX) \o Touch("Y", fromY, y, 102, fromY)
                     \o SetWcs(s, "X", 101) \o SetWcs(s, "Y", 102)
<1> HIDE DEF M, M1, raise
<1>28. Passes(s, manual, M(p1, v), M1(p3, v2))
  BY ONLY <1>15, <1>17, <1>19, <1>20, PassJoined
<1>29. Passes(s, macros, M(p1, v), M1(p1, v))
  BY ONLY <1>21, <1>22, PassJoined
<1>30. CASE s.mode = "renishaw"
  <2>1. Corner(s) = Header(FALSE) \o Descend(s, s.probe_z) \o macros \o raise \o Footer
    BY <1>10, <1>30
  <2> HIDE DEF macros
  <2>2. Passes(s, Header(FALSE) \o Descend(s, s.probe_z) \o macros \o raise \o Footer,
               M(s.start, v), y2)
    BY ONLY <1>12, <1>26, <1>27, <1>29, PassJoined
  <2> QED
    BY <1>9, <2>1, <2>2
<1>31. CASE s.mode # "renishaw"
  <2>1. Corner(s) = Header(FALSE) \o Descend(s, s.probe_z) \o manual \o raise \o Footer
    BY <1>10, <1>31
  <2> HIDE DEF manual
  <2>2. Passes(s, Header(FALSE) \o Descend(s, s.probe_z) \o manual \o raise \o Footer,
               M(s.start, v), y1)
    BY ONLY <1>12, <1>25, <1>27, <1>28, PassJoined
  <2> QED
    BY <1>9, <2>1, <2>2
<1> QED
  BY <1>30, <1>31

\* Two points with the same coordinates.
LEMMA SamePoint ==
    ASSUME NEW p \in Points, NEW q \in Points,
           p["X"] = q["X"], p["Y"] = q["Y"], p["Z"] = q["Z"]
    PROVE  p = q
<1>1. \A a \in Axes : p[a] = q[a]
  BY DEF Axes
<1> QED
  BY <1>1 DEF Points

\* A place q above the side of a boss, from where the cycle descends to it; z is
\* the work zero.
AtFace(s, above, r, a, end, q, z) ==
    /\ q \in Spots(above) /\ q \in Spots(r) /\ q["Z"] = s.clearance + z["Z"]
    /\ Put(q, "Z", s.probe_z + z["Z"]) \in Spots(r)
    /\ Free(s, r) /\ Walled(s, r, a, end, s.probe_z + z["Z"])
    /\ Beyond(r, a, end, z[a]) /\ Covers(above, a, r[a][end])

\* A rapid move to those coordinates.
Way(to, w, o, F, p) == Goal([op |-> "G00", to |-> to], Modal("G90", w, o, F), p)

\* Such a place, ahead of a stylus that is at p.
Ahead(s, above, r, a, end, q, w, o, F, p, to, n) ==
    /\ Proper(s) /\ Free(s, above) /\ s.clearance \in Int /\ s.probe_z \in Int
    /\ Sound(s, w, o, F) /\ p \in Spots(above) /\ to \in Targets /\ n \in Int
    /\ a \in {"X", "Y"} /\ end \in {1, 2} /\ AtFace(s, above, r, a, end, q, o[w])
    /\ q = Way(to, w, o, F, p)

LEMMA PassFace ==
    ASSUME NEW s, NEW above, NEW r, NEW a, NEW end, NEW q, NEW w, NEW o, NEW F, NEW p,
           NEW to, NEW n, Ahead(s, above, r, a, end, q, w, o, F, p, to, n), NEW v
    PROVE  /\ Put(q, a, r[a][end]) \in Spots(above)
           /\ Passes(s, BossSide(s, to, a, n), Machine(Modal("G90", w, o, F), p, v),
                     Machine(Modal("G90", w, o, F), Put(q, a, r[a][end]),
                             Put(v, n, r[a][end])))
<1> DEFINE f == r[a][end]
           zc == s.clearance + o[w]["Z"]
           zd == s.probe_z + o[w]["Z"]
           x == 0 + o[w][a]
           q1 == Put(q, "Z", zd)
           q2 == Put(q1, a, f)
           q3 == Put(q2, "Z", zc)
           u == Put(v, n, f)
           M(y, e) == Machine(Modal("G90", w, o, F), y, e)
<1> USE DEF Ahead
<1>1. /\ q \in Spots(above) /\ q \in Spots(r) /\ q["Z"] = zc /\ q1 \in Spots(r)
      /\ Free(s, r) /\ Walled(s, r, a, end, zd)
      /\ Beyond(r, a, end, o[w][a]) /\ Covers(above, a, f)
  BY DEF AtFace
<1>2. a \in Axes /\ a # "Z" /\ "Z" \in Axes
  BY DEF Axes
<1>3. o[w][a] \in Int /\ o[w]["Z"] \in Int
  BY <1>2 DEF Sound, Points
<1>4. zc \in Int /\ zd \in Int /\ x \in Int /\ f \in Int /\ x = o[w][a]
  <2>1. r[a] \in Int \X Int
    BY <1>1, <1>2 DEF Free, Regions
  <2> QED
    BY <1>3, <2>1
<1>5. \A y : /\ zc = s.clearance + Base(Modal("G90", w, o, F), y, "Z")
             /\ zd = s.probe_z + Base(Modal("G90", w, o, F), y, "Z")
             /\ x = 0 + Base(Modal("G90", w, o, F), y, a)
  BY Bases
<1>6. q \in Points /\ q1 \in Points /\ q1["Z"] = zd
  BY <1>1, <1>2, <1>4, SpotPoint DEF Put, Points
<1>7. Covers(r, "Z", zc) /\ Covers(r, "Z", zd)
  BY <1>1, <1>2, <1>6, SpotPoint
<1>8. Beyond(r, a, end, x) /\ Walled(s, r, a, end, q1["Z"])
  BY <1>1, <1>4, <1>6
<1> HIDE DEF zc, zd, x
<1>9. Passes(s, Move("G00", to), M(p, v), M(q, v))
  <2>1. q = Goal([op |-> "G00", to |-> to], Modal("G90", w, o, F), p)
    BY DEF Way
  <2> QED
    BY <1>1, <2>1, PassWay
<1>10. Passes(s, Rapid("Z", s.probe_z), M(q, v), M(q1, v))
  BY <1>1, <1>2, <1>4, <1>5, <1>7, PassRapid
<1> HIDE DEF q1, f
<1>11. q2 \in Spots(r) /\ Passes(s, Probe(a, 0), M(q1, v), M(q2, v))
  <2>1. Put(q1, a, r[a][end]) \in Spots(r)
    <3>1. /\ r[a] \in Int \X Int /\ q1[a] \in Int
          /\ r[a][1] <= q1[a] /\ q1[a] <= r[a][2]
      BY <1>1, <1>2, SpotPoint DEF Free, Regions, Covers
    <3>2. r[a][end] \in Int /\ Covers(r, a, r[a][end])
      BY <3>1 DEF Covers
    <3> QED
      BY <1>1, <1>2, <3>2, PutSpot
  <2>2. Passes(s, Probe(a, 0), M(q1, v), M(Put(q1, a, r[a][end]), v))
    BY <1>1, <1>2, <1>4, <1>5, <1>8, PassProbe
  <2> QED
    BY <2>1, <2>2 DEF f
<1>12. q2[a] = f
  BY <1>2, <1>4, <1>6 DEF q2, Put, Points
<1>13. Passes(s, Read(n, a), M(q2, v), M(q2, u))
  <2>1. Passes(s, Read(n, a), M(q2, v), M(q2, Put(v, n, q2[a])))
    BY <1>2, PassAssign
  <2> QED
    BY <1>12, <2>1
<1>14. q3 = Put(q, a, f)
  <2>1. q2 = Put(Put(q, a, f), "Z", zd)
    BY <1>2, PutBoth DEF q1
  <2>2. q3 = Put(Put(q, a, f), "Z", zc)
    BY <2>1, PutTwice
  <2>3. q3 = Put(Put(q, "Z", zc), a, f)
    BY <1>2, <2>2, PutBoth
  <2>4. Put(q, "Z", zc) = q
    BY <1>1, <1>6 DEF Put, Points
  <2> QED
    BY <2>3, <2>4
<1> HIDE DEF q2, u
<1>15. Passes(s, Rapid("Z", s.clearance), M(q2, u), M(q3, u))
  BY <1>1, <1>2, <1>4, <1>5, <1>7, <1>11, PassRapid
<1>16. Put(q, a, f) \in Spots(above)
  BY <1>1, <1>2, <1>4, PutSpot
<1> HIDE DEF q3, M
<1>17. Passes(s, Move("G00", to) \o Rapid("Z", s.probe_z) \o Probe(a, 0) \o Read(n, a)
                 \o Rapid("Z", s.clearance), M(p, v), M(q3, u))
  BY ONLY <1>9, <1>10, <1>11, <1>13, <1>15, PassJoined
<1> QED
  BY <1>14, <1>16, <1>17 DEF BossSide, M, u, f

\* A cycle may descend where the workpiece of a boss leaves room beside a face.
LEMMA BossFace ==
    ASSUME NEW s, Zero(s) \in Points, s.clearance \in Int, s.probe_z \in Int,
           NEW above, above \in Regions, NEW r, NEW a \in {"X", "Y"}, NEW end \in {1, 2},
           NEW x \in Int,
           Beside(s, r, a, end, Put(Zero(s), a, x), Height(s, s.clearance),
                  Height(s, s.probe_z)),
           Beyond(r, a, end, Zero(s)[a]), Covers(above, a, x),
           \A b \in {"X", "Y"} : Covers(above, b, Zero(s)[b]),
           Covers(above, "Z", Height(s, s.clearance))
    PROVE  /\ AtFace(s, above, r, a, end,
                     Put(Put(Zero(s), a, x), "Z", Height(s, s.clearance)), Zero(s))
           /\ r[a][1] \in Int /\ r[a][2] \in Int
<1> DEFINE z == Zero(s)
           zc == Height(s, s.clearance)
           zd == Height(s, s.probe_z)
           p == Put(z, a, x)
           q == Put(p, "Z", zc)
           f == r[a][end]
<1>1. a \in Axes /\ a # "Z" /\ "Z" \in Axes
  BY DEF Axes
<1>2. z[a] \in Int /\ z["Z"] \in Int
  BY <1>1 DEF Points
<1>3. /\ zc \in Int /\ zd \in Int /\ zc = s.clearance + z["Z"] /\ zd = s.probe_z + z["Z"]
  BY <1>2 DEF Height
<1>4. /\ Free(s, r) /\ Walled(s, r, a, end, zd) /\ q \in Spots(r) /\ Put(p, "Z", zd) \in Spots(r)
  BY DEF Beside
<1>5. r[a] \in Int \X Int /\ above[a] \in Int \X Int
  BY <1>1, <1>4 DEF Free, Regions
<1> HIDE DEF zc, zd, z
<1>6. p \in Points /\ p[a] = x /\ \A b \in {"X", "Y"} : b # a => p[b] = z[b]
  BY <1>1 DEF z, Put, Points, Axes
<1> HIDE DEF p
<1>7. q \in Points /\ q["Z"] = zc /\ q[a] = x /\ \A b \in {"X", "Y"} : b # a => q[b] = z[b]
  BY <1>1, <1>3, <1>6 DEF Put, Points, Axes
<1>8. Put(q, "Z", zd) \in Spots(r)
  BY <1>4, PutTwice
<1> HIDE DEF q
<1>9. Covers(r, a, x) /\ Beyond(r, a, end, z[a]) /\ Covers(above, a, x) /\ Covers(above, a, z[a])
  BY <1>1, <1>4, <1>7, SpotPoint DEF z
<1>10. Covers(above, a, f)
  <2>1. CASE end = 1
    BY <1>2, <1>5, <1>9, <2>1 DEF Covers, Beyond
  <2>2. CASE end = 2
    BY <1>2, <1>5, <1>9, <2>2 DEF Covers, Beyond
  <2> QED
    BY <2>1, <2>2
<1>11. q \in Spots(above)
  <2>1. \A b \in Axes : Covers(above, b, q[b])
    <3> TAKE b \in Axes
    <3>1. CASE b = "Z"
      BY <1>7, <3>1 DEF zc
    <3>2. CASE b = a
      BY <1>7, <1>9, <3>2
    <3>3. CASE b # a /\ b # "Z"
      <4>1. b \in {"X", "Y"} /\ q[b] = z[b]
        BY <1>7, <3>3 DEF Axes
      <4> QED
        BY <4>1 DEF z
    <3> QED
      BY <3>1, <3>2, <3>3
  <2> QED
    BY <1>7, <2>1 DEF Spots, Points, Covers
<1>12. AtFace(s, above, r, a, end, q, z)
  BY <1>3, <1>4, <1>7, <1>8, <1>9, <1>10, <1>11 DEF AtFace, q
<1> QED
  BY <1>5, <1>12 DEF q, p, z, zc

\* Where the moves of a boss cycle to its four sides end.
LEMMA BossFaces ==
    ASSUME NEW s, Zero(s) \in Points, s.clearance \in Int, s.probe_z \in Int,
           s.diameter \in Int, NEW above, NEW low, NEW high, BossFits(s, above, low, high),
           NEW over, over = s.diameter \div 2 + 20, NEW a \in {"X", "Y"},
           NEW l \in Int, l = -over + Zero(s)[a], NEW h \in Int, h = over + Zero(s)[a]
    PROVE  /\ AtFace(s, above, low[a], a, 2,
                     Put(Put(Zero(s), a, l), "Z", Height(s, s.clearance)), Zero(s))
           /\ AtFace(s, above, high[a], a, 1,
                     Put(Put(Zero(s), a, h), "Z", Height(s, s.clearance)), Zero(s))
           /\ low[a][a][2] \in Int /\ high[a][a][1] \in Int
           /\ s.feature[a] = (low[a][a][2] + high[a][a][1]) \div 2
           /\ s.feature[a] \in Int
<1> DEFINE zc == Height(s, s.clearance)
           zd == Height(s, s.probe_z)
<1>1. over \in Int
  OBVIOUS
<1>2. \A b \in {"X", "Y"} :
         /\ Covers(above, b, Zero(s)[b] - over) /\ Covers(above, b, Zero(s)[b] + over)
         /\ Beside(s, low[b], b, 2, Put(Zero(s), b, Zero(s)[b] - over), zc, zd)
         /\ Beside(s, high[b], b, 1, Put(Zero(s), b, Zero(s)[b] + over), zc, zd)
         /\ Beyond(low[b], b, 2, Zero(s)[b]) /\ Beyond(high[b], b, 1, Zero(s)[b])
         /\ s.feature[b] = (high[b][b][1] + low[b][b][2]) \div 2
  BY DEF BossFits
<1>3. above \in Regions /\ Covers(above, "Z", zc)
  BY DEF BossFits, Free
<1>4. \A b \in {"X", "Y"} : Zero(s)[b] \in Int /\ above[b] \in Int \X Int
  BY <1>3 DEF Points, Regions, Axes
<1>5. l = Zero(s)[a] - over /\ h = Zero(s)[a] + over
  BY <1>1, <1>4
<1>6. \A b \in {"X", "Y"} : Covers(above, b, Zero(s)[b])
  <2> TAKE b \in {"X", "Y"}
  <2>1. Covers(above, b, Zero(s)[b] - over) /\ Covers(above, b, Zero(s)[b] + over)
    BY <1>2
  <2>2. Zero(s)[b] \in Int /\ above[b][1] \in Int /\ above[b][2] \in Int
    BY <1>4
  <2> QED
    BY <1>1, <2>1, <2>2 DEF Covers
<1>7. /\ Beside(s, low[a], a, 2, Put(Zero(s), a, l), zc, zd) /\ Covers(above, a, l)
      /\ Beside(s, high[a], a, 1, Put(Zero(s), a, h), zc, zd) /\ Covers(above, a, h)
      /\ Beyond(low[a], a, 2, Zero(s)[a]) /\ Beyond(high[a], a, 1, Zero(s)[a])
  BY <1>2, <1>5
<1>8. /\ AtFace(s, above, low[a], a, 2, Put(Put(Zero(s), a, l), "Z", zc), Zero(s))
      /\ low[a][a][2] \in Int
  BY <1>3, <1>6, <1>7, BossFace
<1>9. /\ AtFace(s, above, high[a], a, 1, Put(Put(Zero(s), a, h), "Z", zc), Zero(s))
      /\ high[a][a][1] \in Int
  BY <1>3, <1>6, <1>7, BossFace
<1>10. s.feature[a] = (low[a][a][2] + high[a][a][1]) \div 2 /\ s.feature[a] \in Int
  <2> DEFINE m == low[a][a][2]
             n == high[a][a][1]
  <2>1. m \in Int /\ n \in Int /\ s.feature[a] = (n + m) \div 2
    BY <1>2, <1>8, <1>9
  <2> HIDE DEF m, n
  <2>2. n + m = m + n /\ m + n \in Int
    BY <2>1
  <2>3. (m + n) \div 2 \in Int
    BY <2>2
  <2> QED
    BY <2>1, <2>2, <2>3 DEF m, n
<1> QED
  BY <1>8, <1>9, <1>10

\* The goals of the four moves of a boss cycle.
\* The fields of a positioning move.
Cross(x, y) == [X |-> x, Y |-> y]
SideX(x) == Cross(x, 0)
SideY(y) == Cross(0, y)
AlongX(x) == [X |-> x]
AlongY(y) == [Y |-> y]

LEMMA TargetFields ==
    ASSUME NEW x \in Int, NEW y \in Int
    PROVE  Cross(x, y) \in Targets /\ AlongX(x) \in Targets /\ AlongY(x) \in Targets
<1>1. /\ {"X", "Y"} \in SUBSET Axes /\ [X |-> x, Y |-> y] \in [{"X", "Y"} -> Int]
      /\ {"X"} \in SUBSET Axes /\ [X |-> x] \in [{"X"} -> Int]
      /\ {"Y"} \in SUBSET Axes /\ [Y |-> x] \in [{"Y"} -> Int]
  BY DEF Axes
<1> QED
  BY <1>1 DEF Targets, Cross, AlongX, AlongY

LEMMA GoalField ==
    ASSUME NEW n \in Int, NEW m, NEW p \in Points
    PROVE  /\ AlongX(n) \in Targets /\ AlongY(n) \in Targets
           /\ Goal([op |-> "G00", to |-> AlongX(n)], m, p) = Put(p, "X", n + Base(m, p, "X"))
           /\ Goal([op |-> "G00", to |-> AlongY(n)], m, p) = Put(p, "Y", n + Base(m, p, "Y"))
<1>1. AlongX(n) = To("X", n) /\ AlongY(n) = To("Y", n)
  BY DEF To, AlongX, AlongY
<1>2. "X" \in Axes /\ "Y" \in Axes
  BY DEF Axes
<1>3. To("X", n) \in Targets /\ To("Y", n) \in Targets
  BY <1>2, ToTarget
<1>4. Goal([op |-> "G00", to |-> To("X", n)], m, p) = Put(p, "X", n + Base(m, p, "X"))
  BY <1>2, GoalOne
<1>5. Goal([op |-> "G00", to |-> To("Y", n)], m, p) = Put(p, "Y", n + Base(m, p, "Y"))
  BY <1>2, GoalOne
<1> QED
  BY <1>1, <1>3, <1>4, <1>5

\* A coordinate counted from z.
From(z, n, x) == x = n + z

LEMMA GoalSideX ==
    ASSUME NEW w, NEW o, NEW F, o[w] \in Points, NEW p \in Points, NEW n \in Int,
           NEW x \in Int, NEW zc, p["Z"] = zc, From(o[w]["X"], n, x)
    PROVE  Way(SideX(n), w, o, F, p) = Put(Put(o[w], "X", x), "Z", zc)
<1> DEFINE z == o[w]
           m == Modal("G90", w, o, F)
           q == Put(Put(z, "X", x), "Z", zc)
           t == Put(Put(p, "X", x), "Y", 0 + z["Y"])
<1>1. z["Y"] \in Int /\ 0 + z["Y"] = z["Y"] /\ zc \in Int
  BY DEF Points, Axes
<1>2. Way(SideX(n), w, o, F, p) = t
  BY GoalTwo DEF From, Way, SideX, Cross
<1>3. q \in Points /\ q["X"] = x /\ q["Y"] = z["Y"] /\ q["Z"] = zc
  BY <1>1 DEF Put, Points, Axes
<1>4. t \in Points /\ t["X"] = x /\ t["Y"] = z["Y"] /\ t["Z"] = zc
  BY <1>1 DEF Put, Points, Axes
<1> HIDE DEF t, q
<1>5. t = q
  BY <1>3, <1>4, SamePoint
<1> QED
  BY <1>2, <1>5 DEF q

LEMMA GoalAlongX ==
    ASSUME NEW w, NEW o, NEW F, o[w] \in Points, NEW p \in Points, NEW n \in Int,
           NEW x \in Int, NEW zc, p["Z"] = zc, From(o[w]["X"], n, x),
           p["Y"] = o[w]["Y"]
    PROVE  Way(AlongX(n), w, o, F, p) = Put(Put(o[w], "X", x), "Z", zc)
<1> DEFINE z == o[w]
           m == Modal("G90", w, o, F)
           q == Put(Put(z, "X", x), "Z", zc)
           t == Put(p, "X", x)
<1>1. z["Y"] \in Int /\ 0 + z["Y"] = z["Y"] /\ zc \in Int
  BY DEF Points, Axes
<1>2. Way(AlongX(n), w, o, F, p) = t
  <2>1. Goal([op |-> "G00", to |-> AlongX(n)], m, p) = Put(p, "X", n + Base(m, p, "X"))
    BY GoalField
  <2>2. Base(m, p, "X") = z["X"]
    BY Bases
  <2> QED
    BY <2>1, <2>2 DEF From, Way
<1>3. q \in Points /\ q["X"] = x /\ q["Y"] = z["Y"] /\ q["Z"] = zc
  BY <1>1 DEF Put, Points, Axes
<1>4. t \in Points /\ t["X"] = x /\ t["Y"] = z["Y"] /\ t["Z"] = zc
  BY <1>1 DEF Put, Points, Axes
<1> HIDE DEF t, q
<1>5. t = q
  BY <1>3, <1>4, SamePoint
<1> QED
  BY <1>2, <1>5 DEF q

LEMMA GoalSideY ==
    ASSUME NEW w, NEW o, NEW F, o[w] \in Points, NEW p \in Points, NEW n \in Int,
           NEW x \in Int, NEW zc, p["Z"] = zc, From(o[w]["Y"], n, x)
    PROVE  Way(SideY(n), w, o, F, p) = Put(Put(o[w], "Y", x), "Z", zc)
<1> DEFINE z == o[w]
           m == Modal("G90", w, o, F)
           q == Put(Put(z, "Y", x), "Z", zc)
           t == Put(Put(p, "X", 0 + z["X"]), "Y", x)
<1>1. z["X"] \in Int /\ 0 + z["X"] = z["X"] /\ zc \in Int
  BY DEF Points, Axes
<1>2. Way(SideY(n), w, o, F, p) = t
  BY GoalTwo DEF From, Way, SideY, Cross
<1>3. q \in Points /\ q["Y"] = x /\ q["X"] = z["X"] /\ q["Z"] = zc
  BY <1>1 DEF Put, Points, Axes
<1>4. t \in Points /\ t["Y"] = x /\ t["X"] = z["X"] /\ t["Z"] = zc
  BY <1>1 DEF Put, Points, Axes
<1> HIDE DEF t, q
<1>5. t = q
  BY <1>3, <1>4, SamePoint
<1> QED
  BY <1>2, <1>5 DEF q

LEMMA GoalAlongY ==
    ASSUME NEW w, NEW o, NEW F, o[w] \in Points, NEW p \in Points, NEW n \in Int,
           NEW x \in Int, NEW zc, p["Z"] = zc, From(o[w]["Y"], n, x),
           p["X"] = o[w]["X"]
    PROVE  Way(AlongY(n), w, o, F, p) = Put(Put(o[w], "Y", x), "Z", zc)
<1> DEFINE z == o[w]
           m == Modal("G90", w, o, F)
           q == Put(Put(z, "Y", x), "Z", zc)
           t == Put(p, "Y", x)
<1>1. z["X"] \in Int /\ 0 + z["X"] = z["X"] /\ zc \in Int
  BY DEF Points, Axes
<1>2. Way(AlongY(n), w, o, F, p) = t
  <2>1. Goal([op |-> "G00", to |-> AlongY(n)], m, p) = Put(p, "Y", n + Base(m, p, "Y"))
    BY GoalField
  <2>2. Base(m, p, "Y") = z["Y"]
    BY Bases
  <2> QED
    BY <2>1, <2>2 DEF From, Way
<1>3. q \in Points /\ q["Y"] = x /\ q["X"] = z["X"] /\ q["Z"] = zc
  BY <1>1 DEF Put, Points, Axes
<1>4. t \in Points /\ t["Y"] = x /\ t["X"] = z["X"] /\ t["Z"] = zc
  BY <1>1 DEF Put, Points, Axes
<1> HIDE DEF t, q
<1>5. t = q
  BY <1>3, <1>4, SamePoint
<1> QED
  BY <1>2, <1>5 DEF q

LEMMA BossRuns ==
    ASSUME NEW s, s.cycle = "boss", Request(s),
           s.offset \in [WorkSystems -> [Axes -> Int]], NEW G, Fits(s, G)
    PROVE  \E y : Passes(s, Boss(s), Start(s), y)
<1> DEFINE above == G.above
           low == G.low
           high == G.high
           over == s.diameter \div 2 + 20
           under == -over
           w == s.active
           o == s.offset
           z == o[w]
           zc == Height(s, s.clearance)
           v == [n \in 100..111 |-> 0]
           lx == under + z["X"]
           hx == over + z["X"]
           ly == under + z["Y"]
           hy == over + z["Y"]
           f1 == low["X"]["X"][2]
           f2 == high["X"]["X"][1]
           f3 == low["Y"]["Y"][2]
           f4 == high["Y"]["Y"][1]
           v1 == Put(v, 101, f1)
           v2 == Put(v1, 102, f2)
           v3 == Put(v2, 103, f3)
           v4 == Put(v3, 104, f4)
           v5 == Put(v4, 110, (v4[101] + v4[102]) \div 2)
           v6 == Put(v5, 111, (v5[103] + v5[104]) \div 2)
           p0 == Put(s.start, "Z", zc)
           q1 == Put(Put(z, "X", lx), "Z", zc)
           q2 == Put(Put(z, "X", hx), "Z", zc)
           q3 == Put(Put(z, "Y", ly), "Z", zc)
           q4 == Put(Put(z, "Y", hy), "Z", zc)
           p1 == Put(q1, "X", f1)
           p2 == Put(q2, "X", f2)
           p3 == Put(q3, "Y", f3)
           p4 == Put(q4, "Y", f4)
           to1 == SideX(under)
           to2 == AlongX(over)
           to3 == SideY(under)
           to4 == AlongY(over)
           ox == Placing(s, o, {"X"})
           Fx == {} \cup Pairs(s, {"X"})
           o1 == Placing(s, o, Both)
           F1 == {} \cup Pairs(s, Both)
           M(p, u) == Machine(Modal("G90", w, o, {}), p, u)
           Mx(p, u) == Machine(Modal("G90", w, ox, Fx), p, u)
           M1(p, u) == Machine(Modal("G90", w, o1, F1), p, u)
           raise == Rapid("Z", s.clearance)
<1>1. /\ s.clearance \in Int /\ s.diameter \in Int /\ s.probe_z \in Int
      /\ s.set_wcs \in BOOLEAN /\ "X" \in Axes /\ "Y" \in Axes /\ "Z" \in Axes
      /\ over \in Int /\ under \in Int
  BY DEF Request, Parameters, Axes
<1>2. /\ Proper(s) /\ Sound(s, w, o, {}) /\ s.start \in Points
      /\ Zero(s) = z /\ z \in Points
  BY Starting DEF Zero
<1>3. BossFits(s, above, low, high)
  BY DEF Fits
<1>4. Free(s, above) /\ s.start \in Spots(above) /\ Covers(above, "Z", zc)
  BY <1>3 DEF BossFits
<1>5. /\ z["X"] \in Int /\ z["Y"] \in Int /\ z["Z"] \in Int
      /\ zc \in Int /\ zc = s.clearance + z["Z"]
  <2>1. z["X"] \in Int /\ z["Y"] \in Int /\ z["Z"] \in Int
    BY <1>1, <1>2 DEF Points
  <2> HIDE DEF z
  <2> QED
    BY <1>1, <1>2, <2>1 DEF Height
<1>6. /\ lx \in Int /\ hx \in Int /\ ly \in Int /\ hy \in Int
      /\ lx = under + z["X"] /\ hx = over + z["X"]
      /\ ly = under + z["Y"] /\ hy = over + z["Y"]
  <2> HIDE DEF under, over, z
  <2> QED
    BY <1>1, <1>5
<1>7. over = s.diameter \div 2 + 20 /\ under = -over
  OBVIOUS
<1>8. Start(s) = M(s.start, v)
  BY DEF Start
<1>9. Boss(s) = Header(FALSE) \o raise \o
                (IF s.mode = "renishaw" THEN Macro(s, Both)
                 ELSE BossSide(s, to1, "X", 101) \o BossSide(s, to2, "X", 102)
                      \o BossSide(s, to3, "Y", 103) \o BossSide(s, to4, "Y", 104)
                      \o Mid(110, 101, 102) \o Mid(111, 103, 104)
                      \o SetWcs(s, "X", 110) \o SetWcs(s, "Y", 111)) \o Footer
  BY DEF Boss, Both, SideX, SideY, Cross, AlongX, AlongY
<1>10. v \in Values
  BY DEF Values
<1> HIDE DEF over, lx, hx, ly, hy, z, w, o, v, zc, above, low, high
<1>11. /\ AtFace(s, above, low["X"], "X", 2, q1, z)
       /\ AtFace(s, above, high["X"], "X", 1, q2, z)
       /\ f1 \in Int /\ f2 \in Int /\ s.feature["X"] = (f1 + f2) \div 2
       /\ s.feature["X"] \in Int
  BY <1>1, <1>2, <1>3, <1>6, <1>7, BossFaces DEF zc
<1>12. /\ AtFace(s, above, low["Y"], "Y", 2, q3, z)
       /\ AtFace(s, above, high["Y"], "Y", 1, q4, z)
       /\ f3 \in Int /\ f4 \in Int /\ s.feature["Y"] = (f3 + f4) \div 2
       /\ s.feature["Y"] \in Int
  BY <1>1, <1>2, <1>3, <1>6, <1>7, BossFaces DEF zc
<1>13. v6[110] = s.feature["X"] /\ v6[111] = s.feature["Y"]
  <2> HIDE DEF f1, f2, f3, f4
  <2>1. f1 \in Int /\ f2 \in Int /\ f3 \in Int /\ f4 \in Int
    BY <1>11, <1>12
  <2>2. v6[110] = (f1 + f2) \div 2 /\ v6[111] = (f3 + f4) \div 2
    BY ONLY <1>10, <2>1, Centres
  <2> HIDE DEF v6
  <2> QED
    BY ONLY <1>11, <1>12, <2>2
<1>14. p0 \in Spots(above) /\ Passes(s, raise, M(s.start, v), M(p0, v))
  <2>1. \A q : zc = s.clearance + Base(Modal("G90", w, o, {}), q, "Z")
    BY <1>5, Bases DEF z
  <2> QED
    BY <1>1, <1>2, <1>4, <1>5, <2>1, PassRapid
<1>15. p0 \in Points /\ p0["Z"] = zc
  BY <1>1, <1>2, <1>5 DEF Put, Points
<1>16. /\ p1 \in Points /\ p1["Y"] = z["Y"] /\ p1["Z"] = zc
       /\ p2 \in Points /\ p2["Z"] = zc
  BY <1>1, <1>2, <1>5, <1>6, <1>11 DEF Put, Points
<1>17. p3 \in Points /\ p3["X"] = z["X"] /\ p3["Z"] = zc
  BY <1>1, <1>2, <1>5, <1>6, <1>12 DEF Put, Points
<1>18. to1 \in Targets /\ to2 \in Targets /\ to3 \in Targets /\ to4 \in Targets
  BY <1>1, TargetFields DEF SideX, SideY
<1> HIDE DEF under, p0, q1, q2, q3, q4, p1, p2, p3, p4
<1>19. /\ From(o[w]["X"], under, lx) /\ From(o[w]["X"], over, hx)
       /\ From(o[w]["Y"], under, ly) /\ From(o[w]["Y"], over, hy)
  BY <1>6 DEF From, z
<1>20. o[w] \in Points /\ z = o[w]
  BY <1>2 DEF z
<1> HIDE DEF f1, f2, f3, f4
<1>21. q1 = Way(to1, w, o, {}, p0)
  <2>1. q1 = Put(Put(o[w], "X", lx), "Z", zc)
    BY <1>20 DEF q1
  <2>2. p0["Z"] = zc /\ p0 \in Points /\ under \in Int /\ lx \in Int
    BY <1>1, <1>6, <1>20, <1>15
  <2>3. From(o[w]["X"], under, lx)
    BY <1>19
  <2> QED
    BY ONLY <1>20, <2>1, <2>2, <2>3, GoalSideX DEF to1
<1>22. q2 = Way(to2, w, o, {}, p1)
  <2>1. q2 = Put(Put(o[w], "X", hx), "Z", zc)
    BY <1>20 DEF q2
  <2>2. p1["Z"] = zc /\ p1 \in Points /\ over \in Int /\ hx \in Int /\ p1["Y"] = o[w]["Y"]
    BY <1>1, <1>6, <1>20, <1>16
  <2>3. From(o[w]["X"], over, hx)
    BY <1>19
  <2> QED
    BY ONLY <1>20, <2>1, <2>2, <2>3, GoalAlongX DEF to2
<1>23. q3 = Way(to3, w, o, {}, p2)
  <2>1. q3 = Put(Put(o[w], "Y", ly), "Z", zc)
    BY <1>20 DEF q3
  <2>2. p2["Z"] = zc /\ p2 \in Points /\ under \in Int /\ ly \in Int
    BY <1>1, <1>6, <1>20, <1>16
  <2>3. From(o[w]["Y"], under, ly)
    BY <1>19
  <2> QED
    BY ONLY <1>20, <2>1, <2>2, <2>3, GoalSideY, SMTT(60) DEF to3
<1>24. q4 = Way(to4, w, o, {}, p3)
  <2>1. q4 = Put(Put(o[w], "Y", hy), "Z", zc)
    BY <1>20 DEF q4
  <2>2. p3["Z"] = zc /\ p3 \in Points /\ over \in Int /\ hy \in Int /\ p3["X"] = o[w]["X"]
    BY <1>1, <1>6, <1>20, <1>17
  <2>3. From(o[w]["Y"], over, hy)
    BY <1>19
  <2> QED
    BY ONLY <1>20, <2>1, <2>2, <2>3, GoalAlongY DEF to4
<1> HIDE DEF to1, to2, to3, to4
<1>25. p1 \in Spots(above) /\ Passes(s, BossSide(s, to1, "X", 101), M(p0, v), M(p1, v1))
  <2>1. /\ AtFace(s, above, low["X"], "X", 2, q1, o[w]) /\ "X" \in {"X", "Y"}
        /\ 2 \in {1, 2} /\ 101 \in Int
    BY <1>11, <1>20
  <2>2. /\ Proper(s) /\ Free(s, above) /\ s.clearance \in Int /\ s.probe_z \in Int
        /\ Sound(s, w, o, {}) /\ p0 \in Spots(above) /\ to1 \in Targets
    BY <1>1, <1>2, <1>4, <1>18, <1>14
  <2>3. Ahead(s, above, low["X"], "X", 2, q1, w, o, {}, p0, to1, 101)
    BY ONLY <1>21, <2>1, <2>2 DEF Ahead
  <2>4. /\ Put(q1, "X", low["X"]["X"][2]) \in Spots(above)
        /\ Passes(s, BossSide(s, to1, "X", 101), M(p0, v),
                  M(Put(q1, "X", low["X"]["X"][2]), Put(v, 101, low["X"]["X"][2])))
    BY ONLY <2>3, PassFace
  <2> QED
    BY <2>4 DEF p1, f1
<1> HIDE DEF v1
<1>26. p2 \in Spots(above) /\ Passes(s, BossSide(s, to2, "X", 102), M(p1, v1), M(p2, v2))
  <2>1. /\ AtFace(s, above, high["X"], "X", 1, q2, o[w]) /\ "X" \in {"X", "Y"}
        /\ 1 \in {1, 2} /\ 102 \in Int
    BY <1>11, <1>20
  <2>2. /\ Proper(s) /\ Free(s, above) /\ s.clearance \in Int /\ s.probe_z \in Int
        /\ Sound(s, w, o, {}) /\ p1 \in Spots(above) /\ to2 \in Targets
    BY <1>1, <1>2, <1>4, <1>18, <1>25
  <2>3. Ahead(s, above, high["X"], "X", 1, q2, w, o, {}, p1, to2, 102)
    BY ONLY <1>22, <2>1, <2>2 DEF Ahead
  <2>4. /\ Put(q2, "X", high["X"]["X"][1]) \in Spots(above)
        /\ Passes(s, BossSide(s, to2, "X", 102), M(p1, v1),
                  M(Put(q2, "X", high["X"]["X"][1]), Put(v1, 102, high["X"]["X"][1])))
    BY ONLY <2>3, PassFace
  <2> QED
    BY <2>4 DEF p2, f2
<1> HIDE DEF v2
<1>27. p3 \in Spots(above) /\ Passes(s, BossSide(s, to3, "Y", 103), M(p2, v2), M(p3, v3))
  <2>1. /\ AtFace(s, above, low["Y"], "Y", 2, q3, o[w]) /\ "Y" \in {"X", "Y"}
        /\ 2 \in {1, 2} /\ 103 \in Int
    BY <1>12, <1>20
  <2>2. /\ Proper(s) /\ Free(s, above) /\ s.clearance \in Int /\ s.probe_z \in Int
        /\ Sound(s, w, o, {}) /\ p2 \in Spots(above) /\ to3 \in Targets
    BY <1>1, <1>2, <1>4, <1>18, <1>26
  <2>3. Ahead(s, above, low["Y"], "Y", 2, q3, w, o, {}, p2, to3, 103)
    BY ONLY <1>23, <2>1, <2>2 DEF Ahead
  <2>4. /\ Put(q3, "Y", low["Y"]["Y"][2]) \in Spots(above)
        /\ Passes(s, BossSide(s, to3, "Y", 103), M(p2, v2),
                  M(Put(q3, "Y", low["Y"]["Y"][2]), Put(v2, 103, low["Y"]["Y"][2])))
    BY ONLY <2>3, PassFace
  <2> QED
    BY <2>4 DEF p3, f3
<1> HIDE DEF v3
<1>28. Passes(s, BossSide(s, to4, "Y", 104), M(p3, v3), M(p4, v4))
  <2>1. /\ AtFace(s, above, high["Y"], "Y", 1, q4, o[w]) /\ "Y" \in {"X", "Y"}
        /\ 1 \in {1, 2} /\ 104 \in Int
    BY <1>12, <1>20
  <2>2. /\ Proper(s) /\ Free(s, above) /\ s.clearance \in Int /\ s.probe_z \in Int
        /\ Sound(s, w, o, {}) /\ p3 \in Spots(above) /\ to4 \in Targets
    BY <1>1, <1>2, <1>4, <1>18, <1>27
  <2>3. Ahead(s, above, high["Y"], "Y", 1, q4, w, o, {}, p3, to4, 104)
    BY ONLY <1>24, <2>1, <2>2 DEF Ahead
  <2>4. /\ Put(q4, "Y", high["Y"]["Y"][1]) \in Spots(above)
        /\ Passes(s, BossSide(s, to4, "Y", 104), M(p3, v3),
                  M(Put(q4, "Y", high["Y"]["Y"][1]), Put(v3, 104, high["Y"]["Y"][1])))
    BY ONLY <2>3, PassFace
  <2> QED
    BY <2>4 DEF p4, f4
<1> HIDE DEF v4
<1>29. Passes(s, Mid(110, 101, 102), M(p4, v4), M(p4, v5))
  BY ONLY <1>2, Numbers, PassAssign
<1> HIDE DEF v5
<1>30. Passes(s, Mid(111, 103, 104), M(p4, v5), M(p4, v6))
  BY <1>2, PassAssign
<1> HIDE DEF v6
<1>31. Passes(s, SetWcs(s, "X", 110), M(p4, v6), Mx(p4, v6))
  BY ONLY <1>1, <1>2, <1>13, Numbers, PassPlacing
<1>32. s.feature["X"] \in Int /\ s.feature["Y"] \in Int
  BY <1>11, <1>12
<1>33. Passes(s, SetWcs(s, "Y", 111), Mx(p4, v6), M1(p4, v6))
  BY ONLY <1>2, <1>13, <1>32, Numbers, PassSecond
<1>34. Passes(s, Macro(s, Both), M(p0, v), M1(p0, v))
  <2>1. Both \in SUBSET Axes
    BY <1>1 DEF Both
  <2> QED
    BY ONLY <1>1, <1>2, <2>1, PassPlacing
<1>35. Sound(s, w, o1, F1)
  BY ONLY <1>2, <1>32, PlacingBoth
<1> HIDE DEF ox, Fx, o1, F1, Mx
<1>36. PICK y1 : Passes(s, Footer, M1(p4, v6), y1)
  BY <1>35, PassFooter
<1>37. PICK y2 : Passes(s, Footer, M1(p0, v), y2)
  BY <1>35, PassFooter
<1>38. Passes(s, Header(FALSE), M(s.start, v), M(s.start, v))
  BY <1>2, HeaderRuns
<1> DEFINE sides == BossSide(s, to1, "X", 101) \o BossSide(s, to2, "X", 102)
                    \o BossSide(s, to3, "Y", 103) \o BossSide(s, to4, "Y", 104)
           manual == sides \o Mid(110, 101, 102) \o Mid(111, 103, 104)
                     \o SetWcs(s, "X", 110) \o SetWcs(s, "Y", 111)
<1> HIDE DEF M, M1, raise
<1>39. Passes(s, sides, M(p0, v), M(p4, v4))
  BY ONLY <1>25, <1>26, <1>27, <1>28, PassJoined
<1> HIDE DEF sides
<1>40. Passes(s, manual, M(p0, v), M1(p4, v6))
  BY ONLY <1>29, <1>30, <1>31, <1>33, <1>39, PassJoined
<1>41. CASE s.mode = "renishaw"
  <2>1. Passes(s, Header(FALSE) \o raise \o Macro(s, Both) \o Footer, M(s.start, v), y2)
    BY ONLY <1>14, <1>34, <1>37, <1>38, PassJoined
  <2> QED
    BY <1>8, <1>9, <1>41, <2>1
<1>42. CASE s.mode # "renishaw"
  <2>1. Boss(s) = Header(FALSE) \o raise \o manual \o Footer
    BY <1>9, <1>42 DEF sides
  <2> HIDE DEF manual
  <2>2. Passes(s, Header(FALSE) \o raise \o manual \o Footer, M(s.start, v), y1)
    BY ONLY <1>14, <1>36, <1>38, <1>40, PassJoined
  <2> QED
    BY <1>8, <2>1, <2>2
<1> QED
  BY <1>41, <1>42

-------------------------------------------------------------------------------
(* The outside of a box, measured incrementally *)

\* Up or down, in absolute coordinates.
LEMMA PassAbsZ ==
    ASSUME NEW s, Proper(s), NEW r, Free(s, r), NEW d, NEW w, NEW o, NEW F,
           Sound(s, w, o, F), NEW p \in Spots(r), NEW v, NEW n \in Int,
           NEW x \in Int, From(o[w]["Z"], n, x), Covers(r, "Z", x)
    PROVE  /\ Put(p, "Z", x) \in Spots(r)
           /\ Passes(s, AbsZ(n), Machine(Modal(d, w, o, F), p, v),
                     Machine(Modal("G90", w, o, F), Put(p, "Z", x), v))
<1> DEFINE m == Modal("G90", w, o, F)
           q == Put(p, "Z", x)
<1>1. "Z" \in Axes /\ x = n + Base(m, p, "Z")
  BY Bases DEF From, Axes
<1>2. Passes(s, Word("G90"), Machine(Modal(d, w, o, F), p, v), Machine(m, p, v))
  BY PassWord
<1>3. q \in Spots(r) /\ Passes(s, Rapid("Z", n), Machine(m, p, v), Machine(m, q, v))
  BY <1>1, PassRapid
<1> HIDE DEF m, q
<1>4. Passes(s, Word("G90") \o Rapid("Z", n), Machine(Modal(d, w, o, F), p, v),
             Machine(m, q, v))
  BY ONLY <1>2, <1>3, PassJoined
<1> QED
  BY <1>3, <1>4 DEF AbsZ, m, q

\* The direction in which an end of a region is met.
Heads(d, end) == (d = -1 /\ end = 1) \/ (d = 1 /\ end = 2)

\* A face touched fast and then slowly, in incremental coordinates.
LEMMA PassDouble ==
    ASSUME NEW s, Proper(s), s.retract \in Nat, NEW r, Free(s, r), NEW w, NEW o, NEW F,
           Sound(s, w, o, F), NEW p \in Spots(r), NEW v, NEW a \in Axes, NEW d,
           NEW end, Heads(d, end), NEW reach \in Int, NEW n \in Int,
           Walled(s, r, a, end, p["Z"]), Beyond(r, a, end, p[a] + d * reach),
           Covers(r, a, r[a][end] - d * s.retract)
    PROVE  /\ Put(p, a, r[a][end]) \in Spots(r)
           /\ Passes(s, DoubleTouch(s, a, d, reach, n),
                     Machine(Modal("G91", w, o, F), p, v),
                     Machine(Modal("G91", w, o, F), Put(p, a, r[a][end]),
                             Put(v, n, r[a][end])))
<1> DEFINE f == r[a][end]
           n1 == d * reach
           n2 == -d * s.retract
           n3 == d * (s.retract + 1)
           t1 == n1 + p[a]
           t2 == n2 + f
           t3 == n3 + t2
           q1 == Put(p, a, f)
           q2 == Put(q1, a, t2)
           q3 == Put(q2, a, f)
           u == Put(v, n, f)
           m == Modal("G91", w, o, F)
           M(q, y) == Machine(m, q, y)
           reading == IF a # "Z" THEN Read(n, a) ELSE <<>>
           v1 == IF a # "Z" THEN u ELSE v
<1>1. /\ r[a] \in Int \X Int /\ f \in Int /\ p[a] \in Int /\ p \in Points
      /\ end \in {1, 2} /\ d \in Int /\ "Z" \in Axes
  BY SpotPoint DEF Free, Regions, Heads, Axes
<1>2. n1 \in Int /\ n2 \in Int /\ n3 \in Int
  <2>1. CASE d = -1
    BY <2>1
  <2>2. CASE d = 1
    BY <2>2
  <2> QED
    BY <2>1, <2>2 DEF Heads
<1>3. t1 \in Int /\ t2 \in Int /\ t3 \in Int
  <2> HIDE DEF n1, n2, n3, f
  <2> QED
    BY <1>1, <1>2
<1>4. Beyond(r, a, end, t1) /\ Covers(r, a, t2)
  <2>1. t1 = p[a] + d * reach /\ t2 = f - d * s.retract
    <3>1. CASE d = -1
      BY <1>1, <3>1
    <3>2. CASE d = 1
      BY <1>1, <3>2
    <3> QED
      BY <3>1, <3>2 DEF Heads
  <2> QED
    BY <2>1
<1>5. Beyond(r, a, end, t3)
  <2>1. CASE d = -1 /\ end = 1
    <3>1. n3 + n2 = -1
      BY <2>1
    <3>2. t3 = f - 1
      <4> HIDE DEF n2, n3, f
      <4> QED
        BY <1>1, <1>2, <3>1
    <3> QED
      BY <1>1, <2>1, <3>2 DEF Beyond
  <2>2. CASE d = 1 /\ end = 2
    <3>1. n3 + n2 = 1
      BY <2>2
    <3>2. t3 = f + 1
      <4> HIDE DEF n2, n3, f
      <4> QED
        BY <1>1, <1>2, <3>1
    <3> QED
      BY <1>1, <2>2, <3>2 DEF Beyond
  <2> QED
    BY <2>1, <2>2 DEF Heads
<1>6. \A q \in Points : a = "Z" \/ q["Z"] = p["Z"] => Walled(s, r, a, end, q["Z"])
  BY DEF Walled
<1> HIDE DEF n1, n2, n3, t1, t2, t3
<1>7. t1 = n1 + Base(m, p, a)
  BY Bases DEF t1
<1>8. q1 \in Spots(r) /\ Passes(s, Probe(a, n1), M(p, v), M(q1, v))
  <2>1. q1 \in Spots(r)
    <3>1. r[a][1] <= p[a] /\ p[a] <= r[a][2]
      BY SpotPoint DEF Covers
    <3>2. Covers(r, a, f)
      BY <1>1, <3>1 DEF Covers
    <3> QED
      BY <1>1, <3>2, PutSpot
  <2>2. Passes(s, Probe(a, n1), M(p, v), M(q1, v))
    BY <1>1, <1>2, <1>3, <1>4, <1>7, PassProbe
  <2> QED
    BY <2>1, <2>2
<1>9. q1 \in Points /\ q1[a] = f /\ (a # "Z" => q1["Z"] = p["Z"])
  BY <1>1 DEF Put, Points
<1>10. Passes(s, reading, M(q1, v), M(q1, v1))
  <2>1. CASE a # "Z"
    <3>1. Passes(s, Read(n, a), M(q1, v), M(q1, Put(v, n, q1[a])))
      BY PassAssign
    <3> QED
      BY <1>9, <2>1, <3>1
  <2>2. CASE a = "Z"
    BY <2>2, PassNothing
  <2> QED
    BY <2>1, <2>2
<1>11. t2 = n2 + Base(m, q1, a)
  BY <1>9, Bases DEF t2
<1> HIDE DEF q1
<1>12. q2 \in Spots(r) /\ Passes(s, Feed(a, n2), M(q1, v1), M(q2, v1))
  <2> HIDE DEF v1, q2
  <2> USE DEF q2
  <2> QED
    BY <1>2, <1>3, <1>4, <1>8, <1>11, PassRapid
<1>13. q2 \in Points /\ q2[a] = t2 /\ (a # "Z" => q2["Z"] = p["Z"])
  BY <1>1, <1>3, <1>9 DEF Put, Points
<1>14. t3 = n3 + Base(m, q2, a) /\ Walled(s, r, a, end, q2["Z"])
  BY <1>6, <1>13, Bases DEF t3
<1>15. q3 = Put(p, a, f)
  BY PutTwice DEF q1
<1> HIDE DEF q2, v1
<1>16. Passes(s, Probe(a, n3), M(q2, v1), M(q3, v1))
  BY <1>1, <1>2, <1>3, <1>5, <1>12, <1>14, PassProbe
<1>17. Passes(s, Read(n, a), M(q3, v1), M(q3, u))
  <2>1. q3[a] = f
    BY <1>1, <1>13 DEF Put, Points
  <2>2. Passes(s, Read(n, a), M(q3, v1), M(q3, Put(v1, n, q3[a])))
    BY PassAssign
  <2>3. Put(v1, n, f) = u
    BY PutTwice DEF v1
  <2> QED
    BY <2>1, <2>2, <2>3
<1> HIDE DEF q3, M, u, reading
<1>18. Passes(s, Probe(a, n1) \o reading \o Feed(a, n2) \o Probe(a, n3) \o Read(n, a),
              M(p, v), M(q3, u))
  BY ONLY <1>8, <1>10, <1>12, <1>16, <1>17, PassJoined
<1>19. DoubleTouch(s, a, d, reach, n)
       = Probe(a, n1) \o reading \o Feed(a, n2) \o Probe(a, n3) \o Read(n, a)
  <2>1. CASE a # "Z"
    BY <2>1 DEF DoubleTouch, When, reading, n1, n2, n3
  <2>2. CASE a = "Z"
    BY <2>2 DEF DoubleTouch, When, reading, n1, n2, n3
  <2> QED
    BY <2>1, <2>2
<1> QED
  BY <1>8, <1>15, <1>18, <1>19 DEF M, m, u, f, q1

\* A part of a program leads from x to that place, with some values read.
Gauges(s, part, x, m, p) == \E u \in Values : Passes(s, part, x, Machine(m, p, u))

\* The place beside p with that coordinate on one axis, at that height.
At(p, a, x, z) == Put(Put(p, a, x), "Z", z)

LEMMA AtMoves ==
    ASSUME NEW p, NEW a \in Both, NEW x, NEW z, NEW y
    PROVE  /\ Put(At(p, a, x, z), a, y) = At(p, a, y, z)
           /\ Put(At(p, a, x, z), "Z", y) = At(p, a, x, y)
<1>1. a # "Z"
  BY DEF Both
<1>2. Put(At(p, a, x, z), a, y) = At(p, a, y, z)
  <2>1. At(p, a, x, z) = Put(Put(p, "Z", z), a, x)
    BY <1>1, PutBoth DEF At
  <2>2. Put(At(p, a, x, z), a, y) = Put(Put(p, "Z", z), a, y)
    BY <2>1, PutTwice
  <2> QED
    BY <1>1, <2>2, PutBoth DEF At
<1>3. Put(At(p, a, x, z), "Z", y) = At(p, a, x, y)
  BY PutTwice DEF At
<1> QED
  BY <1>2, <1>3

LEMMA AtPlace ==
    ASSUME NEW p \in Points, NEW a \in Both, NEW x \in Int, NEW z \in Int
    PROVE  /\ At(p, a, x, z) \in Points /\ At(p, a, x, z)[a] = x
           /\ At(p, a, x, z)["Z"] = z
           /\ \A o \in Axes : o # a /\ o # "Z" => At(p, a, x, z)[o] = p[o]
           /\ At(p, a, p[a], z) = Put(p, "Z", z)
<1>1. a # "Z" /\ a \in Axes /\ "Z" \in Axes
  BY DEF Both, Axes
<1>2. p[a] \in Int
  BY <1>1 DEF Points
<1>3. Put(p, a, p[a]) = p
  BY <1>1 DEF Put, Points
<1> QED
  BY <1>1, <1>2, <1>3 DEF At, Put, Points

\* What the hypothesis on one axis of a stock says of the moves of its cycle.
StockMoves(s, above, low, high, a, p, zc, zd, far, reach) ==
    /\ Free(s, high) /\ Free(s, low)
    /\ high[a][1] \in Int /\ low[a][2] \in Int /\ far \in Int /\ reach \in Int
    /\ Walled(s, high, a, 1, zd) /\ Walled(s, low, a, 2, zd)
    /\ At(p, a, p[a], zc) \in Spots(high) /\ At(p, a, p[a], zd) \in Spots(high)
    /\ At(p, a, far, zc) \in Spots(low) /\ At(p, a, far, zd) \in Spots(low)
    /\ Beyond(high, a, 1, p[a] + -1 * reach)
    /\ Covers(high, a, high[a][1] - -1 * s.retract)
    /\ Beyond(low, a, 2, far + 1 * reach)
    /\ Covers(low, a, low[a][2] - 1 * s.retract)
    /\ Covers(above, a, p[a]) /\ Covers(above, a, high[a][1])
    /\ Covers(above, a, far) /\ Covers(above, a, low[a][2])
    /\ Covers(above, a, s.feature[a])
    /\ s.feature[a] = (high[a][1] + low[a][2]) \div 2 /\ s.feature[a] \in Int

LEMMA StockParts ==
    ASSUME NEW s, s.retract \in Nat, s.safety \in Int, NEW above, NEW low, NEW high,
           NEW a \in Both, NEW width \in Int, NEW p \in Points,
           StockFits(s, above, low, high, a, width, p), NEW zc \in Int, NEW zd \in Int,
           zc = s.feature["Z"] + s.clearance, zd = s.feature["Z"] + s.probe_z,
           NEW far, far = -(width + 2 * s.safety) + high[a][1],
           NEW reach, reach = width \div 2 + 2 * s.safety
    PROVE  StockMoves(s, above, low, high, a, p, zc, zd, far, reach)
<1> DEFINE f1 == high[a][1]
           f2 == low[a][2]
           fa == f1 - (width + 2 * s.safety)
<1>1. a \in Axes /\ p[a] \in Int
  BY DEF Both, Axes, Points
<1>2. /\ Beside(s, high, a, 1, p, zc, zd) /\ Beyond(high, a, 1, p[a] - reach)
      /\ Covers(high, a, f1 + s.retract)
      /\ Beside(s, low, a, 2, Put(p, a, fa), zc, zd) /\ Beyond(low, a, 2, fa + reach)
      /\ Covers(low, a, f2 - s.retract)
      /\ \A x \in {p[a], f1, fa, f2, s.feature[a]} : Covers(above, a, x)
      /\ s.feature[a] = (f1 + f2) \div 2
  BY DEF StockFits
<1>3. Free(s, high) /\ Free(s, low) /\ high[a] \in Int \X Int /\ low[a] \in Int \X Int
  BY <1>1, <1>2 DEF Beside, Free, Regions
<1>4. f1 \in Int /\ f2 \in Int
  BY <1>3
<1>5. reach \in Int /\ fa \in Int /\ far = fa
  <2> HIDE DEF f1
  <2>1. width \div 2 \in Int
    OBVIOUS
  <2>2. far = -(width + 2 * s.safety) + f1
    BY DEF f1
  <2> QED
    BY <1>4, <2>1, <2>2
<1>6. /\ p[a] - reach = p[a] + -1 * reach /\ fa + reach = far + 1 * reach
  <2> HIDE DEF fa
  <2> QED
    BY <1>1, <1>5
<1>7. f1 + s.retract = f1 - -1 * s.retract /\ f2 - s.retract = f2 - 1 * s.retract
  <2> HIDE DEF f1, f2
  <2> QED
    BY <1>4
<1>8. (f1 + f2) \div 2 \in Int
  <2> HIDE DEF f1, f2
  <2> QED
    BY <1>4
<1>9. /\ Walled(s, high, a, 1, zd) /\ Walled(s, low, a, 2, zd)
      /\ Put(p, "Z", zc) \in Spots(high) /\ Put(p, "Z", zd) \in Spots(high)
      /\ Put(Put(p, a, fa), "Z", zc) \in Spots(low)
      /\ Put(Put(p, a, fa), "Z", zd) \in Spots(low)
  BY <1>2 DEF Beside
<1>10. /\ At(p, a, p[a], zc) = Put(p, "Z", zc) /\ At(p, a, p[a], zd) = Put(p, "Z", zd)
  BY <1>1, AtPlace
<1>11. /\ At(p, a, far, zc) = Put(Put(p, a, fa), "Z", zc)
       /\ At(p, a, far, zd) = Put(Put(p, a, fa), "Z", zd)
  BY <1>5 DEF At
<1>12. /\ Beyond(high, a, 1, p[a] + -1 * reach)
       /\ Covers(high, a, f1 - -1 * s.retract)
  BY <1>2, <1>6, <1>7
<1>13. /\ Beyond(low, a, 2, far + 1 * reach)
       /\ Covers(low, a, f2 - 1 * s.retract)
  BY <1>2, <1>6, <1>7
<1>14. /\ Covers(above, a, p[a]) /\ Covers(above, a, f1)
       /\ Covers(above, a, far) /\ Covers(above, a, f2)
       /\ Covers(above, a, s.feature[a])
  BY <1>2, <1>5
<1>15. s.feature[a] = (f1 + f2) \div 2 /\ s.feature[a] \in Int
  BY <1>2, <1>8
<1>16. far \in Int
  BY <1>5
<1> HIDE DEF fa
<1> QED
  BY <1>3, <1>4, <1>5, <1>9, <1>10, <1>11, <1>12, <1>13, <1>14, <1>15, <1>16
     DEF StockMoves

\* One side: fast, slowly, and up to the clearance.
LEMMA PassSide ==
    ASSUME NEW s, Proper(s), s.retract \in Nat, NEW r, Free(s, r), NEW w, NEW o, NEW F,
           Sound(s, w, o, F), NEW p \in Points, NEW a \in Both, NEW x \in Int,
           NEW zd \in Int, At(p, a, x, zd) \in Spots(r), NEW v, NEW d, NEW end,
           Heads(d, end), NEW reach \in Int, NEW n \in Int, Walled(s, r, a, end, zd),
           Beyond(r, a, end, x + d * reach), Covers(r, a, r[a][end] - d * s.retract)
    PROVE  /\ At(p, a, r[a][end], zd) \in Spots(r)
           /\ Passes(s, DoubleTouch(s, a, d, reach, n),
                     Machine(Modal("G91", w, o, F), At(p, a, x, zd), v),
                     Machine(Modal("G91", w, o, F), At(p, a, r[a][end], zd),
                             Put(v, n, r[a][end])))
<1> DEFINE q == At(p, a, x, zd)
           f == r[a][end]
           M(y, u) == Machine(Modal("G91", w, o, F), y, u)
<1>1. a \in Axes /\ q["Z"] = zd /\ q[a] = x
  BY AtPlace DEF Both, Axes
<1>2. Put(q, a, f) = At(p, a, f, zd)
  BY AtMoves
<1> HIDE DEF q
<1>3. q \in Spots(r)
  BY DEF q
<1>4. Walled(s, r, a, end, q["Z"]) /\ Beyond(r, a, end, q[a] + d * reach)
  BY <1>1
<1>5. /\ Put(q, a, f) \in Spots(r)
      /\ Passes(s, DoubleTouch(s, a, d, reach, n), M(q, v), M(Put(q, a, f), Put(v, n, f)))
  BY <1>1, <1>3, <1>4, PassDouble
<1> QED
  BY <1>2, <1>5 DEF M, q, f

\* One axis of a stock, with the work zero at its top; p is beside its high face.
StockAt(s, above, low, high, w, o, F, a, width, p, zc, zd) ==
    /\ Proper(s) /\ Free(s, above) /\ Sound(s, w, o, F)
    /\ s.retract \in Nat /\ s.safety \in Int /\ s.clearance \in Int /\ s.probe_z \in Int
    /\ a \in Both /\ width \in Int /\ p \in Points
    /\ StockFits(s, above, low, high, a, width, p)
    /\ zc \in Int /\ zc = s.feature["Z"] + s.clearance /\ From(o[w]["Z"], s.clearance, zc)
    /\ zd \in Int /\ zd = s.feature["Z"] + s.probe_z /\ From(o[w]["Z"], s.probe_z, zd)

\* Both sides of a stock and the setting of their axis, from beside its high
\* face to above its low one.
\* The macro variable before the two that the sides of X, and of Y, are kept in.
Slots == {100, 102}

LEMMA SidesRun ==
    ASSUME NEW s, NEW above, NEW low, NEW high, NEW w, NEW o, NEW F, NEW a, NEW width,
           NEW p, NEW zc, NEW zd,
           StockAt(s, above, low, high, w, o, F, a, width, p, zc, zd),
           At(p, a, p[a], zc) \in Spots(above), NEW v \in Values, NEW m \in Slots
    PROVE  Gauges(s, Sides(s, a, width, m),
                  Machine(Modal("G90", w, o, F), At(p, a, p[a], zd), v),
                  Modal("G90", w, Placing(s, o, {a}), F \cup Pairs(s, {a})),
                  At(p, a, low[a][2], zc))
<1> USE DEF StockAt, Slots
<1> DEFINE f1 == high[a][1]
           f2 == low[a][2]
           back == -(width + 2 * s.safety)
           far == back + f1
           reach == width \div 2 + 2 * s.safety
           n1 == m + 1
           n2 == m + 2
           n3 == 110 + (m - 100) \div 2
           u1 == Put(v, n1, f1)
           u2 == Put(u1, n2, f2)
           u3 == Put(u2, n3, (u2[n1] + u2[n2]) \div 2)
           y == p[a]
           P(x, z) == At(p, a, x, z)
           M(g, q, u) == Machine(Modal(g, w, o, F), q, u)
           E == Machine(Modal("G90", w, Placing(s, o, {a}), F \cup Pairs(s, {a})),
                        P(f2, zc), u3)
           touch1 == DoubleTouch(s, a, -1, reach, n1)
           touch2 == DoubleTouch(s, a, 1, reach, n2)
           up == AbsZ(s.clearance)
           down == AbsZ(s.probe_z)
<1>1. a \in Axes /\ a # "Z" /\ y \in Int
  BY DEF Both, Axes, Points
<1>2. /\ n1 \in 100..111 /\ n2 \in 100..111 /\ n3 \in 100..111 /\ n1 # n2
      /\ n1 \in Int /\ n2 \in Int /\ n3 \in Int
  <2>1. CASE m = 100
    BY <2>1
  <2>2. CASE m = 102
    BY <2>2
  <2> QED
    BY <2>1, <2>2
<1>3. Sides(s, a, width, m)
      = Word("G91") \o touch1 \o up \o Word("G91") \o Rapid(a, back) \o down
        \o Word("G91") \o touch2 \o Mid(n3, n1, n2) \o up \o SetWcs(s, a, n3)
  BY DEF Sides
<1>4. back \in Int /\ far = back + high[a][1]
  OBVIOUS
<1>5. reach = width \div 2 + 2 * s.safety
  OBVIOUS
<1>6. far = -(width + 2 * s.safety) + high[a][1]
  OBVIOUS
<1>7. Heads(-1, 1) /\ Heads(1, 2)
  BY DEF Heads
<1> HIDE DEF back, reach, n1, n2, n3, far, f1, f2
<1>8. StockMoves(s, above, low, high, a, p, zc, zd, far, reach)
  BY <1>5, <1>6, StockParts
<1>9. /\ Free(s, high) /\ Free(s, low)
      /\ high[a][1] \in Int /\ low[a][2] \in Int /\ far \in Int /\ reach \in Int
      /\ Walled(s, high, a, 1, zd) /\ Walled(s, low, a, 2, zd)
      /\ At(p, a, p[a], zc) \in Spots(high) /\ At(p, a, p[a], zd) \in Spots(high)
      /\ At(p, a, far, zc) \in Spots(low) /\ At(p, a, far, zd) \in Spots(low)
      /\ Beyond(high, a, 1, p[a] + -1 * reach)
      /\ Covers(high, a, high[a][1] - -1 * s.retract)
      /\ Beyond(low, a, 2, far + 1 * reach)
      /\ Covers(low, a, low[a][2] - 1 * s.retract)
      /\ Covers(above, a, p[a]) /\ Covers(above, a, high[a][1])
      /\ Covers(above, a, far) /\ Covers(above, a, low[a][2])
      /\ Covers(above, a, s.feature[a])
      /\ s.feature[a] = (high[a][1] + low[a][2]) \div 2 /\ s.feature[a] \in Int
  BY <1>8 DEF StockMoves
<1>10. f1 \in Int /\ f2 \in Int /\ f1 = high[a][1] /\ f2 = low[a][2]
  BY <1>9 DEF f1, f2
\* What is read and what is made of it.
<1>11. u1 \in Values /\ u1[n1] = f1
  BY <1>2, <1>10 DEF Put, Values
<1> HIDE DEF u1
<1>12. u2 \in Values /\ u2[n1] = f1 /\ u2[n2] = f2
  BY <1>2, <1>10, <1>11 DEF Put, Values
<1> HIDE DEF u2
<1>13. u3 \in Values /\ u3[n3] = s.feature[a]
  <2>1. (u2[n1] + u2[n2]) \div 2 = s.feature[a]
    BY <1>9, <1>10, <1>12
  <2> QED
    BY <1>2, <1>9, <1>12, <2>1 DEF Put, Values
\* The high side, and up to the clearance.
<1>14. P(f1, zd) \in Spots(high)
       /\ Passes(s, touch1, M("G91", P(y, zd), v), M("G91", P(f1, zd), u1))
  <2>1. -1 \in Int
    OBVIOUS
  <2>2. /\ At(p, a, high[a][1], zd) \in Spots(high)
        /\ Passes(s, DoubleTouch(s, a, -1, reach, n1),
                  Machine(Modal("G91", w, o, F), At(p, a, y, zd), v),
                  Machine(Modal("G91", w, o, F), At(p, a, high[a][1], zd),
                          Put(v, n1, high[a][1])))
    <3> DEFINE d == -1
               end == 1
    <3>1. /\ At(p, a, y, zd) \in Spots(high) /\ Beyond(high, a, end, y + d * reach)
          /\ Walled(s, high, a, end, zd) /\ Covers(high, a, high[a][end] - d * s.retract)
          /\ Heads(d, end) /\ Free(s, high) /\ reach \in Int
      BY <1>7, <1>9
    <3> HIDE DEF y, d, end
    <3>2. /\ At(p, a, high[a][end], zd) \in Spots(high)
          /\ Passes(s, DoubleTouch(s, a, d, reach, n1),
                    Machine(Modal("G91", w, o, F), At(p, a, y, zd), v),
                    Machine(Modal("G91", w, o, F), At(p, a, high[a][end], zd),
                            Put(v, n1, high[a][end])))
      BY <1>1, <1>2, <3>1, PassSide
    <3> QED
      BY <3>2 DEF d, end
  <2> QED
    BY <1>10, <2>2 DEF u1
<1>15. Covers(high, "Z", zc) /\ Covers(low, "Z", zc) /\ Covers(low, "Z", zd)
  <2>1. P(y, zc)["Z"] = zc /\ P(far, zc)["Z"] = zc /\ P(far, zd)["Z"] = zd /\ "Z" \in Axes
    BY <1>1, <1>9, AtPlace DEF Axes
  <2> QED
    BY <1>9, <2>1, SpotPoint
<1>16. Passes(s, up, M("G91", P(f1, zd), u1), M("G90", P(f1, zc), u1))
  <2>1. Put(P(f1, zd), "Z", zc) = P(f1, zc)
    BY AtMoves
  <2> HIDE DEF P
  <2>2. Passes(s, up, M("G91", P(f1, zd), u1), M("G90", Put(P(f1, zd), "Z", zc), u1))
    BY <1>9, <1>14, <1>15, PassAbsZ
  <2> QED
    BY <2>1, <2>2
\* Over to the low side.
<1>17. \A x, z, t : Put(P(x, z), a, t) = P(t, z) /\ Put(P(x, z), "Z", t) = P(x, t)
  BY AtMoves
<1>18. P(f1, zc) \in Spots(above) /\ P(f1, zc)[a] = f1
  <2>1. Put(P(y, zc), a, f1) \in Spots(above)
    BY <1>1, <1>9, <1>10, PutSpot
  <2>2. P(f1, zc)[a] = f1
    BY <1>10, AtPlace
  <2> QED
    BY <1>17, <2>1, <2>2
<1>19. Passes(s, Word("G91"), M("G90", P(f1, zc), u1), M("G91", P(f1, zc), u1))
  BY PassWord
<1> HIDE DEF P
<1>20. Passes(s, Rapid(a, back), M("G91", P(f1, zc), u1), M("G91", P(far, zc), u1))
  <2>1. far = back + Base(Modal("G91", w, o, F), P(f1, zc), a)
    BY <1>18, Bases DEF far
  <2>2. Passes(s, Rapid(a, back), M("G91", P(f1, zc), u1),
               M("G91", Put(P(f1, zc), a, far), u1))
    BY <1>1, <1>4, <1>9, <1>18, <2>1, PassRapid
  <2> QED
    BY <1>17, <2>2
<1>21. P(far, zc) \in Spots(low) /\ P(far, zd) \in Spots(low)
  BY <1>9 DEF P
<1>22. Passes(s, down, M("G91", P(far, zc), u1), M("G90", P(far, zd), u1))
  <2>1. Passes(s, down, M("G91", P(far, zc), u1), M("G90", Put(P(far, zc), "Z", zd), u1))
    BY <1>9, <1>15, <1>21, PassAbsZ
  <2> QED
    BY <1>17, <2>1
\* The low side.
<1>23. /\ P(f2, zd) \in Spots(low)
       /\ Passes(s, touch2, M("G91", P(far, zd), u1), M("G91", P(f2, zd), u2))
  <2>1. /\ At(p, a, low[a][2], zd) \in Spots(low)
        /\ Passes(s, DoubleTouch(s, a, 1, reach, n2),
                  Machine(Modal("G91", w, o, F), At(p, a, far, zd), u1),
                  Machine(Modal("G91", w, o, F), At(p, a, low[a][2], zd),
                          Put(u1, n2, low[a][2])))
    BY <1>1, <1>2, <1>7, <1>9, PassSide, SMTT(60)
  <2> QED
    BY <1>10, <2>1 DEF u2, P
<1>24. Passes(s, Mid(n3, n1, n2), M("G91", P(f2, zd), u2), M("G91", P(f2, zd), u3))
  <2>1. Sound(s, w, o, F)
    OBVIOUS
  <2> QED
    BY ONLY <1>2, <2>1, PassAssign
<1> HIDE DEF u3
<1>25. Passes(s, up, M("G91", P(f2, zd), u3), M("G90", P(f2, zc), u3))
  <2>1. Passes(s, up, M("G91", P(f2, zd), u3), M("G90", Put(P(f2, zd), "Z", zc), u3))
    BY <1>9, <1>15, <1>23, PassAbsZ
  <2> QED
    BY <1>17, <2>1
<1>26. Passes(s, SetWcs(s, a, n3), M("G90", P(f2, zc), u3), E)
  BY ONLY <1>1, <1>2, <1>13, Sound(s, w, o, F), PassPlacing
<1>27. Passes(s, Word("G91"), M("G90", P(y, zd), v), M("G91", P(y, zd), v))
  BY PassWord
<1>28. Passes(s, Word("G91"), M("G90", P(far, zd), u1), M("G91", P(far, zd), u1))
  BY PassWord
<1> HIDE DEF M, E, touch1, touch2, up, down
<1> DEFINE first == Word("G91") \o touch1 \o up \o Word("G91") \o Rapid(a, back) \o down
           second == first \o Word("G91") \o touch2 \o Mid(n3, n1, n2)
<1>29. Passes(s, first, M("G90", P(y, zd), v), M("G90", P(far, zd), u1))
  BY ONLY <1>14, <1>16, <1>19, <1>20, <1>22, <1>27, PassJoined
<1> HIDE DEF first
<1>30. Passes(s, second, M("G90", P(y, zd), v), M("G91", P(f2, zd), u3))
  BY ONLY <1>23, <1>24, <1>28, <1>29, PassJoined
<1> HIDE DEF second
<1>31. Passes(s, second \o up \o SetWcs(s, a, n3), M("G90", P(y, zd), v), E)
  BY ONLY <1>25, <1>26, <1>30, PassJoined
<1>32. Sides(s, a, width, m) = second \o up \o SetWcs(s, a, n3)
  BY <1>3 DEF first, second
<1> QED
  BY <1>10, <1>13, <1>31, <1>32 DEF M, E, P, Gauges

LEMMA AtPut ==
    ASSUME NEW p, NEW a, NEW x, NEW y, NEW z
    PROVE  At(Put(p, a, y), a, x, z) = At(p, a, x, z)
BY PutTwice DEF At

\* The top of the stock, and the selection of the system that is set.
LEMMA PassTop ==
    ASSUME NEW s, Proper(s), s.retract \in Nat, s.clearance \in Int, s.z_offset \in Int,
           s.set_wcs, s.wcs \in WorkSystems, NEW r, Free(s, r), s.start \in Spots(r),
           Walled(s, r, "Z", 1, 0), Beyond(r, "Z", 1, s.start["Z"] - 30),
           Covers(r, "Z", r["Z"][1] + s.retract), s.feature["Z"] = r["Z"][1] + s.z_offset,
           NEW zc \in Int, zc = s.feature["Z"] + s.clearance, Covers(r, "Z", zc),
           NEW w, NEW o, NEW F, Sound(s, w, o, F), NEW v \in Values
    PROVE  /\ Sound(s, s.wcs, Placing(s, o, {"Z"}), F \cup Pairs(s, {"Z"}))
           /\ From(Placing(s, o, {"Z"})[s.wcs]["Z"], s.clearance, zc)
           /\ Placing(s, o, {"Z"})[s.wcs]["Z"] = s.feature["Z"]
           /\ Gauges(s, ProbeTop(s), Machine(Modal("G91", w, o, F), s.start, v),
                     Modal("G90", s.wcs, Placing(s, o, {"Z"}), F \cup Pairs(s, {"Z"})),
                     Put(s.start, "Z", zc))
<1> DEFINE f == r["Z"][1]
           z == s.feature["Z"]
           d == -1
           end == 1
           n == 100
           reach == 30
           p == s.start
           q == Put(p, "Z", r["Z"][end])
           v1 == Put(v, n, f)
           v2 == IF s.z_offset # 0 THEN Put(v1, n, v1[n] + s.z_offset) ELSE v1
           shift == IF s.z_offset # 0 THEN Shift(n, s.z_offset) ELSE <<>>
           o1 == Placing(s, o, {"Z"})
           F1 == F \cup Pairs(s, {"Z"})
           M(m, y, u) == Machine(m, y, u)
           m0 == Modal("G91", w, o, F)
           m1 == Modal("G91", w, o1, F1)
           m2 == Modal("G90", w, o1, F1)
           m3 == Modal("G90", s.wcs, o1, F1)
<1>1. /\ "Z" \in Axes /\ p \in Points /\ p["Z"] \in Int /\ f \in Int
      /\ r["Z"][1] <= p["Z"] /\ p["Z"] <= r["Z"][2] /\ r["Z"] \in Int \X Int
  <2>1. "Z" \in Axes
    BY DEF Axes
  <2> QED
    BY <2>1, SpotPoint DEF Free, Regions, Covers
<1>2. z \in Int /\ z = f + s.z_offset
  BY <1>1
<1>3. n \in 100..111 /\ n \in Int /\ reach \in Int /\ Heads(d, end)
  BY DEF Heads
<1>4. ProbeTop(s) = DoubleTouch(s, "Z", d, reach, n)
                    \o (shift \o SetWcs(s, "Z", n) \o Word("G90") \o Word(s.wcs)
                        \o Rapid("Z", s.clearance))
  <2>1. CASE s.z_offset # 0
    BY <2>1 DEF ProbeTop, When
  <2>2. CASE s.z_offset = 0
    BY <2>2 DEF ProbeTop, When
  <2> QED
    BY <2>1, <2>2
<1>5. /\ Walled(s, r, "Z", end, p["Z"]) /\ Beyond(r, "Z", end, p["Z"] + d * reach)
      /\ Covers(r, "Z", r["Z"][end] - d * s.retract)
  <2>1. Walled(s, r, "Z", end, p["Z"])
    BY DEF Walled
  <2>2. p["Z"] + d * reach = p["Z"] - 30
    BY <1>1
  <2>3. r["Z"][end] - d * s.retract = f + s.retract
    <3>1. \A i \in Int : i - -1 * s.retract = i + s.retract
      OBVIOUS
    <3> QED
      BY <1>1, <3>1
  <2> QED
    BY <2>1, <2>2, <2>3
<1>6. r["Z"][end] = f
  OBVIOUS
<1>7. v1 \in Values /\ v1[n] = f
  BY <1>1, <1>3 DEF Put, Values
<1> HIDE DEF v1, f
<1>8. v2 \in Values /\ v2[n] = z
  <2>1. v1[n] + s.z_offset \in Int /\ v1[n] + s.z_offset = z
    BY <1>2, <1>7
  <2>2. Put(v1, n, z) \in Values /\ Put(v1, n, z)[n] = z
    BY <1>2, <1>3, <1>7 DEF Put, Values
  <2>3. CASE s.z_offset # 0
    BY <2>1, <2>2, <2>3
  <2>4. CASE s.z_offset = 0
    <3>1. v1[n] = z
      BY <1>1, <1>2, <1>7, <2>4
    <3> QED
      BY <1>7, <2>4, <3>1
  <2> QED
    BY <2>3, <2>4
<1> HIDE DEF d, end, n, reach, z
<1>9. q \in Spots(r) /\ Passes(s, DoubleTouch(s, "Z", d, reach, n), M(m0, p, v), M(m0, q, v1))
  <2>1. /\ Put(p, "Z", r["Z"][end]) \in Spots(r)
        /\ Passes(s, DoubleTouch(s, "Z", d, reach, n), M(m0, p, v),
                  M(m0, Put(p, "Z", r["Z"][end]), Put(v, n, r["Z"][end])))
    BY <1>1, <1>3, <1>5, PassDouble
  <2> QED
    BY <1>6, <2>1 DEF v1
<1>10. Put(q, "Z", zc) = Put(p, "Z", zc)
  BY PutTwice
<1> HIDE DEF q
<1>11. Passes(s, shift, M(m0, q, v1), M(m0, q, v2))
  <2>1. CASE s.z_offset # 0
    BY <1>3, <2>1, PassAssign
  <2>2. CASE s.z_offset = 0
    BY <2>2, PassNothing
  <2> QED
    BY <2>1, <2>2
<1> HIDE DEF shift, v2
<1>12. Passes(s, SetWcs(s, "Z", n), M(m0, q, v2), M(m1, q, v2))
  <2>1. v2[n] = s.feature["Z"]
    BY <1>8 DEF z
  <2> QED
    BY <1>1, <1>3, <2>1, PassPlacing
<1>13. Sound(s, w, o1, F1) /\ Sound(s, s.wcs, o1, F1)
  <2>1. {"Z"} \in SUBSET Axes /\ \A a \in {"Z"} : s.feature[a] \in Int
    BY <1>1, <1>2 DEF z
  <2>2. Sound(s, w, o1, F1)
    BY <2>1, PlacingSound
  <2> QED
    BY <2>2 DEF Sound
<1>14. o1[s.wcs]["Z"] = s.feature["Z"]
  <2>1. System(s) = s.wcs
    BY DEF System
  <2> QED
    BY <1>1, <2>1, PlacingSet
<1> HIDE DEF o1, F1
<1>15. Passes(s, Word("G90"), M(m1, q, v2), M(m2, q, v2))
  BY <1>13, PassWord
<1>16. Passes(s, Word(s.wcs), M(m2, q, v2), M(m3, q, v2))
  BY <1>13, PassWord
<1>17. zc = s.clearance + o1[s.wcs]["Z"]
  BY <1>2, <1>14 DEF z
<1>18. Passes(s, Rapid("Z", s.clearance), M(m3, q, v2), M(m3, Put(p, "Z", zc), v2))
  <2>1. zc = s.clearance + Base(m3, q, "Z")
    BY <1>17, Bases
  <2> QED
    BY <1>1, <1>9, <1>10, <1>13, <2>1, PassRapid
<1> HIDE DEF m0, m1, m2, m3, M, p
<1>19. Passes(s, shift \o SetWcs(s, "Z", n) \o Word("G90") \o Word(s.wcs)
                 \o Rapid("Z", s.clearance), M(m0, q, v1), M(m3, Put(p, "Z", zc), v2))
  BY ONLY <1>11, <1>12, <1>15, <1>16, <1>18, PassJoined
<1>20. Passes(s, ProbeTop(s), M(m0, p, v), M(m3, Put(p, "Z", zc), v2))
  BY <1>4, <1>9, <1>19, PassJoined
<1>21. From(o1[s.wcs]["Z"], s.clearance, zc)
  BY <1>17 DEF From
<1> QED
  BY <1>8, <1>13, <1>14, <1>20, <1>21 DEF M, m0, m3, p, o1, F1, Gauges

\* One axis of the stock: outwards from above its middle, down beside its high
\* face, both sides and the setting.
AxisAt(s, above, low, high, w, o, F, a, width, b, x, over, zc, zd, v, m) ==
    /\ StockAt(s, above, low, high, w, o, F, a, width, Put(b, a, x), zc, zd)
    /\ b \in Points /\ x \in Int /\ over \in Int /\ x = over + b[a]
    /\ Put(b, "Z", zc) \in Spots(above) /\ v \in Values /\ m \in Slots

AxisMoves(s, above, low, w, o, F, a, width, b, x, over, zc, zd, v, m) ==
    /\ Covers(above, a, s.feature[a]) /\ s.feature[a] \in Int
    /\ low[a][2] \in Int /\ At(b, a, low[a][2], zc) \in Spots(above)
    /\ Passes(s, Rapid(a, over), Machine(Modal("G91", w, o, F), Put(b, "Z", zc), v),
              Machine(Modal("G91", w, o, F), At(b, a, x, zc), v))
    /\ Passes(s, AbsZ(s.probe_z), Machine(Modal("G91", w, o, F), At(b, a, x, zc), v),
              Machine(Modal("G90", w, o, F), At(b, a, x, zd), v))
    /\ Gauges(s, Sides(s, a, width, m),
              Machine(Modal("G90", w, o, F), At(b, a, x, zd), v),
              Modal("G90", w, Placing(s, o, {a}), F \cup Pairs(s, {a})),
              At(b, a, low[a][2], zc))

LEMMA AxisRuns ==
    ASSUME NEW s, NEW above, NEW low, NEW high, NEW w, NEW o, NEW F, NEW a, NEW width,
           NEW b, NEW x, NEW over, NEW zc, NEW zd, NEW v, NEW m,
           AxisAt(s, above, low, high, w, o, F, a, width, b, x, over, zc, zd, v, m)
    PROVE  AxisMoves(s, above, low, w, o, F, a, width, b, x, over, zc, zd, v, m)
<1> DEFINE p == Put(b, a, x)
           far == -(width + 2 * s.safety) + high[a][1]
           reach == width \div 2 + 2 * s.safety
           q == Put(b, "Z", zc)
<1>1. /\ StockAt(s, above, low, high, w, o, F, a, width, p, zc, zd)
       /\ b \in Points /\ x \in Int /\ over \in Int /\ x = over + b[a]
       /\ q \in Spots(above) /\ v \in Values /\ m \in Slots
  BY DEF AxisAt
<1>2. /\ a \in Axes /\ a # "Z" /\ "Z" \in Axes /\ b[a] \in Int
      /\ p \in Points /\ p[a] = x
  BY <1>1 DEF Both, Axes, Put, Points, StockAt
<1>3. q \in Points /\ q[a] = b[a] /\ Put(q, a, x) = At(b, a, x, zc)
  <2>1. q \in Points /\ q[a] = b[a]
    BY <1>2, <1>1 DEF Put, Points, StockAt
  <2>2. Put(q, a, x) = At(b, a, x, zc)
    BY <1>2, PutBoth DEF At
  <2> QED
    BY <2>1, <2>2
<1>4. \A y, z : At(p, a, y, z) = At(b, a, y, z)
  BY AtPut
<1>5. StockAt(s, above, low, high, w, o, F, a, width, p, zc, zd)
  BY <1>1
<1> HIDE DEF p
<1>6. /\ Proper(s) /\ Free(s, above) /\ Sound(s, w, o, F)
       /\ s.retract \in Nat /\ s.safety \in Int /\ s.clearance \in Int /\ s.probe_z \in Int
       /\ a \in Both /\ width \in Int /\ StockFits(s, above, low, high, a, width, p)
       /\ zc \in Int /\ zc = s.feature["Z"] + s.clearance
       /\ zd \in Int /\ zd = s.feature["Z"] + s.probe_z /\ From(o[w]["Z"], s.probe_z, zd)
  BY <1>5 DEF StockAt
<1>7. StockMoves(s, above, low, high, a, p, zc, zd, far, reach)
  BY <1>2, <1>6, StockParts
<1>8. /\ Covers(above, a, s.feature[a]) /\ s.feature[a] \in Int /\ low[a][2] \in Int
      /\ Free(s, high) /\ Covers(above, a, low[a][2])
  BY <1>7 DEF StockMoves
<1>9. /\ At(b, a, x, zc) \in Spots(high) /\ At(b, a, x, zd) \in Spots(high)
      /\ Covers(above, a, x)
  BY <1>2, <1>4, <1>7 DEF StockMoves
<1>10. x = over + Base(Modal("G91", w, o, F), q, a)
  BY <1>3, <1>1, Bases
<1> HIDE DEF q
<1>11. /\ Put(q, a, x) \in Spots(above)
      /\ Passes(s, Rapid(a, over), Machine(Modal("G91", w, o, F), q, v),
                Machine(Modal("G91", w, o, F), Put(q, a, x), v))
  <2>1. q \in Spots(above)
    BY <1>1
  <2> QED
    BY <1>2, <1>9, <1>10, <1>6, <1>1, <2>1, PassRapid
<1>12. Passes(s, AbsZ(s.probe_z), Machine(Modal("G91", w, o, F), At(b, a, x, zc), v),
              Machine(Modal("G90", w, o, F), At(b, a, x, zd), v))
  <2>1. Put(At(b, a, x, zc), "Z", zd) = At(b, a, x, zd)
    BY <1>6, AtMoves
  <2>2. Covers(high, "Z", zd)
    <3>1. At(b, a, x, zd)["Z"] = zd
      BY <1>6, <1>1, AtPlace
    <3> QED
      BY <1>2, <1>9, <3>1, SpotPoint
  <2>3. Passes(s, AbsZ(s.probe_z), Machine(Modal("G91", w, o, F), At(b, a, x, zc), v),
               Machine(Modal("G90", w, o, F), Put(At(b, a, x, zc), "Z", zd), v))
    BY <1>8, <1>9, <1>6, <2>2, PassAbsZ
  <2> QED
    BY <2>1, <2>3
<1>13. At(b, a, x, zc) \in Spots(above)
  BY <1>3, <1>11
<1>14. At(b, a, low[a][2], zc) \in Spots(above)
  <2>1. Put(At(b, a, x, zc), a, low[a][2]) = At(b, a, low[a][2], zc)
    BY <1>6, AtMoves
  <2> QED
    BY <1>2, <1>8, <1>13, <2>1, PutSpot
<1>15. At(p, a, p[a], zc) \in Spots(above)
  BY <1>2, <1>4, <1>13
<1>16. Gauges(s, Sides(s, a, width, m),
              Machine(Modal("G90", w, o, F), At(p, a, p[a], zd), v),
              Modal("G90", w, Placing(s, o, {a}), F \cup Pairs(s, {a})),
              At(p, a, low[a][2], zc))
  <2>1. v \in Values /\ m \in Slots
    BY <1>1
  <2> QED
    BY ONLY <1>5, <1>15, <2>1, SidesRun
<1> QED
  BY <1>2, <1>3, <1>4, <1>8, <1>11, <1>12, <1>14, <1>16 DEF q, AxisMoves

LEMMA BoxRuns ==
    ASSUME NEW s, s.cycle = "outside_box", Request(s),
           s.offset \in [WorkSystems -> [Axes -> Int]], NEW G, Fits(s, G)
    PROVE  \E y : Passes(s, OutsideBox(s), Start(s), y)
<1> DEFINE column == G.column
           above == G.above
           low == G.low
           high == G.high
           f == s.feature
           p == s.start
           zc == f["Z"] + s.clearance
           zd == f["Z"] + s.probe_z
           w == s.wcs
           o1 == Placing(s, s.offset, {"Z"})
           F1 == {} \cup Pairs(s, {"Z"})
           o2 == Placing(s, o1, {"X"})
           F2 == F1 \cup Pairs(s, {"X"})
           o3 == Placing(s, o2, {"Y"})
           F3 == F2 \cup Pairs(s, {"Y"})
           overx == s.x_width \div 2 + s.safety
           overy == s.y_width \div 2 + s.safety
           right == overx + p["X"]
           back == overy + p["Y"]
           b == Put(p, "X", f["X"])
           lx == low["X"]["X"][2]
           ly == low["Y"]["Y"][2]
           v == [n \in 100..111 |-> 0]
           M0(g, u) == Machine(Modal(g, s.active, s.offset, {}), p, u)
           M1(g, y, u) == Machine(Modal(g, w, o1, F1), y, u)
           M2(g, y, u) == Machine(Modal(g, w, o2, F2), y, u)
           M3(g, y, u) == Machine(Modal(g, w, o3, F3), y, u)
<1>1. /\ "X" \in Axes /\ "Y" \in Axes /\ "Z" \in Axes /\ "X" \in Both /\ "Y" \in Both
  BY DEF Axes, Both
<1>2. /\ s.clearance \in Int /\ s.x_width \in Int /\ s.y_width \in Int
      /\ s.probe_z \in Int /\ s.safety \in Int /\ s.retract \in Int /\ s.z_offset \in Int
      /\ w \in WorkSystems
  BY DEF Request, Parameters
<1>3. /\ Proper(s) /\ Sound(s, s.active, s.offset, {}) /\ p \in Points
  BY Starting
<1>4. BoxFits(s, column, above, low, high)
  BY DEF Fits
<1>5. /\ SetsAll(s) /\ s.retract \in Nat /\ s.set_wcs /\ s.probe_top
      /\ s.mode # "renishaw"
  BY <1>4 DEF BoxFits, SetsAll
<1>6. /\ Free(s, column) /\ p \in Spots(column)
      /\ Walled(s, column, "Z", 1, 0) /\ Beyond(column, "Z", 1, p["Z"] - 30)
      /\ Covers(column, "Z", column["Z"][1] + s.retract) /\ Covers(column, "Z", zc)
      /\ f["Z"] = column["Z"][1] + s.z_offset
      /\ Free(s, above) /\ Put(p, "Z", zc) \in Spots(above)
  BY <1>4 DEF BoxFits
<1>7. /\ p["X"] \in Int /\ p["Y"] \in Int /\ overx \in Int /\ overy \in Int
      /\ right \in Int /\ back \in Int
      /\ right = p["X"] + overx /\ back = p["Y"] + overy
  <2>1. p["X"] \in Int /\ p["Y"] \in Int
    BY <1>1, <1>3 DEF Points
  <2>2. overx \in Int /\ overy \in Int
    BY <1>2
  <2> HIDE DEF p, overx, overy
  <2> QED
    BY <2>1, <2>2
<1>8. /\ StockFits(s, above, low["X"], high["X"], "X", s.x_width, Put(p, "X", right))
      /\ StockFits(s, above, low["Y"], high["Y"], "Y", s.y_width, Put(b, "Y", back))
  <2>1. right = s.start["X"] + (s.x_width \div 2 + s.safety)
    BY <1>7
  <2>2. back = s.start["Y"] + (s.y_width \div 2 + s.safety)
    BY <1>7
  <2> HIDE DEF right, back
  <2> QED
    BY <1>4, <2>1, <2>2 DEF BoxFits
<1>9. f["Z"] \in Int /\ zc \in Int /\ zd \in Int
  <2>1. column["Z"] \in Int \X Int
    BY <1>1, <1>6 DEF Free, Regions
  <2>2. f["Z"] \in Int
    BY <1>2, <1>6, <2>1
  <2> HIDE DEF f
  <2> QED
    BY <1>2, <2>2
<1>10. v \in Values
  BY DEF Values
<1>11. Start(s) = M0("G90", v)
  BY DEF Start
<1> DEFINE overtop == Word("G91") \o Rapid("X", overx) \o AbsZ(s.probe_z)
                      \o Sides(s, "X", s.x_width, 100)
           yside == Word("G90") \o Rapid("X", 0) \o Word("G91") \o Rapid("Y", overy)
                    \o AbsZ(s.probe_z) \o Sides(s, "Y", s.y_width, 102)
           home == Word("G90") \o Move("G00", [X |-> 0, Y |-> 0])
           up == AbsZ(s.clearance)
<1>12. OutsideBox(s) = Header(TRUE) \o Word("G91")
                       \o (ProbeTop(s) \o overtop \o yside \o home) \o up \o Footer
  <2>1. XSides(s) = overtop
    BY <1>5 DEF XSides
  <2>2. YSides(s) = yside
    BY <1>5 DEF YSides, When
  <2> HIDE DEF overtop, yside
  <2> QED
    BY <1>5, <2>1, <2>2 DEF OutsideBox, When
<1> HIDE DEF overx, overy, right, back, v, zc, zd, f, p, w
<1>13. Passes(s, Header(TRUE), M0("G90", v), M0("G91", v))
  <2>1. Header(TRUE) = Word("G91")
    BY DEF Header
  <2>2. Passes(s, Word("G91"), M0("G90", v), M0("G91", v))
    BY <1>3, PassWord
  <2> QED
    BY <2>1, <2>2
<1>14. Passes(s, Word("G91"), M0("G91", v), M0("G91", v))
  BY <1>3, PassWord
\* The top.
<1>15. zc = f["Z"] + s.clearance /\ zd = f["Z"] + s.probe_z
  BY DEF zc, zd
<1>16. /\ Sound(s, w, o1, F1) /\ From(o1[w]["Z"], s.clearance, zc)
       /\ o1[w]["Z"] = f["Z"]
       /\ Gauges(s, ProbeTop(s), M0("G91", v), Modal("G90", w, o1, F1), Put(p, "Z", zc))
  <2>1. /\ s.wcs \in WorkSystems /\ s.start \in Spots(column)
        /\ Beyond(column, "Z", 1, s.start["Z"] - 30)
        /\ s.feature["Z"] = column["Z"][1] + s.z_offset
        /\ zc = s.feature["Z"] + s.clearance
    BY <1>2, <1>6, <1>15 DEF w, p, f
  <2>2. /\ Sound(s, s.wcs, Placing(s, s.offset, {"Z"}), {} \cup Pairs(s, {"Z"}))
        /\ From(Placing(s, s.offset, {"Z"})[s.wcs]["Z"], s.clearance, zc)
        /\ Placing(s, s.offset, {"Z"})[s.wcs]["Z"] = s.feature["Z"]
        /\ Gauges(s, ProbeTop(s),
                  Machine(Modal("G91", s.active, s.offset, {}), s.start, v),
                  Modal("G90", s.wcs, Placing(s, s.offset, {"Z"}), {} \cup Pairs(s, {"Z"})),
                  Put(s.start, "Z", zc))
    BY <1>2, <1>3, <1>5, <1>6, <1>9, <1>10, <2>1, PassTop
  <2> QED
    BY <2>2 DEF w, p, f
<1>17. PICK u1 \in Values :
          Passes(s, ProbeTop(s), M0("G91", v), M1("G90", Put(p, "Z", zc), u1))
  BY <1>16 DEF Gauges
<1> HIDE DEF o1, F1, M0, M1, M2, M3
\* The X axis.
<1>18. AxisMoves(s, above, low["X"], w, o1, F1, "X", s.x_width, p, right, overx, zc, zd,
                 u1, 100)
  <2>1. right = overx + p["X"] /\ From(o1[w]["Z"], s.probe_z, zd)
    BY <1>2, <1>7, <1>9, <1>15, <1>16 DEF From
  <2>2. zc = s.feature["Z"] + s.clearance /\ zd = s.feature["Z"] + s.probe_z
    BY <1>15 DEF f
  <2> DEFINE a == "X"
             m == 100
             lo == low["X"]
             hi == high["X"]
             width == s.x_width
  <2>3. /\ a \in Both /\ m \in {100, 102} /\ right = overx + p[a] /\ width \in Int
        /\ StockFits(s, above, lo, hi, a, width, Put(p, a, right))
    BY <1>1, <1>2, <1>8, <2>1
  <2> HIDE DEF a, m, lo, hi, width
  <2>4. Put(p, a, right) \in Points
    BY <1>1, <1>3, <1>7 DEF Put, Points, a
  <2>5. /\ p \in Points /\ right \in Int /\ overx \in Int /\ Put(p, "Z", zc) \in Spots(above)
        /\ u1 \in Values
    BY <1>3, <1>6, <1>7
  <2>6. StockAt(s, above, lo, hi, w, o1, F1, a, width, Put(p, a, right), zc, zd)
    BY <1>2, <1>3, <1>5, <1>6, <1>9, <1>16, <2>1, <2>2, <2>3, <2>4 DEF StockAt
  <2>7. AxisMoves(s, above, lo, w, o1, F1, a, width, p, right, overx, zc, zd, u1, m)
    <3>1. AxisAt(s, above, lo, hi, w, o1, F1, a, width, p, right, overx, zc, zd, u1, m)
      BY <2>3, <2>6, <2>5 DEF AxisAt, Slots
    <3> QED
      BY ONLY <3>1, AxisRuns
  <2> QED
    BY <2>7 DEF a, m, lo, width
<1>19. /\ Covers(above, "X", f["X"]) /\ f["X"] \in Int /\ lx \in Int
       /\ At(p, "X", lx, zc) \in Spots(above)
       /\ Passes(s, Rapid("X", overx), M1("G91", Put(p, "Z", zc), u1),
                 M1("G91", At(p, "X", right, zc), u1))
       /\ Passes(s, AbsZ(s.probe_z), M1("G91", At(p, "X", right, zc), u1),
                 M1("G90", At(p, "X", right, zd), u1))
  BY <1>18 DEF AxisMoves, M1, f
<1>20. Gauges(s, Sides(s, "X", s.x_width, 100), M1("G90", At(p, "X", right, zd), u1),
              Modal("G90", w, o2, F2), At(p, "X", lx, zc))
  BY <1>18 DEF AxisMoves, M1
<1>21. PICK u2 \in Values :
          Passes(s, Sides(s, "X", s.x_width, 100), M1("G90", At(p, "X", right, zd), u1),
                 M2("G90", At(p, "X", lx, zc), u2))
  BY <1>20 DEF Gauges, M2
<1>22. Passes(s, Word("G91"), M1("G90", Put(p, "Z", zc), u1), M1("G91", Put(p, "Z", zc), u1))
  BY <1>16, PassWord DEF M1
<1>23. /\ Sound(s, w, o2, F2) /\ o2[w]["X"] = f["X"] /\ o2[w]["Z"] = f["Z"]
  <2>1. {"X"} \in SUBSET Axes /\ \A a \in {"X"} : s.feature[a] \in Int
    BY <1>1, <1>19 DEF f
  <2>2. Sound(s, w, o2, F2)
    BY <1>16, <2>1, PlacingSound
  <2>3. System(s) = w
    BY <1>2 DEF System, w
  <2>4. o2[w]["X"] = f["X"]
    BY <1>1, <1>5, <2>3, PlacingSet DEF f
  <2>5. o2[w]["Z"] = f["Z"]
    BY <1>1, <1>2, <1>16 DEF Placing, o2
  <2> QED
    BY <2>2, <2>4, <2>5
<1> HIDE DEF o2, F2, lx
\* Over the middle of X, and the Y axis.
<1>24. At(p, "X", f["X"], zc) = Put(b, "Z", zc)
  BY DEF At, b
<1>25. /\ Put(b, "Z", zc) \in Spots(above) /\ b \in Points /\ b["Y"] = p["Y"]
       /\ b["X"] = f["X"]
  <2>1. Put(At(p, "X", lx, zc), "X", f["X"]) = At(p, "X", f["X"], zc)
    BY <1>1, AtMoves
  <2>2. Put(b, "Z", zc) \in Spots(above)
    BY <1>1, <1>19, <1>24, <2>1, PutSpot
  <2> QED
    BY <1>1, <1>3, <1>19, <2>2 DEF b, Put, Points
<1>26. Passes(s, Word("G90"), M2("G90", At(p, "X", lx, zc), u2),
              M2("G90", At(p, "X", lx, zc), u2))
  BY <1>23, PassWord DEF M2
<1>27. Passes(s, Rapid("X", 0), M2("G90", At(p, "X", lx, zc), u2),
              M2("G90", Put(b, "Z", zc), u2))
  <2> DEFINE q == At(p, "X", lx, zc)
             n == 0
             x == f["X"]
             a == "X"
  <2>1. x = n + Base(Modal("G90", w, o2, F2), q, a) /\ x \in Int /\ n \in Int
    BY <1>19, <1>23, Bases
  <2>2. Put(q, a, x) = Put(b, "Z", zc) /\ q \in Spots(above) /\ a \in Axes
        /\ Covers(above, a, x)
    BY <1>1, <1>19, <1>24, AtMoves
  <2> HIDE DEF q, n, x, a
  <2>3. Passes(s, Rapid(a, n), Machine(Modal("G90", w, o2, F2), q, u2),
               Machine(Modal("G90", w, o2, F2), Put(q, a, x), u2))
    BY <1>3, <1>6, <1>23, <2>1, <2>2, PassRapid
  <2> QED
    BY <2>2, <2>3 DEF M2, q, n, a
<1>28. Passes(s, Word("G91"), M2("G90", Put(b, "Z", zc), u2), M2("G91", Put(b, "Z", zc), u2))
  BY <1>23, PassWord DEF M2
<1>29. AxisMoves(s, above, low["Y"], w, o2, F2, "Y", s.y_width, b, back, overy, zc, zd,
                 u2, 102)
  <2>1. back = overy + b["Y"] /\ From(o2[w]["Z"], s.probe_z, zd)
        /\ From(o2[w]["Z"], s.clearance, zc)
    BY <1>2, <1>7, <1>9, <1>15, <1>23, <1>25 DEF From
  <2>2. zc = s.feature["Z"] + s.clearance /\ zd = s.feature["Z"] + s.probe_z
    BY <1>15 DEF f
  <2> DEFINE a == "Y"
             m == 102
             lo == low["Y"]
             hi == high["Y"]
             width == s.y_width
  <2>3. /\ a \in Both /\ m \in {100, 102} /\ back = overy + b[a] /\ width \in Int
        /\ StockFits(s, above, lo, hi, a, width, Put(b, a, back))
    BY <1>1, <1>2, <1>8, <2>1
  <2> HIDE DEF a, m, lo, hi, width, b
  <2>4. Put(b, a, back) \in Points
    BY <1>1, <1>7, <1>25 DEF Put, Points, a
  <2>5. /\ b \in Points /\ back \in Int /\ overy \in Int /\ Put(b, "Z", zc) \in Spots(above)
        /\ u2 \in Values
    BY <1>7, <1>25
  <2>6. StockAt(s, above, lo, hi, w, o2, F2, a, width, Put(b, a, back), zc, zd)
    BY <1>2, <1>3, <1>5, <1>6, <1>9, <1>23, <2>1, <2>2, <2>3, <2>4 DEF StockAt
  <2>7. AxisMoves(s, above, lo, w, o2, F2, a, width, b, back, overy, zc, zd, u2, m)
    <3>1. AxisAt(s, above, lo, hi, w, o2, F2, a, width, b, back, overy, zc, zd, u2, m)
      BY <2>3, <2>6, <2>5 DEF AxisAt, Slots
    <3> QED
      BY ONLY <3>1, AxisRuns
  <2> QED
    BY <2>7 DEF a, m, lo, width
<1> HIDE DEF b
<1>30. /\ Covers(above, "Y", f["Y"]) /\ f["Y"] \in Int /\ ly \in Int
       /\ At(b, "Y", ly, zc) \in Spots(above)
       /\ Passes(s, Rapid("Y", overy), M2("G91", Put(b, "Z", zc), u2),
                 M2("G91", At(b, "Y", back, zc), u2))
       /\ Passes(s, AbsZ(s.probe_z), M2("G91", At(b, "Y", back, zc), u2),
                 M2("G90", At(b, "Y", back, zd), u2))
  BY <1>29 DEF AxisMoves, M2, f
<1>31. Gauges(s, Sides(s, "Y", s.y_width, 102), M2("G90", At(b, "Y", back, zd), u2),
              Modal("G90", w, o3, F3), At(b, "Y", ly, zc))
  BY <1>29 DEF AxisMoves, M2
<1>32. PICK u3 \in Values :
          Passes(s, Sides(s, "Y", s.y_width, 102), M2("G90", At(b, "Y", back, zd), u2),
                 M3("G90", At(b, "Y", ly, zc), u3))
  BY <1>31 DEF Gauges, M3
<1>33. /\ Sound(s, w, o3, F3) /\ o3[w]["Y"] = f["Y"] /\ o3[w]["X"] = f["X"]
       /\ o3[w]["Z"] = f["Z"]
  <2>1. {"Y"} \in SUBSET Axes /\ \A a \in {"Y"} : s.feature[a] \in Int
    BY <1>1, <1>30 DEF f
  <2>2. Sound(s, w, o3, F3)
    BY <1>23, <2>1, PlacingSound
  <2>3. System(s) = w
    BY <1>2 DEF System, w
  <2>4. o3[w]["Y"] = f["Y"]
    BY <1>1, <1>5, <2>3, PlacingSet DEF f
  <2>5. o3[w]["Z"] = f["Z"] /\ o3[w]["X"] = f["X"]
    BY <1>1, <1>2, <1>23 DEF Placing, o3
  <2> QED
    BY <2>2, <2>4, <2>5
<1> HIDE DEF o3, F3, ly
\* Back over the middle of both.
<1>34. Passes(s, Word("G90"), M3("G90", At(b, "Y", ly, zc), u3),
              M3("G90", At(b, "Y", ly, zc), u3))
  BY <1>33, PassWord DEF M3
<1> DEFINE e == Put(Put(At(b, "Y", ly, zc), "X", f["X"]), "Y", f["Y"])
<1>35. e \in Spots(above)
  <2>1. Put(At(b, "Y", ly, zc), "X", f["X"]) \in Spots(above)
    BY <1>1, <1>19, <1>30, PutSpot
  <2> QED
    BY <1>1, <1>30, <2>1, PutSpot
<1>36. Passes(s, Move("G00", [X |-> 0, Y |-> 0]), M3("G90", At(b, "Y", ly, zc), u3),
              M3("G90", e, u3))
  <2> DEFINE n == 0
             q == At(b, "Y", ly, zc)
             x == f["X"]
             y == f["Y"]
  <2>1. n \in Int /\ x = n + o3[w]["X"] /\ y = n + o3[w]["Y"] /\ q \in Spots(above)
    BY <1>19, <1>30, <1>33
  <2>2. Put(Put(q, "X", x), "Y", y) \in Spots(above)
    BY <1>35
  <2> HIDE DEF n, q, x, y
  <2>3. Passes(s, Move("G00", [X |-> n, Y |-> n]), Machine(Modal("G90", w, o3, F3), q, u3),
               Machine(Modal("G90", w, o3, F3), Put(Put(q, "X", x), "Y", y), u3))
    BY <1>3, <1>6, <1>33, <2>1, <2>2, PassCross
  <2> QED
    BY <2>3 DEF M3, n, q, x, y
<1>37. Passes(s, up, M3("G90", e, u3), M3("G90", Put(e, "Z", zc), u3))
  <2>1. From(o3[w]["Z"], s.clearance, zc)
    BY <1>2, <1>9, <1>15, <1>33 DEF From
  <2>2. Covers(above, "Z", zc)
    <3>1. Put(p, "Z", zc)["Z"] = zc
      BY <1>1, <1>3 DEF Put, Points
    <3> QED
      BY <1>1, <1>6, <3>1, SpotPoint
  <2> HIDE DEF e
  <2> QED
    BY <1>2, <1>3, <1>6, <1>9, <1>33, <1>35, <2>1, <2>2, PassAbsZ DEF M3
<1>38. PICK y : Passes(s, Footer, M3("G90", Put(e, "Z", zc), u3), y)
  BY <1>33, PassFooter DEF M3
<1> HIDE DEF e, up
<1>39. Passes(s, overtop, M1("G90", Put(p, "Z", zc), u1), M2("G90", At(p, "X", lx, zc), u2))
  BY ONLY <1>19, <1>21, <1>22, PassJoined
<1>40. Passes(s, yside, M2("G90", At(p, "X", lx, zc), u2), M3("G90", At(b, "Y", ly, zc), u3))
  BY ONLY <1>26, <1>27, <1>28, <1>30, <1>32, PassJoined
<1>41. Passes(s, home, M3("G90", At(b, "Y", ly, zc), u3), M3("G90", e, u3))
  BY ONLY <1>34, <1>36, PassJoined
<1> HIDE DEF overtop, yside, home
<1>42. Passes(s, ProbeTop(s) \o overtop \o yside \o home, M0("G91", v), M3("G90", e, u3))
  BY ONLY <1>17, <1>39, <1>40, <1>41, PassJoined
<1> DEFINE cycle == ProbeTop(s) \o overtop \o yside \o home
<1> HIDE DEF cycle
<1>43. Passes(s, Header(TRUE) \o Word("G91") \o cycle \o up \o Footer, M0("G90", v), y)
  <2>1. Passes(s, cycle, M0("G91", v), M3("G90", e, u3))
    BY <1>42 DEF cycle
  <2> QED
    BY ONLY <1>13, <1>14, <1>37, <1>38, <2>1, PassJoined
<1> QED
  BY <1>11, <1>12, <1>43 DEF cycle

LEMMA GeneratedRuns ==
    ASSUME NEW s, s.cycle \in Cycles, Request(s),
           s.offset \in [WorkSystems -> [Axes -> Int]], Placed(s)
    PROVE  \E y : Passes(s, Generated(s), Start(s), y)
<1>1. PICK G : Fits(s, G)
  BY DEF Placed
<1>2. CASE s.cycle = "single_surface"
  BY <1>1, <1>2, SurfaceRuns DEF Generated
<1>3. CASE s.cycle = "bore"
  BY <1>1, <1>3, BoreRuns DEF Generated
<1>4. CASE s.cycle = "boss"
  BY <1>1, <1>4, BossRuns DEF Generated
<1>5. CASE s.cycle = "corner"
  BY <1>1, <1>5, CornerRuns DEF Generated
<1>6. CASE s.cycle = "pocket_width"
  BY <1>1, <1>6, PocketRuns DEF Generated
<1>7. CASE s.cycle = "outside_box"
  BY <1>1, <1>7, BoxRuns DEF Generated
<1> QED
  BY <1>2, <1>3, <1>4, <1>5, <1>6, <1>7 DEF Cycles

-------------------------------------------------------------------------------
(* The machine follows that run *)

Here == Machine(Modal(dist, active, offset, fixed), pos, var)

TrackInv ==
    /\ answer # "gcode" => Here = Start(setup)
    /\ answer = "gcode" /\ Placed(setup) =>
          \E st : Works(setup, program, st) /\ st[pc] = Here

LEMMA HereParts ==
    /\ Here.modal = Modal(dist, active, offset, fixed) /\ Here.pos = pos /\ Here.var = var
    /\ Here.modal.dist = dist /\ Here.modal.active = active
    /\ Here.modal.offset = offset /\ Here.modal.fixed = fixed
BY DEF Here, Machine, Modal

\* The operators of the machine are those of the run.
LEMMA TargetIsGoal == Target = Goal(Block, Here.modal, Here.pos)
BY HereParts DEF Target, Goal, Base

LEMMA FacesAreMet ==
    ASSUME NEW a, NEW t
    PROVE  Faces(a, t) = Met(setup, pos, a, t)
BY DEF Faces, Met

LEMMA NearestIsFirst ==
    ASSUME NEW a, NEW faces
    PROVE  Nearest(a, faces) = First(pos, a, faces)
BY DEF Nearest, First

LEMMA TrackStepped ==
    ASSUME ProbeInv, TrackInv, Running, Block.op # "M30", Next1,
           \A y : Takes(setup, Block, Here, y) => y = Here'
    PROVE  TrackInv'
<1>1. answer = "gcode"
  BY DEF ProbeInv, RequestInv, Running
<1>2. pc \in 1..Len(program) /\ pc' = pc + 1 /\ UNCHANGED <<setup, answer, program>>
  BY <1>1 DEF ProbeInv, RunInv, Next1
<1>3. ASSUME Placed(setup)
      PROVE  \E st : Works(setup', program', st) /\ st[pc'] = Here'
  <2>1. PICK st : Works(setup, program, st) /\ st[pc] = Here
    BY <1>1, <1>3 DEF TrackInv
  <2>2. Takes(setup, program[pc], st[pc], st[pc + 1])
    BY <1>2, <2>1 DEF Works
  <2>3. st[pc'] = Here'
    BY <1>2, <2>1, <2>2 DEF Block
  <2>4. Works(setup', program', st)
    BY <1>2, <2>1
  <2> QED
    BY <2>3, <2>4
<1> QED
  BY <1>1, <1>2, <1>3 DEF TrackInv

LEMMA TrackStep ==
    ASSUME ProbeInv, TrackInv, [Next]_vars
    PROVE  TrackInv'
<1>1. CASE ApiGenerate
  <2>1. answer = "none" /\ UNCHANGED <<setup, pc, pos, dist, active, offset, var, fixed>>
        /\ pc = 1 /\ Here = Start(setup)
    BY <1>1 DEF ApiGenerate, ProbeInv, RequestInv, TrackInv
  <2>2. Here' = Here /\ setup' = setup
    BY <2>1 DEF Here
  <2>3. ASSUME answer' = "gcode", Placed(setup)
        PROVE  \E st : Works(setup', program', st) /\ st[pc'] = Here'
    <3>1. /\ program' = Generated(setup) /\ Request(setup) /\ setup.cycle \in Cycles
          /\ setup.offset \in [WorkSystems -> [Axes -> Int]]
      BY <1>1, <2>3, SetupsAssumption DEF ApiGenerate, ProbeInv, RequestInv
    <3>2. PICK y : Passes(setup, Generated(setup), Start(setup), y)
      BY <2>3, <3>1, GeneratedRuns
    <3>3. PICK st : Works(setup, Generated(setup), st) /\ st[1] = Start(setup)
      BY <3>2 DEF Passes
    <3>4. Works(setup', program', st) /\ st[pc'] = Here'
      BY <2>1, <2>2, <3>1, <3>3
    <3> QED
      BY <3>4
  <2> QED
    BY <2>1, <2>2, <2>3 DEF TrackInv
<1> DEFINE m == Here.modal
<1>2. /\ m = Modal(dist, active, offset, fixed) /\ Here.pos = pos /\ Here.var = var
      /\ m.dist = dist /\ m.active = active /\ m.offset = offset /\ m.fixed = fixed
  BY HereParts
<1>3. Here' = Machine(Modal(dist', active', offset', fixed'), pos', var')
  BY DEF Here
<1> HIDE DEF m
<1>4. ASSUME Running, Block.op # "M30", Next1,
             \A y : Takes(setup, Block, Here, y) => y = Here'
      PROVE  TrackInv'
  BY <1>4, TrackStepped
<1>5. CASE RunMove
  <2>1. /\ Running /\ Block.op \in {"G00", "G01"} /\ Next1 /\ pos' = Target
        /\ UNCHANGED <<dist, active, offset, var, fixed>>
    BY <1>5 DEF RunMove
  <2>2. Here' = Machine(m, Goal(Block, m, Here.pos), Here.var)
    BY <1>2, <1>3, <2>1, TargetIsGoal DEF m
  <2>3. \A y : Takes(setup, Block, Here, y) => y = Machine(m, Goal(Block, m, Here.pos), Here.var)
    BY <2>1 DEF Takes, m
  <2> QED
    BY <1>4, <2>1, <2>2, <2>3
<1>6. CASE RunProbe
  <2>1. /\ Running /\ Block.op = "G31" /\ Next1
        /\ UNCHANGED <<dist, active, offset, var, fixed>>
    BY <1>6 DEF RunProbe
  <2>2. PICK a \in DOMAIN Block.to :
           pos' = IF Faces(a, Target[a]) = {} THEN Target
                  ELSE [pos EXCEPT ![a] = Nearest(a, Faces(a, Target[a]))]
    BY <1>6 DEF RunProbe
  <2>3. pos' = Touched(setup, pos, a, Target)
    BY <2>2, FacesAreMet, NearestIsFirst DEF Touched, Put
  <2>4. Here' = Machine(m, Touched(setup, Here.pos, a, Goal(Block, m, Here.pos)), Here.var)
    BY <1>2, <1>3, <2>1, <2>3, TargetIsGoal DEF m
  <2>5. \A y : Takes(setup, Block, Here, y) =>
           y = Machine(m, Touched(setup, Here.pos, a, Goal(Block, m, Here.pos)), Here.var)
    BY <2>1, <2>2 DEF Takes, m
  <2> QED
    BY <1>4, <2>1, <2>4, <2>5
<1>7. CASE RunWord
  <2>1. Running /\ Next1 /\ UNCHANGED <<offset, var, fixed>>
    BY <1>7 DEF RunWord
  <2>2. CASE Block.op \in {"G90", "G91"} /\ dist' = Block.op /\ UNCHANGED <<active, pos>>
    <3>1. Here' = Machine(Modal(Block.op, m.active, m.offset, m.fixed), Here.pos, Here.var)
      BY <1>2, <1>3, <2>1, <2>2
    <3>2. \A y : Takes(setup, Block, Here, y) => y = Here'
      BY <2>2, <3>1 DEF Takes, m
    <3> QED
      BY <1>4, <2>1, <2>2, <3>2
  <2>3. CASE Block.op \in WorkSystems /\ active' = Block.op /\ UNCHANGED <<dist, pos>>
    <3>1. Here' = Machine(Modal(m.dist, Block.op, m.offset, m.fixed), Here.pos, Here.var)
      BY <1>2, <1>3, <2>1, <2>3
    <3>2. \A y : Takes(setup, Block, Here, y) => y = Here'
      BY <2>3, <3>1 DEF Takes, m
    <3>3. Block.op # "M30"
      BY <2>3 DEF WorkSystems
    <3> QED
      BY <1>4, <2>1, <3>2, <3>3
  <2>4. CASE Block.op = "G28" /\ pos' = [pos EXCEPT !["Z"] = Home] /\ UNCHANGED <<dist, active>>
    <3>1. Here' = Machine(m, Put(Here.pos, "Z", Home), Here.var)
      BY <1>2, <1>3, <2>1, <2>4 DEF Put
    <3>2. \A y : Takes(setup, Block, Here, y) => y = Here'
      BY <2>4, <3>1 DEF Takes, m
    <3> QED
      BY <1>4, <2>1, <2>4, <3>2
  <2> QED
    BY <1>7, <2>2, <2>3, <2>4 DEF RunWord
<1>8. CASE RunAssign
  <2>1. Running /\ Next1 /\ UNCHANGED <<pos, dist, active, offset, fixed>>
    BY <1>8 DEF RunAssign
  <2>2. CASE Block.op = "read" /\ var' = [var EXCEPT ![Block.var] = pos[Block.axis]]
    <3>1. Here' = Machine(m, Here.pos, Put(Here.var, Block.var, Here.pos[Block.axis]))
      BY <1>2, <1>3, <2>1, <2>2 DEF Put
    <3>2. \A y : Takes(setup, Block, Here, y) => y = Here'
      BY <2>2, <3>1 DEF Takes, m
    <3> QED
      BY <1>4, <2>1, <2>2, <3>2
  <2>3. CASE /\ Block.op = "mid"
             /\ var' = [var EXCEPT ![Block.var] =
                           (var[Block.of[1]] + var[Block.of[2]]) \div 2]
    <3>1. Here' = Machine(m, Here.pos,
                          Put(Here.var, Block.var,
                              (Here.var[Block.of[1]] + Here.var[Block.of[2]]) \div 2))
      BY <1>2, <1>3, <2>1, <2>3 DEF Put
    <3>2. \A y : Takes(setup, Block, Here, y) => y = Here'
      BY <2>3, <3>1 DEF Takes, m
    <3> QED
      BY <1>4, <2>1, <2>3, <3>2
  <2>4. CASE Block.op = "shift" /\ var' = [var EXCEPT ![Block.var] = @ + Block.by]
    <3>1. Here' = Machine(m, Here.pos, Put(Here.var, Block.var,
                                           Here.var[Block.var] + Block.by))
      BY <1>2, <1>3, <2>1, <2>4 DEF Put
    <3>2. \A y : Takes(setup, Block, Here, y) => y = Here'
      BY <2>4, <3>1 DEF Takes, m
    <3> QED
      BY <1>4, <2>1, <2>4, <3>2
  <2> QED
    BY <1>8, <2>2, <2>3, <2>4 DEF RunAssign
<1>9. CASE RunG10
  <2>1. /\ Running /\ Block.op = "G10" /\ Next1 /\ UNCHANGED <<pos, dist, active, var>>
        /\ offset' = [offset EXCEPT ![Block.wcs][Block.axis] = var[Block.var]]
        /\ fixed' = fixed \cup {<<Block.wcs, Block.axis>>}
    BY <1>9 DEF RunG10
  <2>2. Here' = Machine(Modal(m.dist, m.active,
                              [m.offset EXCEPT ![Block.wcs][Block.axis] = Here.var[Block.var]],
                              m.fixed \cup {<<Block.wcs, Block.axis>>}), Here.pos, Here.var)
    BY <1>2, <1>3, <2>1
  <2>3. \A y : Takes(setup, Block, Here, y) => y = Here'
    BY <2>1, <2>2 DEF Takes, m
  <2> QED
    BY <1>4, <2>1, <2>3
<1>10. CASE RunMacro
  <2>1. /\ Running /\ Block.op = "G65" /\ Next1 /\ UNCHANGED <<pos, dist, active, var>>
    BY <1>10 DEF RunMacro
  <2>2. CASE Block.set
    <3>1. /\ offset' = [offset EXCEPT ![Block.wcs] =
                          [a \in Axes |-> IF a \in Block.axes THEN setup.feature[a]
                                          ELSE @[a]]]
          /\ fixed' = fixed \cup ({Block.wcs} \X Block.axes)
      BY <1>10, <2>2 DEF RunMacro
    <3>2. Here' = Machine(Modal(m.dist, m.active,
                                [m.offset EXCEPT ![Block.wcs] =
                                   [a \in Axes |-> IF a \in Block.axes THEN setup.feature[a]
                                                   ELSE @[a]]],
                                m.fixed \cup ({Block.wcs} \X Block.axes)), Here.pos, Here.var)
      BY <1>2, <1>3, <2>1, <3>1
    <3>3. \A y : Takes(setup, Block, Here, y) => y = Here'
      BY <2>1, <2>2, <3>2 DEF Takes, m
    <3> QED
      BY <1>4, <2>1, <3>3
  <2>3. CASE ~Block.set
    <3>1. UNCHANGED <<offset, fixed>>
      BY <1>10, <2>3 DEF RunMacro
    <3>2. Here' = Here
      BY <2>1, <3>1 DEF Here
    <3>3. \A y : Takes(setup, Block, Here, y) => y = Here'
      BY <2>1, <2>3, <3>2 DEF Takes
    <3> QED
      BY <1>4, <2>1, <3>3
  <2> QED
    BY <2>2, <2>3
<1>11. CASE UNCHANGED vars
  <2>1. Here' = Here /\ UNCHANGED <<setup, answer, program, pc>>
    BY <1>11 DEF vars, Here
  <2> QED
    BY <2>1 DEF TrackInv
<1> QED
  BY <1>1, <1>5, <1>6, <1>7, <1>8, <1>9, <1>10, <1>11 DEF Next

LEMMA Tracking == Spec => []TrackInv
<1>1. Init => TrackInv
  BY DEF Init, TrackInv, Here, Start
<1>2. ProbeInv /\ TrackInv /\ [Next]_vars => TrackInv'
  BY TrackStep
<1> QED
  BY <1>1, <1>2, Probing, PTL DEF Spec

\* The block that is executed next is fine, and so is the machine.
LEMMA BlockIsFine ==
    ASSUME ProbeInv, TrackInv, Placed(setup), answer = "gcode"
    PROVE  Fine(setup, Block, Here)
<1>1. pc \in 1..Len(program)
  BY DEF ProbeInv, RunInv
<1>2. PICK st : Works(setup, program, st) /\ st[pc] = Here
  BY DEF TrackInv
<1> QED
  BY <1>1, <1>2 DEF Works, Block

\* Of a workpiece that is placed within a cycle's margins, wherever within them
\* it is, no positioning or retracting move of the cycle's program passes
\* through any part (the moves of the six _gen_* functions of probe.py).
THEOREM RapidsStayClear == Spec => [](Placed(setup) => RapidsClear)
<1>1. ASSUME ProbeInv, TrackInv, Placed(setup) PROVE RapidsClear
  <2> SUFFICES ASSUME Running, Block.op \in {"G00", "G01"}
               PROVE  \A b \in setup.solid : ~Crosses(b, pos, Target)
    BY DEF RapidsClear
  <2>1. answer = "gcode"
    BY <1>1 DEF ProbeInv, RequestInv, Running
  <2>2. Fine(setup, Block, Here)
    BY <1>1, <2>1, BlockIsFine
  <2>3. \A b \in setup.solid : ~Crosses(b, Here.pos, Goal(Block, Here.modal, Here.pos))
    BY <2>2 DEF Fine
  <2> QED
    BY <2>3, HereParts, TargetIsGoal
<1> QED
  BY <1>1, Probing, Tracking, PTL

\* Every skip move of such a program meets the workpiece before its end, so
\* that what is read from #5061..#5063 after it is the place of a surface.
THEOREM ProbesTouch == Spec => [](Placed(setup) => EveryProbeTouches)
<1>1. ASSUME ProbeInv, TrackInv, Placed(setup) PROVE EveryProbeTouches
  <2> SUFFICES ASSUME Running, Block.op = "G31", NEW a \in DOMAIN Block.to
               PROVE  Faces(a, Target[a]) # {}
    BY DEF EveryProbeTouches
  <2>1. answer = "gcode"
    BY <1>1 DEF ProbeInv, RequestInv, Running
  <2>2. Fine(setup, Block, Here)
    BY <1>1, <2>1, BlockIsFine
  <2>3. Met(setup, Here.pos, a, Goal(Block, Here.modal, Here.pos)[a]) # {}
    BY <2>2 DEF Fine
  <2> QED
    BY <2>3, HereParts, TargetIsGoal, FacesAreMet
<1> QED
  BY <1>1, Probing, Tracking, PTL

\* At every block of such a program an offset that it has set is the place of
\* the measured feature, however the nominal sizes of the request differ from
\* the real ones, and the other offsets are the operator's.
THEOREM OffsetsFound == Spec => [](Placed(setup) => OffsetsSound)
<1>1. ASSUME ProbeInv, TrackInv, OnlyItsOffsets, Placed(setup) PROVE OffsetsSound
  <2>1. CASE answer # "gcode"
    BY <1>1, <2>1 DEF ProbeInv, RequestInv, OffsetsSound
  <2>2. CASE answer = "gcode"
    <3>1. Right(setup, Here.modal)
      BY <1>1, <2>2, BlockIsFine DEF Fine
    <3>2. \A p \in fixed : offset[p[1]][p[2]] = setup.feature[p[2]]
      BY <3>1, HereParts DEF Right
    <3> QED
      BY <1>1, <3>2 DEF OffsetsSound
  <2> QED
    BY <2>1, <2>2
<1> QED
  BY <1>1, Probing, Tracking, OffsetsAsked, PTL
===============================================================================
