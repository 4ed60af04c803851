------------------------------ MODULE ProbeGcode ------------------------------
(* The probing programs that web/routes/probe.py generates, and the machine  *)
(* tool that executes them block by block against a workpiece.               *)
(*                                                                           *)
(* A program is a sequence of blocks, each a record named by its G-code word *)
(* (a line with two words, such as "G90 G00 Z5", is two blocks). Comments,   *)
(* feeds, spindle, tool change and the layout of numbers are left out: every *)
(* coordinate is a whole number of millimetres, for which the generators'    *)
(* ":.1f" is exact. The machine (external) is what the programs assume it to *)
(* be: #5061..#5063 hold where a skip move ended, in machine coordinates     *)
(* (probe.py:568), G10 L2 replaces a work offset, and a Renishaw macro       *)
(* measures, sets the offset S names, and returns to where it started.       *)
EXTENDS Integers, Sequences

CONSTANTS
    Setups,   \* requests to the generator, each with the machine it meets
    Home      \* the machine coordinate of Z at its reference point (G28)

Axes == {"X", "Y", "Z"}
WorkSystems == {"G54", "G55", "G56", "G57", "G58", "G59"}

VARIABLES
    setup,    \* the request and the machine: see Setup in the comments below
    answer,   \* what api_generate_gcode has answered: "none", "gcode", "error"
    program,  \* the generated blocks
    pc,       \* the block the machine executes next
    pos,      \* the stylus, in machine coordinates
    dist,     \* distance mode: "G90" absolute, "G91" incremental
    active,   \* the selected work coordinate system
    offset,   \* the work offsets, per system and axis
    var,      \* the macro variables #100..#111
    fixed     \* ghost: the <<system, axis>> pairs this program has set

(* A setup has the request: cycle, mode, wcs, clearance, set_wcs and the     *)
(* cycle's parameters under their names in the request; and the machine:     *)
(* start, active, offset, the solid boxes of the workpiece (per axis a pair  *)
(* <<low, high>>) and the feature to be found, per axis it concerns.         *)
Parameters(s) ==
    CASE s.cycle = "single_surface" -> {s.approach_pos, s.expected_pos}
      [] s.cycle = "bore" -> {s.clearance, s.diameter, s.depth}
      [] s.cycle = "boss" -> {s.clearance, s.diameter, s.probe_z}
      [] s.cycle = "corner" -> {s.clearance, s.distance, s.probe_z}
      [] s.cycle = "pocket_width" -> {s.clearance, s.width, s.depth}
      [] s.cycle = "outside_box" -> {s.clearance, s.x_width, s.y_width, s.probe_z,
                                     s.safety, s.retract, s.z_offset}

\* What the form sends (probe.html): its selects offer the systems and the axes.
Request(s) ==
    /\ s.set_wcs \in BOOLEAN /\ Parameters(s) \subseteq Int
    /\ s.cycle \in {"single_surface", "pocket_width"} => s.axis \in Axes
    /\ s.cycle = "outside_box" => s.probe_top \in BOOLEAN /\ s.wcs \in WorkSystems

Cycles == {"single_surface", "bore", "boss", "corner", "pocket_width", "outside_box"}

ASSUME SetupsAssumption ==
    \A s \in Setups : /\ s.cycle \in Cycles => Request(s)
                     /\ s.offset \in [WorkSystems -> [Axes -> Int]]

vars == <<setup, answer, program, pc, pos, dist, active, offset, var, fixed>>

-------------------------------------------------------------------------------
(* Blocks *)

Move(g, to) == <<[op |-> g, to |-> to]>>
To(a, v) == [x \in {a} |-> v]
Rapid(a, v) == Move("G00", To(a, v))
Feed(a, v)  == Move("G01", To(a, v))
Probe(a, v) == Move("G31", To(a, v))
Word(w)     == <<[op |-> w]>>
Read(n, a)  == <<[op |-> "read", var |-> n, axis |-> a]>>
\* Mutant: a centre is taken from one contact.
MidOfOne(n, l, r) == <<[op |-> "mid", var |-> n, of |-> <<l, l>>]>>

Mid(n, l, r) == <<[op |-> "mid", var |-> n, of |-> <<l, r>>]>>

Shift(n, d) == <<[op |-> "shift", var |-> n, by |-> d]>>

When(condition, blocks) == IF condition THEN blocks ELSE <<>>

\* P1..P6 of G10 L2 and S1..S6 of the macros; an unknown name is G54.
System(s) == IF s.wcs \in WorkSystems THEN s.wcs ELSE "G54"

SetWcs(s, a, n) ==
    When(s.set_wcs, <<[op |-> "G10", wcs |-> System(s), axis |-> a, var |-> n]>>)

\* G65 P9811 / P9812 / P9814: S0 measures without setting an offset.
Macro(s, axes) ==
    <<[op |-> "G65", axes |-> axes, wcs |-> System(s), set |-> s.set_wcs]>>

Header(incremental) == Word(IF incremental THEN "G91" ELSE "G90")

Footer == Word("G91") \o Word("G28") \o Word("M30")

-------------------------------------------------------------------------------
(* The generators *)

Descend(s, z) == Rapid("Z", s.clearance) \o Rapid("Z", z)

\* From one side of a pocket to the opposite wall, and back to a safe place.
Touch(a, from, target, n, back) ==
    Rapid(a, from) \o Probe(a, target) \o Read(n, a) \o Rapid(a, back)

SingleSurface(s) ==
    LET sign == IF s.direction = "-" THEN -1 ELSE 1
        approach == Rapid(s.axis, s.approach_pos)
    IN  Header(FALSE) \o approach \o
        (IF s.mode = "renishaw" THEN Macro(s, {s.axis})
         ELSE Probe(s.axis, s.expected_pos - sign * 50) \o Read(100, s.axis)
              \o approach \o SetWcs(s, s.axis, 100)) \o Footer

\* half_d - 5, or half of it in a small bore.
Safe(half) == IF half > 5 THEN half - 5 ELSE half \div 2

Bore(s) ==
    LET half == s.diameter \div 2
        safe == Safe(half)
    IN  Header(FALSE) \o Descend(s, s.depth) \o
        (IF s.mode = "renishaw" THEN Macro(s, {"X", "Y"})
         ELSE Touch("X", -safe, half + 10, 101, -safe)
              \o Touch("X", safe, -(half + 10), 102, safe)
              \o Move("G00", [X |-> 0, Y |-> -safe])
              \o Probe("Y", half + 10) \o Read(103, "Y") \o Rapid("Y", -safe)
              \o Touch("Y", safe, -(half + 10), 104, 0)
              \o Mid(110, 101, 102) \o Mid(111, 103, 104)
              \o SetWcs(s, "X", 110) \o SetWcs(s, "Y", 111))
        \o Rapid("Z", s.clearance) \o Footer

\* Mutant: the stylus is not raised after a side of the boss.
BossSideStaysDown(s, to, a, n) ==
    Move("G00", to) \o Rapid("Z", s.probe_z) \o Probe(a, 0) \o Read(n, a)

\* Mutant: the stylus is not lowered beside the boss.
BossSideStaysUp(s, to, a, n) == Move("G00", to) \o Probe(a, 0) \o Read(n, a)

\* Down beside the boss, towards its centre, and up again.
BossSide(s, to, a, n) ==
    Move("G00", to) \o Rapid("Z", s.probe_z) \o Probe(a, 0) \o Read(n, a)
    \o Rapid("Z", s.clearance)

Boss(s) ==
    LET over == s.diameter \div 2 + 20
    IN  Header(FALSE) \o Rapid("Z", s.clearance) \o
        (IF s.mode = "renishaw" THEN Macro(s, {"X", "Y"})
         ELSE BossSide(s, [X |-> -over, Y |-> 0], "X", 101)
              \o BossSide(s, [X |-> over], "X", 102)
              \o BossSide(s, [X |-> 0, Y |-> -over], "Y", 103)
              \o BossSide(s, [Y |-> over], "Y", 104)
              \o Mid(110, 101, 102) \o Mid(111, 103, 104)
              \o SetWcs(s, "X", 110) \o SetWcs(s, "Y", 111)) \o Footer

\* What the tests of x_dir and y_dir make of the five names of a corner.
XDir(corner) == IF corner \in {"XY++", "XY-+"} THEN 1 ELSE -1
YDir(corner) == IF corner \in {"XY++", "XY+-", "XY+"} THEN 1 ELSE -1

Corner(s) ==
    LET x == XDir(s.corner) * s.distance
        y == YDir(s.corner) * s.distance
    IN  Header(FALSE) \o Descend(s, s.probe_z) \o
        (IF s.mode = "renishaw" THEN Macro(s, {"X"}) \o Macro(s, {"Y"})
         ELSE Touch("X", -x, x, 101, -x) \o Touch("Y", -y, y, 102, -y)
              \o SetWcs(s, "X", 101) \o SetWcs(s, "Y", 102))
        \o Rapid("Z", s.clearance) \o Footer

PocketWidth(s) ==
    LET half == s.width \div 2
        safe == Safe(half)
    IN  Header(FALSE) \o Descend(s, s.depth) \o
        (IF s.mode = "renishaw" THEN Macro(s, {s.axis})
         ELSE Touch(s.axis, -safe, half + 10, 101, -safe)
              \o Touch(s.axis, safe, -(half + 10), 102, 0)
              \o Mid(110, 101, 102) \o SetWcs(s, s.axis, 110))
        \o Rapid("Z", s.clearance) \o Footer

AbsZ(z) == Word("G90") \o Rapid("Z", z)

\* Incremental fast touch, retract and slow touch, moving in direction d.
DoubleTouch(s, a, d, reach, n) ==
    Probe(a, d * reach) \o When(a # "Z", Read(n, a)) \o Feed(a, -d * s.retract)
    \o Probe(a, d * (s.retract + 1)) \o Read(n, a)

ProbeTop(s) ==
    DoubleTouch(s, "Z", -1, 30, 100) \o
    (IF s.set_wcs
     THEN When(s.z_offset # 0, Shift(100, s.z_offset)) \o SetWcs(s, "Z", 100)
          \o Word("G90") \o Word(s.wcs) \o Rapid("Z", s.clearance)
     ELSE Feed("Z", s.retract))

\* Both sides of the stock on one axis, from above and outside of the + side
\* at probing depth, to the centre of the two contacts.
Sides(s, a, width, m) ==
    LET reach == width \div 2 + 2 * s.safety
    IN  Word("G91") \o DoubleTouch(s, a, -1, reach, m + 1)
        \o AbsZ(s.clearance)
        \o Word("G91") \o Rapid(a, -(width + 2 * s.safety)) \o AbsZ(s.probe_z)
        \o Word("G91") \o DoubleTouch(s, a, 1, reach, m + 2)
        \o Mid(110 + (m - 100) \div 2, m + 1, m + 2) \o AbsZ(s.clearance)
        \o SetWcs(s, a, 110 + (m - 100) \div 2)

\* Mutant: the move to the X+ side is written as if X were set.
XSidesAbsolute(s) ==
    Word("G90") \o Rapid("X", s.x_width \div 2 + s.safety) \o AbsZ(s.probe_z)
    \o Sides(s, "X", s.x_width, 100)

XSides(s) ==
    LET over == s.x_width \div 2 + s.safety
        depth == IF s.probe_z < 0 THEN -s.probe_z ELSE s.probe_z
    IN  Word("G91") \o Rapid("X", over)
        \o (IF s.probe_top /\ s.set_wcs THEN AbsZ(s.probe_z)
            ELSE Rapid("Z", depth + s.clearance))
        \o Sides(s, "X", s.x_width, 100)

YSides(s) ==
    When(s.set_wcs, Word("G90") \o Rapid("X", 0))
    \o Word("G91") \o Rapid("Y", s.y_width \div 2 + s.safety) \o AbsZ(s.probe_z)
    \o Sides(s, "Y", s.y_width, 102)

RenishawBox(s) ==
    When(s.probe_top, Macro(s, {"Z"}) \o Word("G91") \o Rapid("Z", s.clearance))
    \o AbsZ(s.probe_z) \o Macro(s, {"X"}) \o Rapid("Z", s.clearance)
    \o Rapid("Z", s.probe_z) \o Macro(s, {"Y"}) \o Rapid("Z", s.clearance)

OutsideBox(s) ==
    Header(TRUE) \o Word("G91") \o
    (IF s.mode = "renishaw" THEN RenishawBox(s)
     ELSE When(s.probe_top, ProbeTop(s)) \o XSides(s) \o YSides(s)
          \o When(s.set_wcs, Word("G90") \o Move("G00", [X |-> 0, Y |-> 0])))
    \o AbsZ(s.clearance) \o Footer

Generated(s) ==
    CASE s.cycle = "single_surface" -> SingleSurface(s)
      [] s.cycle = "bore" -> Bore(s)
      [] s.cycle = "boss" -> Boss(s)
      [] s.cycle = "corner" -> Corner(s)
      [] s.cycle = "pocket_width" -> PocketWidth(s)
      [] s.cycle = "outside_box" -> OutsideBox(s)

-------------------------------------------------------------------------------
(* The request, and the machine that executes what it answered *)

Init ==
    /\ setup \in Setups
    /\ answer = "none"
    /\ program = <<>>
    /\ pc = 1
    /\ pos = setup.start
    /\ dist = "G90"
    /\ active = setup.active
    /\ offset = setup.offset
    /\ var = [n \in 100..111 |-> 0]
    /\ fixed = {}

\* api_generate_gcode: an empty or unknown cycle is answered with an error.
ApiGenerate ==
    /\ answer = "none"
    /\ IF setup.cycle \in Cycles
       THEN answer' = "gcode" /\ program' = Generated(setup)
       ELSE answer' = "error" /\ UNCHANGED program
    /\ UNCHANGED <<setup, pc, pos, dist, active, offset, var, fixed>>

Running == pc \in DOMAIN program
Block == program[pc]
Next1 == pc' = pc + 1 /\ UNCHANGED <<setup, answer, program>>

Within(r, x) == r[1] < x /\ x < r[2]
Target ==
    [a \in Axes |->
       IF a \notin DOMAIN Block.to THEN pos[a]
       ELSE Block.to[a] + (IF dist = "G90" THEN offset[active][a] ELSE pos[a])]

\* The faces at which a move of one axis to t would enter the workpiece.
Faces(a, t) ==
    LET beside == {b \in setup.solid : \A o \in Axes \ {a} : Within(b[o], pos[o])}
    IN  IF t > pos[a]
        THEN {f \in {b[a][1] : b \in beside} : pos[a] <= f /\ f < t}
        ELSE {f \in {b[a][2] : b \in beside} : t < f /\ f <= pos[a]}

Nearest(a, faces) ==
    CHOOSE f \in faces : \A g \in faces :
        (pos[a] <= f /\ f <= g) \/ (g <= f /\ f <= pos[a])

\* G00, G01: the whole way, whatever is in it.
RunMove ==
    /\ Running /\ Block.op \in {"G00", "G01"}
    /\ pos' = Target
    /\ Next1 /\ UNCHANGED <<dist, active, offset, var, fixed>>

\* G31: to the first contact, or to the end of the move without one.
RunProbe ==
    /\ Running /\ Block.op = "G31"
    /\ \E a \in DOMAIN Block.to :
         LET faces == Faces(a, Target[a])
         IN  pos' = IF faces = {} THEN Target ELSE [pos EXCEPT ![a] = Nearest(a, faces)]
    /\ Next1 /\ UNCHANGED <<dist, active, offset, var, fixed>>

RunWord ==
    /\ Running
    /\ \/ Block.op \in {"G90", "G91"} /\ dist' = Block.op /\ UNCHANGED <<active, pos>>
       \/ Block.op \in WorkSystems /\ active' = Block.op /\ UNCHANGED <<dist, pos>>
       \/ Block.op = "G28" /\ pos' = [pos EXCEPT !["Z"] = Home] /\ UNCHANGED <<dist, active>>
    /\ Next1 /\ UNCHANGED <<offset, var, fixed>>

RunAssign ==
    /\ Running
    /\ \/ /\ Block.op = "read"
          /\ var' = [var EXCEPT ![Block.var] = pos[Block.axis]]
       \/ /\ Block.op = "mid"
          /\ var' = [var EXCEPT ![Block.var] = (var[Block.of[1]] + var[Block.of[2]]) \div 2]
       \/ /\ Block.op = "shift"
          /\ var' = [var EXCEPT ![Block.var] = @ + Block.by]
    /\ Next1 /\ UNCHANGED <<pos, dist, active, offset, fixed>>

RunG10 ==
    /\ Running /\ Block.op = "G10"
    /\ offset' = [offset EXCEPT ![Block.wcs][Block.axis] = var[Block.var]]
    /\ fixed' = fixed \union {<<Block.wcs, Block.axis>>}
    /\ Next1 /\ UNCHANGED <<pos, dist, active, var>>

RunMacro ==
    /\ Running /\ Block.op = "G65"
    /\ IF Block.set
       THEN /\ offset' = [offset EXCEPT ![Block.wcs] =
                            [a \in Axes |-> IF a \in Block.axes THEN setup.feature[a] ELSE @[a]]]
            /\ fixed' = fixed \union ({Block.wcs} \X Block.axes)
       ELSE UNCHANGED <<offset, fixed>>
    /\ Next1 /\ UNCHANGED <<pos, dist, active, var>>

Ended == answer = "error" \/ (Running /\ Block.op = "M30")

Next ==
    \/ ApiGenerate
    \/ RunMove \/ RunProbe \/ RunWord \/ RunAssign \/ RunG10 \/ RunMacro
    \/ Ended /\ UNCHANGED vars

Spec == Init /\ [][Next]_vars

-------------------------------------------------------------------------------
(* Properties *)

\* Some point between p and q, taken in any order of the axes, is inside b.
Crosses(b, p, q) ==
    \A a \in Axes : /\ p[a] < b[a][2] \/ q[a] < b[a][2]
                    /\ p[a] > b[a][1] \/ q[a] > b[a][1]

\* Nothing but a skip move goes towards the workpiece: no positioning or
\* retracting move of a generated program passes through it, wherever within
\* the cycle's margins the feature really is (the moves of every _gen_*).
RapidsClear ==
    Running /\ Block.op \in {"G00", "G01"}
    => \A b \in setup.solid : ~Crosses(b, pos, Target)

\* Every skip move meets the workpiece before its end, so that what is read
\* from #5061..#5063 after it is a surface and not where the machine stopped.
EveryProbeTouches ==
    Running /\ Block.op = "G31"
    => \A a \in DOMAIN Block.to : Faces(a, Target[a]) # {}

\* The axes a cycle measures, and the offsets it is to set.
Measured(s) ==
    CASE s.cycle \in {"bore", "boss", "corner"} -> {"X", "Y"}
      [] s.cycle \in {"single_surface", "pocket_width"} -> {s.axis}
      [] s.cycle = "outside_box" -> {"X", "Y"} \union {a \in {"Z"} : s.probe_top}
ToBeSet(s) == IF s.set_wcs THEN {System(s)} \X Measured(s) ELSE {}

\* At every block, and so wherever a feed of the program is cancelled, only
\* offsets the request asks for have changed, and the whole program sets them
\* all: those of the measured axes in its system, or none without set_wcs.
OnlyItsOffsets ==
    /\ \A w \in WorkSystems, a \in Axes :
          offset[w][a] = setup.offset[w][a] \/ <<w, a>> \in fixed
    /\ answer = "gcode" => fixed \subseteq ToBeSet(setup)
    /\ answer = "gcode" /\ Ended => fixed = ToBeSet(setup)

\* A work offset is the one the operator had or exactly the feature's place.
OffsetsSound ==
    /\ OnlyItsOffsets
    /\ \A p \in fixed : offset[p[1]][p[2]] = setup.feature[p[2]]

\* "All moves are INCREMENTAL (G91) until each axis WCS is set" (probe.py:498,
\* and the form's own text, probe.html:309).
AbsoluteOnlyWhenSet ==
    Running /\ setup.cycle = "outside_box" /\ Block.op \in {"G00", "G01", "G31"}
    /\ dist = "G90"
    => \A a \in DOMAIN Block.to : <<active, a>> \in fixed
===============================================================================
