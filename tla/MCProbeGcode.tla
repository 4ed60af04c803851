---------------------------- MODULE MCProbeGcode ----------------------------
(* ProbeGcode with small requests on workpieces whose place differs from the *)
(* nominal one by what the cycle allows for. All lengths in millimetres.     *)
EXTENDS ProbeWorkpiece, TLC

Far == 300
AtHome == 100
Wide == <<-Far, Far>>
Box(x, y, z) == [X |-> x, Y |-> y, Z |-> z]
Point(x, y, z) == [X |-> x, Y |-> y, Z |-> z]

\* Where the zero of G54 is, and the other systems far away.
Zeros == {Point(0, 0, 0), Point(40, -30, 10)}
Offsets(zero) == [w \in WorkSystems |-> IF w = "G54" THEN zero ELSE Point(-90, 80, -70)]

\* A request and its machine; the other parameters are joined with @@.
Common(cycle, mode, wcs, setwcs, zero, start, solid, feature) ==
    [cycle |-> cycle, mode |-> mode, wcs |-> wcs, clearance |-> 5,
     set_wcs |-> setwcs, active |-> "G54", offset |-> Offsets(zero),
     start |-> start, solid |-> solid, feature |-> feature]

Modes == {"manual", "renishaw"}
Over(zero) == Point(zero.X, zero.Y, zero.Z + 20)

\* Walls at xs and ys around a hole that is open at z and has a floor.
Hole(xs, ys, z) ==
    { Box(<<-Far, xs[1]>>, Wide, <<-Far, z>>), Box(<<xs[2], Far>>, Wide, <<-Far, z>>),
      Box(Wide, <<-Far, ys[1]>>, <<-Far, z>>), Box(Wide, <<ys[2], Far>>, <<-Far, z>>),
      Box(Wide, Wide, <<-Far, z - 30>>) }

Bores ==
    { [diameter |-> 2 * h, depth |-> -10] @@
      Common("bore", m, w, f, o, Over(o),
             Hole(<<o.X + x - h, o.X + x + h>>, <<o.Y + y - h, o.Y + y + h>>, o.Z),
             "X" :> o.X + x @@ "Y" :> o.Y + y) :
      h \in {4, 6, 20}, m \in Modes, w \in {"G54", "G55"}, f \in BOOLEAN,
      o \in Zeros, x \in {-1, 0, 1}, y \in {-1, 1} }

Bosses ==
    { [diameter |-> 20, probe_z |-> -5] @@
      Common("boss", m, "G54", f, o, Over(o),
             { Box(<<o.X + x - 10, o.X + x + 10>>, <<o.Y + y - 10, o.Y + y + 10>>, <<-Far, o.Z>>) },
             "X" :> o.X + x @@ "Y" :> o.Y + y) :
      m \in Modes, f \in BOOLEAN, o \in Zeros, x \in {-9, 0, 9}, y \in {-9, 4} }

\* A hole that is long across the axis of the pocket.
Long == <<-200, 200>>
Pockets ==
    { [width |-> 2 * h, depth |-> -10, axis |-> a] @@
      Common("pocket_width", m, w, f, o, Over(o),
             IF a = "X" THEN Hole(<<o.X + e - h, o.X + e + h>>, Long, o.Z)
                        ELSE Hole(Long, <<o.Y + e - h, o.Y + e + h>>, o.Z),
             a :> o[a] + e) :
      h \in {4, 16}, a \in {"X", "Y"}, m \in Modes, w \in {"G54", "G56"},
      f \in BOOLEAN, o \in Zeros, e \in {-1, 0, 1} }

\* The walls of an inside corner, to the sides the program probes.
Corners(names) ==
    { LET i == XDir(c)  j == YDir(c)
          x == o.X + i * e  y == o.Y + j * e
      IN [corner |-> c, probe_z |-> -5, distance |-> 20] @@
         Common("corner", m, "G54", f, o, Over(o),
                { Box(IF i = 1 THEN <<x, Far>> ELSE <<-Far, x>>, Wide, <<-Far, o.Z>>),
                  Box(Wide, IF j = 1 THEN <<y, Far>> ELSE <<-Far, y>>, <<-Far, o.Z>>) },
                "X" :> x @@ "Y" :> y) :
      c \in names, m \in Modes, f \in BOOLEAN, o \in Zeros, e \in {1, 15} }

\* A surface between the approach position and the end of the probing move.
Surfaces(directions) ==
    { LET i == IF d = "-" THEN 1 ELSE -1
          face == o[a] + e
          solid == [b \in Axes |-> IF b # a THEN Wide
                                   ELSE IF i = 1 THEN <<face, Far>> ELSE <<-Far, face>>]
      IN [axis |-> a, direction |-> d, approach_pos |-> -i * 10, expected_pos |-> 0] @@
         Common("single_surface", m, "G54", f, o, [o EXCEPT ![a] = @ - i * 20],
                {solid}, a :> face) :
      d \in directions, a \in Axes, m \in Modes, f \in BOOLEAN, o \in Zeros,
      e \in {-8, 0, 8} }

\* A stock of about 30 x 20, the stylus within 3 of its centre, 10 above it.
Stock(modes, tops, sets, oversizes) ==
    { [x_width |-> 30, y_width |-> 20, probe_z |-> -8, safety |-> 10, retract |-> 1,
       z_offset |-> z, probe_top |-> t] @@
      Common("outside_box", m, w, f, o, Point(57 + x, 21 - x, 50),
             { Box(<<42 - d, 72 + d>>, <<11 - d, 31 + d>>, <<-Far, 40>>) },
             "X" :> 57 @@ "Y" :> 21 @@ "Z" :> 40 + z) :
      z \in {-4, 0, 6}, m \in modes, t \in tops, w \in {"G54", "G55"}, f \in sets,
      o \in Zeros, x \in {-3, 0, 3}, d \in oversizes }

Unknown == { Common(c, "manual", "G54", TRUE, Point(0, 0, 0), Point(0, 0, 50), {}, "X" :> 0) :
             c \in {"", "web"} }

\* The requests whose programs do what they say.
AllCycles ==
    Bores \union Bosses \union Pockets \union Corners({"XY++", "XY+-", "XY-+", "XY--", "XY+"})
    \union Surfaces({"+", "-"}) \union Stock({"manual"}, {TRUE}, {TRUE}, {-4, 0, 4})
    \union Unknown

\* The free space of each of these workpieces, for the cycle that probes it.
Sky == 250
Around(x, h) == <<x - h, x + h>>
Inner == <<-199, 199>>
From(i, face) == IF i = 1 THEN <<-Sky, face>> ELSE <<face, Sky>>
RegionsOf(s) ==
    LET z == Zero(s)  f == s.feature
        over == Box(Around(z.X, 40), Around(z.Y, 40), <<z.Z, Sky>>)
        low(a, h) == [b \in Axes |-> IF b = "Z" THEN <<-Sky, Sky>>
                        ELSE IF b = a THEN <<-Sky, f[a] - h>> ELSE <<z[b], z[b]>>]
        high(a, h) == [b \in Axes |-> IF b = "Z" THEN <<-Sky, Sky>>
                        ELSE IF b = a THEN <<f[a] + h, Sky>> ELSE <<z[b], z[b]>>]
    IN  CASE s.cycle = "bore" ->
               Box(Around(f.X, s.diameter \div 2), Around(f.Y, s.diameter \div 2),
                   <<z.Z - 30, Sky>>)
          [] s.cycle = "boss" ->
               [above |-> over, low |-> [a \in {"X", "Y"} |-> low(a, 10)],
                high |-> [a \in {"X", "Y"} |-> high(a, 10)]]
          [] s.cycle = "corner" ->
               Box(From(XDir(s.corner), f.X), From(YDir(s.corner), f.Y), <<-Sky, Sky>>)
          [] s.cycle = "pocket_width" ->
               [b \in Axes |-> IF b = "Z" THEN <<z.Z - 30, Sky>>
                               ELSE IF b = s.axis THEN Around(f[b], s.width \div 2)
                               ELSE Inner]
          [] s.cycle = "single_surface" ->
               [b \in Axes |-> IF b # s.axis THEN Inner
                               ELSE From(IF s.direction = "-" THEN 1 ELSE -1, f[b])]
          [] s.cycle = "outside_box" ->
               LET box == CHOOSE b \in s.solid : TRUE
                   column(x, y, u) == Box(<<x, x>>, <<y, y>>, u)
                   all == <<-Sky, Sky>>
                   side(a, u) == IF a = "X" THEN Box(u, Around(s.start.Y, 0), all)
                                 ELSE Box(Around(f.X, 0), u, all)
               IN [column |-> column(s.start.X, s.start.Y, <<box.Z[2], Sky>>),
                   above |-> Box(all, all, <<box.Z[2], Sky>>),
                   low |-> [a \in {"X", "Y"} |-> side(a, <<-Sky, box[a][1]>>)],
                   high |-> [a \in {"X", "Y"} |-> side(a, <<box[a][2], Sky>>)]]

\* The hypothesis of the proofs holds of every one of these machines.
ASSUME EveryWorkpieceFits ==
    \A s \in AllCycles : s.cycle \in Cycles => Fits(s, RegionsOf(s))
=============================================================================
