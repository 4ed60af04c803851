---------------------------- MODULE ProbeWorkpiece ----------------------------
(* Where a workpiece may be for a probing cycle to find it: the space that   *)
(* is free, the faces that bound it and the feature that lies between them,  *)
(* relative to the work zero the request starts from. Each cycle's comment   *)
(* in web/routes/probe.py gives its margins; the machine of a request whose  *)
(* workpiece is within them is Placed.                                       *)
EXTENDS ProbeGcode

\* A region is a box of space: per axis the lowest and the highest coordinate.
Regions == [Axes -> Int \X Int]

Spots(r) ==
    {p \in [Axes -> Int] : \A a \in Axes : r[a][1] <= p[a] /\ p[a] <= r[a][2]}

\* No box of the workpiece reaches into the region.
Free(s, r) ==
    /\ r \in Regions
    /\ \A b \in s.solid : \E a \in Axes : b[a][2] <= r[a][1] \/ r[a][2] <= b[a][1]

\* At its low (1) or high (2) end on one axis the region touches the workpiece,
\* which there covers all of the region sideways, and the height z.
Walled(s, r, a, end, z) ==
    \E b \in s.solid :
       /\ b[a][3 - end] = r[a][end]
       /\ a # "Z" => Within(b["Z"], z)
       /\ \A o \in {"X", "Y"} \ {a} : b[o][1] < r[o][1] /\ r[o][2] < b[o][2]

\* A coordinate beyond that end of the region.
Beyond(r, a, end, t) == IF end = 1 THEN t < r[a][1] ELSE r[a][2] < t

Covers(r, a, x) == r[a][1] <= x /\ x <= r[a][2]

Put(p, a, x) == [p EXCEPT ![a] = x]

\* The selected work zero, and a height above it.
Zero(s) == s.offset[s.active]
Height(s, z) == Zero(s)["Z"] + z

-------------------------------------------------------------------------------
(* The workpiece of each cycle *)

\* A surface between the approach position and the end of the skip move.
SurfaceFits(s, r) ==
    LET sign == IF s.direction = "-" THEN -1 ELSE 1
    IN  /\ Free(s, r) /\ s.start \in Spots(r)
        /\ Covers(r, s.axis, Zero(s)[s.axis] + s.approach_pos)
        /\ \E end \in {1, 2} :
             /\ Walled(s, r, s.axis, end, s.start["Z"])
             /\ Beyond(r, s.axis, end, Zero(s)[s.axis] + s.expected_pos - sign * 50)
             /\ s.feature[s.axis] = r[s.axis][end]

\* On one axis of a hole both walls are outside of the safe positions and
\* within ten of the nominal ones; the feature is half-way between them.
Between(s, r, a, half) ==
    /\ Covers(r, a, Zero(s)[a] - Safe(half)) /\ Covers(r, a, Zero(s)[a] + Safe(half))
    /\ Beyond(r, a, 1, Zero(s)[a] - (half + 10)) /\ Walled(s, r, a, 1, Height(s, s.depth))
    /\ Beyond(r, a, 2, Zero(s)[a] + half + 10) /\ Walled(s, r, a, 2, Height(s, s.depth))
    /\ s.feature[a] = (r[a][1] + r[a][2]) \div 2

\* The region a cycle moves in, from the clearance to the probing height z.
Shaft(s, r, z) ==
    /\ Free(s, r) /\ s.start \in Spots(r)
    /\ Covers(r, "Z", Height(s, s.clearance)) /\ Covers(r, "Z", Height(s, z))

HoleFits(s, r, axes, half) ==
    half \in Nat /\ Shaft(s, r, s.depth) /\ \A a \in axes : Between(s, r, a, half)

\* The walls of an inside corner are met before the stylus has gone as far
\* beyond the zero as it started short of it.
CornerFits(s, r) ==
    /\ Shaft(s, r, s.probe_z)
    /\ \A a \in {"X", "Y"} :
         LET d == (IF a = "X" THEN XDir(s.corner) ELSE YDir(s.corner)) * s.distance
         IN  /\ Covers(r, a, Zero(s)[a] - d)
             /\ \E end \in {1, 2} :
                  /\ Walled(s, r, a, end, Height(s, s.probe_z))
                  /\ Beyond(r, a, end, Zero(s)[a] + d)
                  /\ s.feature[a] = r[a][end]

\* Room to descend at p, from one height to another, beside a face.
Beside(s, r, a, end, p, above, below) ==
    /\ Free(s, r) /\ Walled(s, r, a, end, below)
    /\ Put(p, "Z", above) \in Spots(r) /\ Put(p, "Z", below) \in Spots(r)

\* On each axis the zero is between the faces of the boss, and there is room
\* beside both of them; above it the stylus may cross it.
BossFits(s, above, low, high) ==
    LET over == s.diameter \div 2 + 20
    IN  /\ Free(s, above) /\ s.start \in Spots(above)
        /\ Covers(above, "Z", Height(s, s.clearance))
        /\ \A a \in {"X", "Y"} :
             /\ Covers(above, a, Zero(s)[a] - over) /\ Covers(above, a, Zero(s)[a] + over)
             /\ Beside(s, low[a], a, 2, Put(Zero(s), a, Zero(s)[a] - over),
                       Height(s, s.clearance), Height(s, s.probe_z))
             /\ Beside(s, high[a], a, 1, Put(Zero(s), a, Zero(s)[a] + over),
                       Height(s, s.clearance), Height(s, s.probe_z))
             /\ Beyond(low[a], a, 2, Zero(s)[a]) /\ Beyond(high[a], a, 1, Zero(s)[a])
             /\ s.feature[a] = (high[a][a][1] + low[a][a][2]) \div 2

\* One axis of a stock: p is where the cycle descends on its high side, at the
\* heights of the measured top. The first touch meets the high face, and from
\* there a width and two safety distances further the low side is clear.
StockFits(s, above, low, high, a, width, p) ==
    LET reach == width \div 2 + 2 * s.safety
        far == high[a][1] - (width + 2 * s.safety)
        zc == s.feature["Z"] + s.clearance
        zd == s.feature["Z"] + s.probe_z
    IN  /\ Beside(s, high, a, 1, p, zc, zd) /\ Beyond(high, a, 1, p[a] - reach)
        /\ Covers(high, a, high[a][1] + s.retract)
        /\ Beside(s, low, a, 2, Put(p, a, far), zc, zd) /\ Beyond(low, a, 2, far + reach)
        /\ Covers(low, a, low[a][2] - s.retract)
        /\ \A x \in {p[a], high[a][1], far, low[a][2], s.feature[a]} : Covers(above, a, x)
        /\ s.feature[a] = (high[a][1] + low[a][2]) \div 2

\* The requests whose cycle sets the three axes one after the other.
SetsAll(s) == s.cycle = "outside_box" /\ s.mode # "renishaw" /\ s.probe_top /\ s.set_wcs

\* The stylus starts over the stock, within thirty of its top.
BoxFits(s, column, above, low, high) ==
    LET f == s.feature
        zc == f["Z"] + s.clearance
        right == s.start["X"] + (s.x_width \div 2 + s.safety)
        back == s.start["Y"] + (s.y_width \div 2 + s.safety)
    IN  /\ SetsAll(s) /\ s.retract \in Nat
        /\ Free(s, column) /\ s.start \in Spots(column)
        /\ Walled(s, column, "Z", 1, 0) /\ Beyond(column, "Z", 1, s.start["Z"] - 30)
        /\ Covers(column, "Z", column["Z"][1] + s.retract) /\ Covers(column, "Z", zc)
        /\ f["Z"] = column["Z"][1] + s.z_offset
        /\ Free(s, above) /\ Put(s.start, "Z", zc) \in Spots(above)
        /\ StockFits(s, above, low["X"], high["X"], "X", s.x_width,
                     Put(s.start, "X", right))
        /\ StockFits(s, above, low["Y"], high["Y"], "Y", s.y_width,
                     Put(Put(s.start, "X", f["X"]), "Y", back))

\* The places G name the regions of a cycle in a workpiece that fits it.
Fits(s, G) ==
    /\ s.start \in [Axes -> Int] /\ s.active \in WorkSystems
    /\ \A b \in s.solid : b \in Regions /\ \A a \in Axes : b[a][1] < b[a][2]
    /\ CASE s.cycle = "single_surface" -> SurfaceFits(s, G)
         [] s.cycle = "bore" -> HoleFits(s, G, {"X", "Y"}, s.diameter \div 2)
         [] s.cycle = "boss" -> BossFits(s, G.above, G.low, G.high)
         [] s.cycle = "corner" -> CornerFits(s, G)
         [] s.cycle = "pocket_width" ->
              s.axis # "Z" /\ HoleFits(s, G, {s.axis}, s.width \div 2)
         [] s.cycle = "outside_box" -> BoxFits(s, G.column, G.above, G.low, G.high)

Placed(s) == \E G : Fits(s, G)
===============================================================================
