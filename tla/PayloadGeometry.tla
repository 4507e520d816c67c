-------------------------- MODULE PayloadGeometry --------------------------
(***************************************************************************)
(* How the area of one record becomes rings in degrees, and what it takes  *)
(* from the payload's budget of added points: both readers of geometries   *)
(* and point_in_feature().  Published coordinates are integers, and the    *)
(* points of an edge on the map are counted in 1/Scale units of them.  The *)
(* longitude that inverse_mercator() gives is linear and keeps those       *)
(* units; the latitude is not, and is a function of the height.            *)
(***************************************************************************)
EXTENDS Integers, Sequences, SequencesExt, FiniteSetsExt, Functions

CONSTANTS
    StepHeight,     \* 10 km, the tallest edge that is left as it is
    Extent,         \* the largest coordinate of Web Mercator
    MaxAdded,       \* kMaxAddedProjectionPoints
    Scale,          \* a multiple of every number of steps an edge on the map can take
    Latitude,       \* the latitude of each height on the map, as inverse_mercator() has it
    Metre           \* one metre, in the unit of Latitude

ASSUME GeometryAssumption ==
    /\ {StepHeight, Extent, Scale} \subseteq Nat \ {0}
    /\ MaxAdded \in Nat
    /\ \A n \in 1 .. (2 * Extent + StepHeight - 1) \div StepHeight : Scale % n = 0

Magnitude(i) == IF i < 0 THEN -i ELSE i

Heights == -(Scale * Extent) .. Scale * Extent

(* Latitude grows with the height, but not evenly: what json.cpp:46-47 says of *)
(* it is that a straight line over 10 km errs by less than one metre.          *)
ASSUME LatitudeAssumption ==
    /\ Metre \in Nat
    /\ Latitude \in [Heights -> Int]
    /\ \A y, z \in Heights : y < z => Latitude[y] < Latitude[z]
    /\ \A y \in Heights, step \in 1 .. Scale * StepHeight : y + step \in Heights =>
         \A t \in 0 .. step :
           Magnitude((step - t) * Latitude[y] + t * Latitude[y + step]
                       - step * Latitude[y + t]) <= step * Metre

Sum(s) ==
    LET upTo[i \in 0 .. Len(s)] == IF i = 0 THEN 0 ELSE upTo[i - 1] + s[i]
    IN  upTo[Len(s)]

-----------------------------------------------------------------------------
(* Rings are sequences of points; a point that is no pair of numbers is Bad. *)

Bad == <<>>

Points == (Int \X Int) \cup {Bad}

Following(ring, i) == ring[(i % Len(ring)) + 1]

(* The edges of a ring, the one that closes it included. *)
Edges(ring) == [i \in DOMAIN ring |-> [a |-> ring[i], b |-> Following(ring, i)]]

(* 2 * ring_signed_area(): positive when counter-clockwise *)
TwiceArea(ring) ==
    IF Len(ring) < 3 THEN 0
    ELSE Sum([i \in DOMAIN ring |->
                ring[i][1] * Following(ring, i)[2] - Following(ring, i)[1] * ring[i][2]])

AxisAligned(e) == e.a[1] = e.b[1] \/ e.a[2] = e.b[2]

Height(e) == Magnitude(e.b[2] - e.a[2])

AtLeastOne(n) == IF n < 1 THEN 1 ELSE n

(* Mutant: the number of steps is rounded down. *)
StepsRoundedDown(e) == IF AxisAligned(e) THEN 1 ELSE AtLeastOne(Height(e) \div StepHeight)

(* Mutant: corners are converted, and nothing between them. *)
CornersOnly(e) == 1

(* mercator_edge_steps() *)
Steps(e) ==
    IF AxisAligned(e) THEN 1
    ELSE AtLeastOne((Height(e) + StepHeight - 1) \div StepHeight)

(* The points from which an edge is converted: its first end, and those added. *)
Along(e, c, j) == Scale * e.a[c] + (j - 1) * ((Scale * (e.b[c] - e.a[c])) \div Steps(e))

Stop(e, j) == <<Along(e, 1, j), Along(e, 2, j)>>

Stops(e) == [j \in 1 .. Steps(e) |-> Stop(e, j)]

(* inverse_mercator() *)
InverseMercator(pt) == <<pt[1], Latitude[pt[2]]>>

(* project_mercator_ring() *)
Divided(ring) == FlattenSeq([i \in DOMAIN ring |-> Stops(Edges(ring)[i])])

Projected(ring) == [k \in DOMAIN Divided(ring) |-> InverseMercator(Divided(ring)[k])]

-----------------------------------------------------------------------------
(* Reading one geometry: failed, or its rings and what is left of the budget. *)

Failure == [ok |-> FALSE]
Rings(rings, left) == [ok |-> TRUE, rings |-> rings, left |-> left]

Degrees(ring) == [projected |-> FALSE, points |-> ring]
Converted(ring) == [projected |-> TRUE, points |-> Projected(ring)]

(* parse_ring() *)
GoodPoints(ring) == SelectSeq(ring, LAMBDA pt : pt # Bad)

NonEmpty(polygons) == SelectSeq(polygons, LAMBDA p : p # <<>>)

(* parse_rings(): the first ring of each polygon *)
ReadGeoJson(g, left) ==
    LET outer == NonEmpty(g.polygons)
    IN  Rings([i \in DOMAIN outer |-> Degrees(GoodPoints(outer[i][1]))], left)

(* validate_mercator() *)
OnTheMap(ring) == \A pt \in ToSet(ring), c \in {1, 2} : Magnitude(pt[c]) <= Extent

(* Esri's holes run counter-clockwise. *)
IsHole(ring) == TwiceArea(ring) > 0

OuterRings(rings) ==
    FlattenSeq([i \in DOMAIN rings |->
      IF rings[i] = <<>> \/ IsHole(rings[i]) THEN <<>> ELSE <<rings[i]>>])

(* mercator_inserted_points() of one ring, within what is left *)
AddedPoints(ring) == Sum([i \in DOMAIN ring |-> Steps(Edges(ring)[i]) - 1])

(* Mutant: each ring of a geometry may use all of the budget, and size_t wraps. *)
PreflightEachRing(rings, left) ==
    IF \E r \in ToSet(rings) : AddedPoints(r) > left THEN -1
    ELSE (left - Sum([i \in DOMAIN rings |-> AddedPoints(rings[i])])) % 65536

(* The preflight over a geometry: what is left of the budget, or -1. *)
Preflight(rings, left) ==
    LET after[i \in 0 .. Len(rings)] ==
          IF i = 0 THEN left
          ELSE LET rest == after[i - 1]
               IN  IF AddedPoints(rings[i]) > rest THEN -1 ELSE rest - AddedPoints(rings[i])
    IN  after[Len(rings)]

(* A geometry's own reference overrides the one of the response. *)
ReferenceOf(g, reference) == IF g.reference = "none" THEN reference ELSE g.reference

(* parse_esri_rings_with_budget() *)
ReadEsri(g, reference, left) ==
    LET mercator == ReferenceOf(g, reference) = "mercator"
        outer == OuterRings(g.rings)
    IN  IF \/ ReferenceOf(g, reference) = "unsupported"
           \/ \E r \in ToSet(g.rings) : Contains(r, Bad) \/ (mercator /\ ~OnTheMap(r))
          THEN Failure
        ELSE IF ~mercator
          THEN Rings([i \in DOMAIN outer |-> Degrees(outer[i])], left)
        ELSE IF Preflight(outer, left) < 0 THEN Failure
        ELSE Rings([i \in DOMAIN outer |-> Converted(outer[i])], Preflight(outer, left))

(* PayloadGeometryParser::parse() *)
Read(g, reference, left) ==
    CASE g.shape = "geojson" -> ReadGeoJson(g, left)
      [] g.shape = "esri" -> ReadEsri(g, reference, left)
      [] OTHER -> Rings(<<>>, left)

-----------------------------------------------------------------------------
(* point_in_polygon(), multiplied out, and point_in_feature(). *)

(* Mutant: an edge ends where the next one begins, and counts for both. *)
StraddlesTwice(lat, e) == (e.a[2] >= lat /\ e.b[2] <= lat) \/ (e.a[2] <= lat /\ e.b[2] >= lat)

Straddles(lat, e) == (e.a[2] > lat) # (e.b[2] > lat)

Crosses(lon, lat, e) ==
    /\ Straddles(lat, e)
    /\ LET up == e.b[2] - e.a[2]
           left == (lon - e.a[1]) * up
           right == (e.b[1] - e.a[1]) * (lat - e.a[2])
       IN  IF up > 0 THEN left < right ELSE left > right

PointInPolygon(lon, lat, ring) ==
    Quantify(DOMAIN ring, LAMBDA i : Crosses(lon, lat, Edges(ring)[i])) % 2 = 1

(* A place is a point of the published map in 1/Scale units, and *)
(* point_in_feature() is asked for the longitude and latitude of it. *)
Finer(ring) == [i \in DOMAIN ring |-> <<Scale * ring[i][1], Scale * ring[i][2]>>]

InRing(p, ring) ==
    IF ring.projected THEN PointInPolygon(p[1], Latitude[p[2]], ring.points)
    ELSE PointInPolygon(p[1], p[2], Finer(ring.points))

PointInFeature(p, rings) == \E i \in DOMAIN rings : InRing(p, rings[i])
=============================================================================
