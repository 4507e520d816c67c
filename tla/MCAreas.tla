------------------------------ MODULE MCAreas ------------------------------
(***************************************************************************)
(* Small areas and how they are published.  An area is a sequence of       *)
(* polygons, each a clockwise, convex outer ring and its counter-clockwise *)
(* holes; Esri lists all rings, and GeoJSON's rings run the other way.     *)
(***************************************************************************)
EXTENDS PayloadGeometry

Square == <<<<0, 0>>, <<0, 4>>, <<4, 4>>, <<4, 0>>, <<0, 0>>>>
Triangle == <<<<2, 6>>, <<4, 0>>, <<0, 0>>>>
Flat == <<<<5, 0>>, <<6, 3>>, <<5, 0>>>>
Hole == <<<<1, 0>>, <<3, 0>>, <<2, 3>>, <<1, 0>>>>
BadHole == <<<<1, 1>>, Bad, <<2, 2>>>>
FarHole == <<<<1, 1>>, <<9, 1>>, <<2, 2>>>>

Areas == {<<<<Square>>>>, <<<<Triangle, Hole>>>>, <<<<Flat>>, <<Triangle>>>>}
BrokenAreas == {<<<<Square, BadHole>>>>, <<<<Square, FarHole>>>>}

EsriOf(area, reference) ==
    [shape |-> "esri", reference |-> reference, rings |-> FlattenSeq(area)]

GeoJsonOf(area) ==
    [shape |-> "geojson",
     polygons |-> [i \in DOMAIN area |-> [j \in DOMAIN area[i] |-> Reverse(area[i][j])]]]

(* What one record publishes: says holds its item, or is empty. *)
Published(container, fields, area, geometry, skipped, says) ==
    [container |-> container, fields |-> fields, area |-> area, geometry |-> geometry,
     skipped |-> skipped, says |-> says]

-----------------------------------------------------------------------------
(* What an area contains, and the points its outer rings need, without
   the readers. *)

Cross(a, b, p) == (b[1] - a[1]) * (p[2] - a[2]) - (b[2] - a[2]) * (p[1] - a[1])

Distinct(ring) == SelectSeq(Edges(ring), LAMBDA e : e.a # e.b)

(* To the right of every edge of a convex clockwise ring. *)
Inside(p, ring) == \A e \in ToSet(Distinct(ring)) : Cross(e.a, e.b, p) < 0

Between(x, a, b) == (a <= x /\ x <= b) \/ (b <= x /\ x <= a)

OnBoundary(p, ring) ==
    \E e \in ToSet(Distinct(ring)) :
      /\ Cross(e.a, e.b, p) = 0
      /\ \A c \in {1, 2} : Between(p[c], e.a[c], e.b[c])

(* Places in and around the areas, in 1/Scale units. *)
Places == {<<(Scale * i) \div 2, (Scale * j) \div 2>> : i \in -1 .. 13, j \in -1 .. 12}

OuterRing(polygon) == SelectSeq(polygon[1], LAMBDA pt : pt # Bad)

(***************************************************************************)
(* What converting the slanted edges of a ring may blur (json.cpp:46-47):  *)
(* a place within one metre of latitude of the heights next to the edge at *)
(* the longitude of the place.                                             *)
(***************************************************************************)
NextTo(p, h, e) ==
    Magnitude((h - e.a[2]) * (e.b[1] - e.a[1]) - (p[1] - e.a[1]) * (e.b[2] - e.a[2]))
      < Magnitude(e.b[1] - e.a[1])

WithinMetre(p, e) ==
    /\ ~AxisAligned(e)
    /\ Between(p[1], e.a[1], e.b[1])
    /\ \E h \in Heights : NextTo(p, h, e) /\ Magnitude(Latitude[h] - Latitude[p[2]]) <= Metre

Blurs(ring, p) == \E e \in ToSet(Edges(Finer(ring))) : WithinMetre(p, e)

(* The places each ring excuses when it is converted, worked out once. *)
Blurred == [ring \in {Square, Triangle, Flat} |-> {p \in Places : Blurs(ring, p)}]

(* The points an outer ring needs so that no slanted edge is too tall. *)
Needed(ring) ==
    Sum([i \in DOMAIN ring |->
           LET e == Edges(ring)[i]
           IN  IF AxisAligned(e) THEN 0 ELSE (Height(e) - 1) \div StepHeight])
=============================================================================
