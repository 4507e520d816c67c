-------------------------- MODULE MCProductParsers --------------------------
(***************************************************************************)
(* Small responses for the product parsers: about areas, where records     *)
(* differ in their geometry, and about risks and reports, where they       *)
(* differ in their fields.                                                 *)
(***************************************************************************)
EXTENDS ProductParsers, MCForecasts

CONSTANT MaxFeatures      \* bound: the features of a response

-----------------------------------------------------------------------------
(* Responses about areas: records of all geometries, skipped and improbable ones. *)

Fifteen == [LABEL |-> Text(<<"whole", 15>>), issue |-> Text(Word("now"))]
Nothing == [LABEL |-> Text(<<"whole", 0>>), issue |-> Text(Word("now"))]

Plain(fields, area, geometry) == Published("properties", fields, area, geometry, FALSE, <<>>)

Shaped ==
    {Plain(Fifteen, a, EsriOf(a, "none")) : a \in Areas \cup BrokenAreas}
    \cup {Plain(Fifteen, a, GeoJsonOf(a)) : a \in Areas \cup BrokenAreas}
    \cup {Plain(Fifteen, a, EsriOf(a, r)) :
            a \in {<<<<Triangle>>>>}, r \in {"mercator", "degrees", "unsupported"}}
    \cup {Plain(Nothing, a, EsriOf(a, "none")) : a \in {<<<<Triangle>>>>, <<<<Square, BadHole>>>>}}
    \cup {Published("none", <<>>, a, EsriOf(a, "none"), TRUE, <<>>) :
            a \in {<<<<Triangle>>>>, <<<<Square, BadHole>>>>}}
    \cup {Plain(Fifteen, <<>>, [shape |-> "missing"])}

AreaResponses ==
    [product : {Product(k, 4, "") :
                  k \in {"watches", "conditional_intensity", "day4_8", "probabilistic"}},
     reference : {"none", "mercator", "unsupported"},
     about : {"areas"},
     features : BoundedSeq(Shaped, MaxFeatures)]

FieldResponses ==
    UNION {[product : {p}, reference : {"none"},
            about : {IF p.kind \in Outlooks THEN "risks" ELSE "reports"},
            features : BoundedSeq(Records(p), MaxFeatures)] : p \in Products}

SomeResponses == AreaResponses \cup FieldResponses

(* A latitude for the heights of the map. *)
Bent == [y \in Heights |-> y * (800 - Magnitude(y))]

-----------------------------------------------------------------------------
(* What a response publishes. *)

HasBadPoint(area) == \E i \in DOMAIN area : \E ring \in ToSet(area[i]) : Contains(ring, Bad)

(* Esri's convention: each polygon is a clockwise ring and then its holes. *)
Wound(area) ==
    \A i \in DOMAIN area :
      /\ area[i] # <<>> /\ area[i][1] # <<>> /\ ~IsHole(area[i][1])
      /\ \A j \in 2 .. Len(area[i]) : IsHole(area[i][j])

(* What is said of each record, apart from what the parsers make of it. *)
ASSUME PublishedAssumption ==
    \A r \in Responses : \A f \in ToSet(r.features) :
      /\ f.skipped => Skips(r.product, f)
      /\ f.geometry.shape = "esri" =>
           /\ Skips(r.product, f) => f.skipped
           /\ f.area \in Seq(Seq(Seq(Points)))
           /\ f.geometry.rings = FlattenSeq(f.area)
           /\ HasBadPoint(f.area) \/ Wound(f.area)

ReadFeatures == {f \in ToSet(response.features) : ~f.skipped}

IsEsri(f) ==
    /\ f.geometry.shape = "esri"
    /\ response.product.kind \notin {"categorical", "probabilistic", "storm_reports"}

IsMercator(f) == IsEsri(f) /\ ReferenceOf(f.geometry, response.reference) = "mercator"

Readable(f) ==
    IsEsri(f) =>
      /\ ReferenceOf(f.geometry, response.reference) # "unsupported"
      /\ \A i \in DOMAIN f.area : \A ring \in ToSet(f.area[i]) : \A pt \in ToSet(ring) :
           /\ pt # Bad
           /\ IsMercator(f) => \A c \in {1, 2} : Magnitude(pt[c]) <= Extent

NeededBy(f) ==
    IF IsMercator(f) /\ ~f.skipped
      THEN Sum([i \in DOMAIN f.area |-> Needed(f.area[i][1])]) ELSE 0

-----------------------------------------------------------------------------
(* Properties. *)

(***************************************************************************)
(* README.md:145-150: a payload fails exactly when a point or a reference  *)
(* cannot be used (of a hole too, and of a feature that is dropped later,  *)
(* but not of one that is skipped), or when its outer rings together need  *)
(* more added points than the limit, however they are spread over edges,   *)
(* rings and features.                                                     *)
(***************************************************************************)
FailsOnlyForCause ==
    status \in {"done", "failed"} =>
      (status = "done" <=>
         /\ \A f \in ReadFeatures : Readable(f)
         /\ Sum([i \in DOMAIN response.features |-> NeededBy(response.features[i])])
              <= MaxAdded)

(* The places of an edge, its ends included, in 1/Scale units. *)
OnEdge(e, t) ==
    <<Scale * e.a[1] + t * (e.b[1] - e.a[1]), Scale * e.a[2] + t * (e.b[2] - e.a[2])>>

(* An edge in degrees runs past a place of the map within one metre. *)
RunsPast(e, p) ==
    LET width == e.b[1] - e.a[1]
        lat == Latitude[p[2]]
    IN  /\ Between(p[1], e.a[1], e.b[1])
        /\ \/ width = 0 /\ Between(lat, e.a[2], e.b[2])
           \/ width # 0 /\ Magnitude(width * (lat - e.a[2]) - (p[1] - e.a[1]) * (e.b[2] - e.a[2]))
                              <= Magnitude(width) * Metre

(***************************************************************************)
(* "Projected edges are subdivided to preserve their boundaries within one *)
(* metre" (README.md:147): every corner is converted, and wherever one     *)
(* looks on a published edge, the closing one included, an edge in degrees *)
(* runs past at most one metre from there; and degrees are not converted.  *)
(***************************************************************************)
BoundaryKept ==
    \A i \in DOMAIN features :
      LET f == response.features[features[i].index]
      IN  \A n \in DOMAIN features[i].rings :
            LET ring == features[i].rings[n]
                edges == ToSet(Edges(ring.points))
            IN  /\ ring.projected <=> IsMercator(f)
                /\ ring.projected =>
                     \A e \in ToSet(Edges(f.area[n][1])) :
                       /\ InverseMercator(OnEdge(e, 0)) \in ToSet(ring.points)
                       /\ \A t \in 0 .. Scale : \E d \in edges : RunsPast(d, OnEdge(e, t))

Excused(f) ==
    IF IsMercator(f) THEN UNION {Blurred[f.area[n][1]] : n \in DOMAIN f.area} ELSE {}

(***************************************************************************)
(* json.hpp:63-66: Esri rings give the same area as GeoJSON of that layer. *)
(* A place off the boundary is in a parsed feature exactly if it is within *)
(* an outer ring of the published area, whichever way the rings run, where *)
(* they begin, and whatever points were added to them, but for places that *)
(* are within one metre of a converted, slanted edge; and there is one     *)
(* ring for each polygon.                                                  *)
(***************************************************************************)
SameAreaEitherShape ==
    \A i \in DOMAIN features :
      LET f == response.features[features[i].index]
          rings == features[i].rings
          outer == [n \in DOMAIN f.area |-> Finer(OuterRing(f.area[n]))]
      IN  /\ Len(rings) = Len(f.area)
          /\ \A p \in Places \ Excused(f) :
               (\A n \in DOMAIN outer : ~OnBoundary(p, outer[n])) =>
                 (PointInFeature(p, rings) <=> \E n \in DOMAIN outer : Inside(p, outer[n]))

(* What the records of a response say, in their order. *)
Says == FlattenSeq([i \in DOMAIN response.features |-> response.features[i].says])

Payload == [i \in DOMAIN features |-> features[i].item]

(***************************************************************************)
(* An outlook holds exactly the risks that are forecast, in their order,   *)
(* whichever way the feed writes them (json.cpp:136, fire_weather.cpp:35): *)
(* upper- or lower-case keys, a fraction, a percentage, a number or a text *)
(* that is one, a label or the index of a band, properties or attributes.  *)
(* "No risk" and values out of range are left out, and so is what has no   *)
(* area (outlook.hpp:25, fire_weather.hpp:47).                             *)
(***************************************************************************)
RisksAsForecast ==
    (response.about = "risks" /\ status = "done") => Payload = Says

(***************************************************************************)
(* One item for each watch, report or discussion in force, in the order    *)
(* they were filed, with or without an area; a report that repeats its     *)
(* place or size in other fields is read the same from either              *)
(* (storm_report.cpp:48), and numbers out of range become 0.               *)
(***************************************************************************)
ReportsAsFiled ==
    (response.about = "reports" /\ status = "done") => Payload = Says
=============================================================================
