--------------------------- MODULE MCArcGISQuery ---------------------------
(***************************************************************************)
(* A fire-weather day, a day without layers, and query_layer() for a layer *)
(* of that day: in order, in none, and in a format that is refused.        *)
(***************************************************************************)
EXTENDS ArcGISQuery

Catalogue == INSTANCE LayerCatalogue WITH Days <- {1, 9}, Hazards <- {"none"}

Day(day) ==
    [layers |-> Catalogue!LayersRead([method |-> "fire_weather", day |-> day, hazard |-> "none"]),
     raw |-> FALSE, ordered |-> TRUE]

Raw(format, ordered) ==
    [layers |-> Catalogue!LayerQueried("FireWeather", 1, format), raw |-> TRUE, ordered |-> ordered]

SomeProducts == {Day(9), Day(1), Raw("html", TRUE), Raw("json", TRUE), Raw("geojson", FALSE)}

TheirLayers == UNION {ToSet(p.layers) : p \in SomeProducts}

LayerContents == {<<>>, <<1, 3, 2>>, <<2, 4, 5, 7>>}

FewContents == {<<>>, <<1, 2, 3>>}

LostOrBusy == {Response(503, 0), Response(404, 0), Failure("NetworkError")}

ServiceErrors == {0, 404, 429, 500, 1000}
=============================================================================
