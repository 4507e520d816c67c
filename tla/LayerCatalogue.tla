--------------------------- MODULE LayerCatalogue ---------------------------
(***************************************************************************)
(* Which layers of NOAA's MapServers a product query reads: kLayers, the   *)
(* lookups over it, and the argument checks of the query_* methods and of  *)
(* StaticFeedClient.  A layer is a service and an id; <<>>, no layers at   *)
(* all, is a request refused as InvalidRequest before anything is sent.    *)
(***************************************************************************)
EXTENDS Integers, Sequences

CONSTANTS Days, Hazards      \* the arguments a caller may pass

ASSUME DaysAssumption == Days \subseteq Int

Descriptor(product, day, subtype, id) ==
    [product |-> product, day |-> day, subtype |-> subtype, id |-> id]

Severe == {<<"tornado", 0>>, <<"hail", 2>>, <<"wind", 4>>}

Empty == "none"      \* the empty string

(* kLayers: on days 1 and 2 every hazard has its conditional intensity and  *)
(* its probability, on day 3 there is one hazard, from day 4 on one layer.  *)
kLayers ==
    {Descriptor("Categorical", d, Empty, 8 * d - 7) : d \in 1 .. 3}
    \cup {Descriptor("ConditionalIntensity", d, h[1], 8 * d - 6 + h[2]) :
             d \in 1 .. 2, h \in Severe}
    \cup {Descriptor("Probability", d, h[1], 8 * d - 5 + h[2]) : d \in 1 .. 2, h \in Severe}
    \cup {Descriptor("ConditionalIntensity", 3, "severe", 18),
          Descriptor("Probability", 3, "severe", 19)}
    \cup {Descriptor("Probability", d, "severe", 17 + d) : d \in 4 .. 8}
    \cup {Descriptor("FireWeather", d, "outlook", 3 * d - 2) : d \in 1 .. 2}
    \cup {Descriptor("FireWeather", d, "dry-thunderstorm", 3 * d - 1) : d \in 1 .. 2}
    \cup {Descriptor("FireWeather", d, "dry-thunderstorm", 3 * d - 2) : d \in 3 .. 8}
    \cup {Descriptor("FireWeather", d, "wind-low-humidity", 3 * d - 1) : d \in 3 .. 8}

Service(product) == IF product = "FireWeather" THEN "FireWeather" ELSE "Outlooks"

Layer(l) == <<Service(l.product), l.id>>

(* find_layer(), as the sequence of what it finds *)
FindLayer(product, day, subtype) ==
    LET found == {l \in kLayers : l.product = product /\ l.day = day /\ l.subtype = subtype}
    IN  IF found = {} THEN <<>> ELSE <<Layer(CHOOSE l \in found : TRUE)>>

(* Mutant: a layer of day 4 to 8 passes for one of day 1 to 3. *)
Day1To3ProbabilityAnyDay(day, hazard) == FindLayer("Probability", day, hazard)

(* day1_3_probability_layer() *)
Day1To3Probability(day, hazard) ==
    IF day <= 3 THEN FindLayer("Probability", day, hazard) ELSE <<>>

(* fire_weather_layers(): the order of each day's layers in kLayers *)
FireWeatherLayers(day) ==
    FindLayer("FireWeather", day, "outlook")
      \o FindLayer("FireWeather", day, "dry-thunderstorm")
      \o FindLayer("FireWeather", day, "wind-low-humidity")

(* normalized_hazard() *)
NormalizedHazard(day, hazard) == IF day = 3 /\ hazard = "any" THEN "severe" ELSE hazard

(* The layers a method of ArcGISClient reads for its arguments. *)
LayersRead(r) ==
    CASE r.method = "categorical" -> FindLayer("Categorical", r.day, Empty)
      [] r.method = "probabilistic" ->
           Day1To3Probability(r.day, NormalizedHazard(r.day, r.hazard))
      [] r.method = "conditional_intensity" ->
           FindLayer("ConditionalIntensity", r.day, NormalizedHazard(r.day, r.hazard))
      [] r.method = "day4_8" -> IF r.day < 4 THEN <<>> ELSE FindLayer("Probability", r.day, "severe")
      [] r.method = "fire_weather" -> FireWeatherLayers(r.day)
      [] r.method = "active_md" -> <<<<"MesoscaleDiscussions", 0>>>>

(* is_json_format() *)
JsonFormats == {"json", "pjson", "geojson"}

(* The layer query_layer() reads: any id, on any service. *)
LayerQueried(service, id, format) ==
    IF id < 0 \/ format \notin JsonFormats THEN <<>> ELSE <<<<service, id>>>>

(* Mutant: the range of the extended outlook ends a day late. *)
StaticFeedAcceptsDay9(r) ==
    CASE r.method = "categorical" -> ~(r.day < 1 \/ r.day > 3)
      [] r.method = "probabilistic" ->
           Day1To3Probability(r.day, NormalizedHazard(r.day, r.hazard)) # <<>>
      [] r.method = "day4_8" -> ~(r.day < 4 \/ r.day > 9)

(* The tests of StaticFeedClient before it asks for a file. *)
StaticFeedAccepts(r) ==
    CASE r.method = "categorical" -> ~(r.day < 1 \/ r.day > 3)
      [] r.method = "probabilistic" ->
           Day1To3Probability(r.day, NormalizedHazard(r.day, r.hazard)) # <<>>
      [] r.method = "day4_8" -> ~(r.day < 4 \/ r.day > 8)

(* The file it asks for: <<>> stands for no request. *)
StaticFile(r) ==
    IF ~StaticFeedAccepts(r) THEN <<>>
    ELSE IF r.method = "probabilistic"
      THEN <<r.method, r.day, IF r.day = 3 THEN "prob" ELSE r.hazard>>
    ELSE <<r.method, r.day>>

StaticMethods == {"categorical", "probabilistic", "day4_8"}

Methods == StaticMethods \cup {"conditional_intensity", "fire_weather", "active_md"}

Requests == [method : Methods, day : Days, hazard : Hazards]
=============================================================================
