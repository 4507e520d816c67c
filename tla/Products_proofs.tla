--------------------------- MODULE Products_proofs ---------------------------
(***************************************************************************)
(* What is proved about the products: the layers that a request reads, for *)
(* every day and hazard; and the loop of the parsers, for every response.  *)
(***************************************************************************)
EXTENDS MCLayerCatalogue, MCProductParsers, InductionFacts

-----------------------------------------------------------------------------
(* The catalogue: what kLayers holds of each product. *)

(* A layer of the days 1 to 3, of which the last has one for all hazards. *)
OfHazard(l, offset) ==
    \/ l.day \in 1 .. 2 /\ \E h \in Severe : l.subtype = h[1] /\ l.id = 8 * l.day - offset + h[2]
    \/ l.day = 3 /\ l.subtype = "severe" /\ l.id = 24 - offset

OfFireWeather(l) ==
    \/ l.day \in 1 .. 2 /\ l.subtype = "outlook" /\ l.id = 3 * l.day - 2
    \/ l.day \in 1 .. 2 /\ l.subtype = "dry-thunderstorm" /\ l.id = 3 * l.day - 1
    \/ l.day \in 3 .. 8 /\ l.subtype = "dry-thunderstorm" /\ l.id = 3 * l.day - 2
    \/ l.day \in 3 .. 8 /\ l.subtype = "wind-low-humidity" /\ l.id = 3 * l.day - 1

Shape(l) ==
    \/ l.product = "Categorical" /\ l.day \in 1 .. 3 /\ l.subtype = Empty /\ l.id = 8 * l.day - 7
    \/ l.product = "ConditionalIntensity" /\ OfHazard(l, 6)
    \/ l.product = "Probability" /\ OfHazard(l, 5)
    \/ l.product = "Probability" /\ l.day \in 4 .. 8 /\ l.subtype = "severe" /\ l.id = 17 + l.day
    \/ l.product = "FireWeather" /\ OfFireWeather(l)

LEMMA Described ==
  ASSUME NEW p, NEW d, NEW s, NEW i, NEW l, l = Descriptor(p, d, s, i)
  PROVE  l.product = p /\ l.day = d /\ l.subtype = s /\ l.id = i
BY DEF Descriptor

LEMMA LayerShapes ==
  ASSUME NEW l \in kLayers
  PROVE  Shape(l)
<1>1. CASE l \in {Descriptor("Categorical", d, Empty, 8 * d - 7) : d \in 1 .. 3}
  <2>1. PICK d \in 1 .. 3 : l = Descriptor("Categorical", d, Empty, 8 * d - 7)
    BY <1>1
  <2>2. l.product = "Categorical" /\ l.day = d /\ l.subtype = Empty /\ l.id = 8 * d - 7
    BY <2>1, Described
  <2> QED
    BY <2>2 DEF Shape
<1>2. CASE l \in {Descriptor("ConditionalIntensity", d, h[1], 8 * d - 6 + h[2]) :
                   d \in 1 .. 2, h \in Severe}
  <2>1. PICK d \in 1 .. 2, h \in Severe : l = Descriptor("ConditionalIntensity", d, h[1], 8 * d - 6 + h[2])
    BY <1>2
  <2>2. l.product = "ConditionalIntensity" /\ l.day = d /\ l.subtype = h[1] /\ l.id = 8 * d - 6 + h[2]
    BY <2>1, Described
  <2> QED
    BY <2>2 DEF Shape, OfHazard
<1>9. CASE l \in {Descriptor("Probability", d, h[1], 8 * d - 5 + h[2]) :
                   d \in 1 .. 2, h \in Severe}
  <2>1. PICK d \in 1 .. 2, h \in Severe : l = Descriptor("Probability", d, h[1], 8 * d - 5 + h[2])
    BY <1>9
  <2>2. l.product = "Probability" /\ l.day = d /\ l.subtype = h[1] /\ l.id = 8 * d - 5 + h[2]
    BY <2>1, Described
  <2> QED
    BY <2>2 DEF Shape, OfHazard
<1>3. CASE l \in {Descriptor("ConditionalIntensity", 3, "severe", 18),
                  Descriptor("Probability", 3, "severe", 19)}
  <2>1. /\ \/ l.product = "ConditionalIntensity" /\ l.id = 18
           \/ l.product = "Probability" /\ l.id = 19
        /\ l.day = 3 /\ l.subtype = "severe"
    <3>1. CASE l = Descriptor("ConditionalIntensity", 3, "severe", 18)
      BY <3>1, Described
    <3>2. CASE l = Descriptor("Probability", 3, "severe", 19)
      BY <3>2, Described
    <3> QED
      BY <1>3, <3>1, <3>2
  <2> QED
    BY <2>1 DEF Shape, OfHazard
<1>4. CASE l \in {Descriptor("Probability", d, "severe", 17 + d) : d \in 4 .. 8}
  <2>1. PICK d \in 4 .. 8 : l = Descriptor("Probability", d, "severe", 17 + d)
    BY <1>4
  <2>2. l.product = "Probability" /\ l.day = d /\ l.subtype = "severe" /\ l.id = 17 + d
    BY <2>1, Described
  <2> QED
    BY <2>2 DEF Shape
<1>5. CASE l \in {Descriptor("FireWeather", d, "outlook", 3 * d - 2) : d \in 1 .. 2}
  <2>1. PICK d \in 1 .. 2 : l = Descriptor("FireWeather", d, "outlook", 3 * d - 2)
    BY <1>5
  <2>2. l.product = "FireWeather" /\ l.day = d /\ l.subtype = "outlook" /\ l.id = 3 * d - 2
    BY <2>1, Described
  <2> QED
    BY <2>2 DEF Shape, OfFireWeather
<1>6. CASE l \in {Descriptor("FireWeather", d, "dry-thunderstorm", 3 * d - 1) : d \in 1 .. 2}
  <2>1. PICK d \in 1 .. 2 : l = Descriptor("FireWeather", d, "dry-thunderstorm", 3 * d - 1)
    BY <1>6
  <2>2. l.product = "FireWeather" /\ l.day = d /\ l.subtype = "dry-thunderstorm" /\ l.id = 3 * d - 1
    BY <2>1, Described
  <2> QED
    BY <2>2 DEF Shape, OfFireWeather
<1>7. CASE l \in {Descriptor("FireWeather", d, "dry-thunderstorm", 3 * d - 2) : d \in 3 .. 8}
  <2>1. PICK d \in 3 .. 8 : l = Descriptor("FireWeather", d, "dry-thunderstorm", 3 * d - 2)
    BY <1>7
  <2>2. l.product = "FireWeather" /\ l.day = d /\ l.subtype = "dry-thunderstorm" /\ l.id = 3 * d - 2
    BY <2>1, Described
  <2> QED
    BY <2>2 DEF Shape, OfFireWeather
<1>8. CASE l \in {Descriptor("FireWeather", d, "wind-low-humidity", 3 * d - 1) : d \in 3 .. 8}
  <2>1. PICK d \in 3 .. 8 : l = Descriptor("FireWeather", d, "wind-low-humidity", 3 * d - 1)
    BY <1>8
  <2>2. l.product = "FireWeather" /\ l.day = d /\ l.subtype = "wind-low-humidity" /\ l.id = 3 * d - 1
    BY <2>1, Described
  <2> QED
    BY <2>2 DEF Shape, OfFireWeather
<1> QED
  BY <1>1, <1>2, <1>3, <1>4, <1>5, <1>6, <1>7, <1>8, <1>9 DEF kLayers

(* No two entries of kLayers name the same layer of a service. *)
SameEntry(l, k) == l.product = k.product /\ l.day = k.day /\ l.subtype = k.subtype

LEMMA HazardLayersDiffer ==
  ASSUME NEW l, NEW k, NEW n \in {5, 6}, OfHazard(l, n), OfHazard(k, n), l.id = k.id
  PROVE  l.day = k.day /\ l.subtype = k.subtype
BY DEF OfHazard, Severe

LEMMA HazardProductsDiffer ==
  ASSUME NEW l, NEW k, OfHazard(l, 6), OfHazard(k, 5)
  PROVE  l.id # k.id /\ l.id \in 2 .. 18 /\ k.id \in 3 .. 19
BY DEF OfHazard, Severe

LEMMA HazardLayersLeaveTheOthers ==
  ASSUME NEW l, NEW k, NEW n \in {5, 6}, OfHazard(l, n)
  PROVE  /\ k \in 1 .. 3 => l.id # 8 * k - 7
         /\ k \in 4 .. 8 => l.id # 17 + k
BY DEF OfHazard, Severe

LEMMA FireWeatherLayersDiffer ==
  ASSUME NEW l, NEW k, OfFireWeather(l), OfFireWeather(k), l.id = k.id
  PROVE  l.day = k.day /\ l.subtype = k.subtype
BY DEF OfFireWeather

LEMMA LayersDiffer ==
  ASSUME NEW l \in kLayers, NEW k \in kLayers, Layer(l) = Layer(k)
  PROVE  SameEntry(l, k)
<1>1. Shape(l) /\ Shape(k)
  BY LayerShapes
<1>2. Service(l.product) = Service(k.product) /\ l.id = k.id
  BY DEF Layer
<1>3. CASE l.product = "FireWeather"
  BY <1>1, <1>2, <1>3, FireWeatherLayersDiffer DEF Service, Shape, SameEntry
<1>4. CASE l.product = "Categorical"
  BY <1>1, <1>2, <1>4, HazardLayersLeaveTheOthers DEF Service, Shape, SameEntry
<1>5. CASE l.product = "ConditionalIntensity"
  BY <1>1, <1>2, <1>5, HazardLayersLeaveTheOthers, HazardLayersDiffer, HazardProductsDiffer
     DEF Service, Shape, SameEntry
<1>6. CASE l.product = "Probability"
  BY <1>1, <1>2, <1>6, HazardLayersLeaveTheOthers, HazardLayersDiffer, HazardProductsDiffer
     DEF Service, Shape, SameEntry
<1> QED
  BY <1>1, <1>3, <1>4, <1>5, <1>6 DEF Shape
-----------------------------------------------------------------------------
(* What is found of a product, a day and a subtype. *)

Entries(product, day, subtype) ==
    {l \in kLayers : l.product = product /\ l.day = day /\ l.subtype = subtype}

LEMMA Found ==
  ASSUME NEW product, NEW day, NEW subtype
  PROVE  \/ Entries(product, day, subtype) = {} /\ FindLayer(product, day, subtype) = <<>>
         \/ \E l \in Entries(product, day, subtype) :
              FindLayer(product, day, subtype) = <<Layer(l)>>
<1> DEFINE found == Entries(product, day, subtype)
<1>1. FindLayer(product, day, subtype) =
        IF found = {} THEN <<>> ELSE <<Layer(CHOOSE l \in found : TRUE)>>
  BY DEF FindLayer, Entries
<1>2. found # {} => (CHOOSE l \in found : TRUE) \in found
  BY Zenon
<1> QED
  BY <1>1, <1>2

(* What a sequence of layers holds, when it is one that FindLayer finds. *)
Members(s) == {s[i] : i \in DOMAIN s}

LEMMA OwnMembers ==
  ASSUME NEW S, NEW s \in Seq(S)
  PROVE  s \in Seq(Members(s))
BY DEF Members

LEMMA FoundMembers ==
  ASSUME NEW product, NEW day, NEW subtype
  PROVE  /\ FindLayer(product, day, subtype) \in Seq(Members(FindLayer(product, day, subtype)))
         /\ \A x \in Members(FindLayer(product, day, subtype)) :
              \E l \in Entries(product, day, subtype) : x = Layer(l)
<1>1. CASE FindLayer(product, day, subtype) = <<>>
  BY <1>1 DEF Members
<1>2. ASSUME NEW l \in Entries(product, day, subtype),
             FindLayer(product, day, subtype) = <<Layer(l)>>
      PROVE  /\ FindLayer(product, day, subtype) \in Seq(Members(FindLayer(product, day, subtype)))
             /\ \A x \in Members(FindLayer(product, day, subtype)) : x = Layer(l)
  <2>1. Members(<<Layer(l)>>) = {Layer(l)}
    BY DEF Members
  <2> QED
    BY <1>2, <2>1
<1> QED
  BY <1>1, <1>2, Found

LEMMA ConcatMembers ==
  ASSUME NEW s, NEW t, s \in Seq(Members(s)), t \in Seq(Members(t))
  PROVE  /\ s \o t \in Seq(Members(s \o t))
         /\ Members(s \o t) \subseteq Members(s) \cup Members(t)
<1> DEFINE M == Members(s) \cup Members(t)
<1>1. s \in Seq(M) /\ t \in Seq(M)
  BY SeqDef
<1> HIDE DEF M
<1>2. s \o t \in Seq(M)
  BY <1>1, ConcatProperties
<1>3. \A i \in DOMAIN (s \o t) : (s \o t)[i] \in M
  BY <1>2, ElementOfSeq, LenProperties
<1>4. Members(s \o t) \subseteq M
  BY <1>3 DEF Members
<1>5. s \o t \in Seq(Members(s \o t))
  BY <1>2, OwnMembers
<1> QED
  BY <1>4, <1>5 DEF M

-----------------------------------------------------------------------------
(* What a request reads. *)

(* The entries whose layers a request may read. *)
Fits(r, l) ==
    /\ l.day = r.day
    /\ \/ r.method = "categorical" /\ l.product = "Categorical"
       \/ /\ r.method = "probabilistic" /\ r.day <= 3
          /\ l.product = "Probability" /\ l.subtype = NormalizedHazard(r.day, r.hazard)
       \/ /\ r.method = "conditional_intensity"
          /\ l.product = "ConditionalIntensity" /\ l.subtype = NormalizedHazard(r.day, r.hazard)
       \/ r.method = "day4_8" /\ ~(r.day <= 3) /\ l.product = "Probability"
       \/ r.method = "fire_weather" /\ l.product = "FireWeather"

LEMMA FireWeatherMembers ==
  ASSUME NEW day, NEW x \in Members(FireWeatherLayers(day))
  PROVE  \E l \in kLayers : x = Layer(l) /\ l.product = "FireWeather" /\ l.day = day
<1> DEFINE Of(subtype) == FindLayer("FireWeather", day, subtype)
           s == Of("outlook")
           t == Of("dry-thunderstorm")
           u == Of("wind-low-humidity")
<1>1. /\ s \in Seq(Members(s)) /\ t \in Seq(Members(t)) /\ u \in Seq(Members(u))
      /\ \A y \in Members(s) \cup Members(t) \cup Members(u) :
           \E l \in kLayers : y = Layer(l) /\ l.product = "FireWeather" /\ l.day = day
  BY FoundMembers DEF Entries
<1>2. x \in Members((s \o t) \o u)
  BY DEF FireWeatherLayers
<1> HIDE DEF s, t, u
<1>3. /\ s \o t \in Seq(Members(s \o t))
      /\ Members(s \o t) \subseteq Members(s) \cup Members(t)
  BY <1>1, ConcatMembers
<1>4. x \in Members(s) \cup Members(t) \cup Members(u)
  BY <1>1, <1>2, <1>3, ConcatMembers
<1> QED
  BY <1>1, <1>4

LEMMA RequestType ==
  ASSUME NEW r \in Requests
  PROVE  r.method \in Methods /\ r.day \in Int
BY DaysAssumption DEF Requests

LEMMA LayersOfMembers ==
  ASSUME NEW r
  PROVE  LayersOf(r) = Members(LayersRead(r))
BY DEF LayersOf, Members

LEMMA ReadsEntries ==
  ASSUME NEW r \in Requests, NEW x \in LayersOf(r), r.method # "active_md"
  PROVE  \E l \in kLayers : x = Layer(l) /\ Fits(r, l)
<1>1. r.method \in Methods /\ r.day \in Int
  BY RequestType
<1>2. x \in Members(LayersRead(r))
  BY LayersOfMembers
<1> DEFINE hazard == NormalizedHazard(r.day, r.hazard)
<1>3. CASE r.method = "categorical"
  <2>1. x \in Members(FindLayer("Categorical", r.day, Empty))
    BY <1>2, <1>3 DEF LayersRead
  <2> QED
    BY <2>1, <1>3, FoundMembers DEF Fits, Entries
<1>4. CASE r.method = "probabilistic"
  <2>1. x \in Members(Day1To3Probability(r.day, hazard))
    BY <1>2, <1>4 DEF LayersRead
  <2>2. r.day <= 3 /\ x \in Members(FindLayer("Probability", r.day, hazard))
    BY <2>1 DEF Day1To3Probability, Members
  <2> QED
    BY <2>2, <1>4, FoundMembers DEF Fits, Entries
<1>5. CASE r.method = "conditional_intensity"
  <2>1. x \in Members(FindLayer("ConditionalIntensity", r.day, hazard))
    BY <1>2, <1>5 DEF LayersRead
  <2> QED
    BY <2>1, <1>5, FoundMembers DEF Fits, Entries
<1>6. CASE r.method = "day4_8"
  <2>1. ~(r.day < 4) /\ x \in Members(FindLayer("Probability", r.day, "severe"))
    BY <1>2, <1>6 DEF LayersRead, Members
  <2>2. ~(r.day <= 3)
    BY <1>1, <2>1
  <2> QED
    BY <2>1, <2>2, <1>6, FoundMembers DEF Fits, Entries
<1>7. CASE r.method = "fire_weather"
  <2>1. x \in Members(FireWeatherLayers(r.day))
    BY <1>2, <1>7 DEF LayersRead
  <2> QED
    BY <2>1, <1>7, FireWeatherMembers DEF Fits
<1> QED
  BY <1>1, <1>3, <1>4, <1>5, <1>6, <1>7 DEF Methods, StaticMethods

LEMMA DiscussionsApart ==
  ASSUME NEW r \in Requests, r.method = "active_md", NEW l
  PROVE  LayersOf(r) = {<<"MesoscaleDiscussions", 0>>} /\ Layer(l) \notin LayersOf(r)
<1>1. LayersRead(r) = <<<<"MesoscaleDiscussions", 0>>>>
  BY DEF LayersRead
<1>2. LayersOf(r) = {<<"MesoscaleDiscussions", 0>>}
  BY <1>1 DEF LayersOf
<1>3. Layer(l)[1] # "MesoscaleDiscussions"
  BY DEF Layer, Service
<1> QED
  BY <1>2, <1>3

LEMMA SharedLayer ==
  ASSUME NEW r \in Requests, NEW q \in Requests, LayersOf(r) \cap LayersOf(q) # {}
  PROVE  \/ r.method = "active_md" /\ q.method = "active_md"
         \/ /\ r.method # "active_md" /\ r.method = q.method /\ r.day = q.day
            /\ r.method \in {"probabilistic", "conditional_intensity"} =>
                 NormalizedHazard(r.day, r.hazard) = NormalizedHazard(q.day, q.hazard)
<1>1. PICK x \in LayersOf(r) : x \in LayersOf(q)
  OBVIOUS
<1>2. CASE r.method = "active_md" \/ q.method = "active_md"
  <2>1. CASE r.method = "active_md" /\ q.method # "active_md"
    <3>1. PICK l \in kLayers : x = Layer(l)
      BY <1>1, <2>1, ReadsEntries
    <3> QED
      BY <1>1, <2>1, <3>1, DiscussionsApart
  <2>2. CASE q.method = "active_md" /\ r.method # "active_md"
    <3>1. PICK l \in kLayers : x = Layer(l)
      BY <1>1, <2>2, ReadsEntries
    <3> QED
      BY <1>1, <2>2, <3>1, DiscussionsApart
  <2> QED
    BY <1>2, <2>1, <2>2
<1>3. CASE r.method # "active_md" /\ q.method # "active_md"
  <2>1. PICK l \in kLayers : x = Layer(l) /\ Fits(r, l)
    BY <1>1, <1>3, ReadsEntries
  <2>2. PICK k \in kLayers : x = Layer(k) /\ Fits(q, k)
    BY <1>1, <1>3, ReadsEntries
  <2>3. l.product = k.product /\ l.day = k.day /\ l.subtype = k.subtype
    BY <2>1, <2>2, LayersDiffer DEF SameEntry
  <2>4. r.day = q.day /\ r.method = q.method
    BY <2>1, <2>2, <2>3 DEF Fits
  <2>5. r.method \in {"probabilistic", "conditional_intensity"} =>
          NormalizedHazard(r.day, r.hazard) = NormalizedHazard(q.day, q.hazard)
    BY <2>1, <2>2, <2>3, <2>4 DEF Fits
  <2> QED
    BY <1>3, <2>4, <2>5
<1> QED
  BY <1>2, <1>3

LEMMA SameLayers ==
  ASSUME NEW r \in Requests, NEW q \in Requests, r.method = q.method,
         r.method # "active_md" => r.day = q.day,
         r.method \in {"probabilistic", "conditional_intensity"} =>
           NormalizedHazard(r.day, r.hazard) = NormalizedHazard(q.day, q.hazard)
  PROVE  LayersRead(r) = LayersRead(q)
<1>1. r.method \in Methods
  BY RequestType
<1>2. CASE r.method = "categorical"
  BY <1>2 DEF LayersRead
<1>3. CASE r.method = "probabilistic"
  BY <1>3 DEF LayersRead
<1>4. CASE r.method = "conditional_intensity"
  BY <1>4 DEF LayersRead
<1>5. CASE r.method = "day4_8"
  BY <1>5 DEF LayersRead
<1>6. CASE r.method = "fire_weather"
  BY <1>6 DEF LayersRead
<1>7. CASE r.method = "active_md"
  BY <1>7 DEF LayersRead
<1> QED
  BY <1>1, <1>2, <1>3, <1>4, <1>5, <1>6, <1>7 DEF Methods, StaticMethods

LEMMA OneSpelling ==
  ASSUME NEW day, NEW hazard, NEW other,
         NormalizedHazard(day, hazard) = NormalizedHazard(day, other)
  PROVE  \/ hazard = other
         \/ day = 3 /\ {hazard, other} = {"severe", "any"}
BY DEF NormalizedHazard

LEMMA AlwaysARequest == Requesting => [](request \in Requests)
<1>1. AnyRequest => request \in Requests
  BY DEF AnyRequest
<1>2. request \in Requests /\ [AnotherRequest]_request => (request \in Requests)'
  BY DEF AnotherRequest
<1> QED
  BY <1>1, <1>2, PTL DEF Requesting

(***************************************************************************)
(* Whatever the days and hazards a caller may pass, no layer of kLayers is *)
(* read as two products, for two days or for two hazards.                  *)
(***************************************************************************)
THEOREM NoSharedLayers == Requesting => []LayersAreNotShared
<1>1. request \in Requests => LayersAreNotShared
  <2>1. SUFFICES ASSUME request \in Requests, NEW r \in Requests,
                        LayersOf(r) \cap LayersOf(request) # {}
                 PROVE  /\ r.method = request.method
                        /\ r.method # "active_md" => r.day = request.day
                        /\ LayersRead(r) = LayersRead(request)
                        /\ r.method \in {"probabilistic", "conditional_intensity"} =>
                             \/ r.hazard = request.hazard
                             \/ r.day = 3 /\ {r.hazard, request.hazard} = {"severe", "any"}
    BY DEF LayersAreNotShared
  <2>2. /\ r.method = request.method
        /\ r.method # "active_md" => r.day = request.day
        /\ r.method \in {"probabilistic", "conditional_intensity"} =>
             NormalizedHazard(r.day, r.hazard) = NormalizedHazard(request.day, request.hazard)
    BY <2>1, SharedLayer
  <2>3. LayersRead(r) = LayersRead(request)
    BY ONLY <2>1, <2>2, SameLayers
  <2>4. r.method \in {"probabilistic", "conditional_intensity"} =>
          \/ r.hazard = request.hazard
          \/ r.day = 3 /\ {r.hazard, request.hazard} = {"severe", "any"}
    <3>1. SUFFICES ASSUME r.method \in {"probabilistic", "conditional_intensity"}
                   PROVE  \/ r.hazard = request.hazard
                          \/ r.day = 3 /\ {r.hazard, request.hazard} = {"severe", "any"}
      OBVIOUS
    <3>2. NormalizedHazard(r.day, r.hazard) = NormalizedHazard(r.day, request.hazard)
      BY <2>2, <3>1
    <3> QED
      BY ONLY <3>2, OneSpelling
  <2> QED
    BY <2>2, <2>3, <2>4
<1> QED
  BY <1>1, AlwaysARequest, PTL

-----------------------------------------------------------------------------
(* Which days and hazards have a layer. *)

LEMMA FindsSome ==
  ASSUME NEW product, NEW day, NEW subtype
  PROVE  FindLayer(product, day, subtype) # <<>> <=> Entries(product, day, subtype) # {}
<1> DEFINE entries == Entries(product, day, subtype)
           layers == FindLayer(product, day, subtype)
<1>1. \/ entries = {} /\ layers = <<>>
      \/ \E l \in entries : layers = <<Layer(l)>>
  BY Found
<1>2. \A x : <<x>> # <<>>
  OBVIOUS
<1> HIDE DEF entries, layers
<1>3. layers # <<>> <=> entries # {}
  BY ONLY <1>1, <1>2
<1> QED
  BY ONLY <1>3 DEF entries, layers

LEMMA CategoricalDays ==
  ASSUME NEW day \in Int
  PROVE  FindLayer("Categorical", day, Empty) # <<>> <=> day \in 1 .. 3
<1>1. ASSUME NEW l \in Entries("Categorical", day, Empty) PROVE day \in 1 .. 3
  BY LayerShapes DEF Entries, Shape
<1>2. ASSUME day \in 1 .. 3 PROVE Entries("Categorical", day, Empty) # {}
  <2> DEFINE l == Descriptor("Categorical", day, Empty, 8 * day - 7)
  <2>1. l \in kLayers
    BY <1>2 DEF kLayers
  <2> QED
    BY <2>1, Described DEF Entries
<1> QED
  BY <1>1, <1>2, FindsSome

LEMMA ExtendedDays ==
  ASSUME NEW day \in Int, ~(day < 4)
  PROVE  FindLayer("Probability", day, "severe") # <<>> <=> day \in 4 .. 8
<1>1. ASSUME NEW l \in Entries("Probability", day, "severe") PROVE day \in 4 .. 8
  BY LayerShapes DEF Entries, Shape, OfHazard
<1>2. ASSUME day \in 4 .. 8 PROVE Entries("Probability", day, "severe") # {}
  <2> DEFINE l == Descriptor("Probability", day, "severe", 17 + day)
  <2>1. l \in kLayers
    BY <1>2 DEF kLayers
  <2> QED
    BY <2>1, Described DEF Entries
<1> QED
  BY <1>1, <1>2, FindsSome

(* The hazards that are forecast for a day. *)
Forecast(day, hazard) ==
    \/ day \in 1 .. 2 /\ \E h \in Severe : hazard = h[1]
    \/ day = 3 /\ hazard = "severe"

LEMMA ProbabilityHazards ==
  ASSUME NEW day \in Int, NEW hazard
  PROVE  Day1To3Probability(day, hazard) # <<>> <=> Forecast(day, hazard)
<1>1. ASSUME day <= 3, NEW l \in Entries("Probability", day, hazard) PROVE Forecast(day, hazard)
  BY <1>1, LayerShapes DEF Entries, Shape, OfHazard, Forecast
<1>2. ASSUME NEW h \in Severe, day \in 1 .. 2, hazard = h[1]
      PROVE  Entries("Probability", day, hazard) # {}
  <2> DEFINE l == Descriptor("Probability", day, h[1], 8 * day - 5 + h[2])
  <2>1. l \in kLayers
    BY <1>2 DEF kLayers
  <2> QED
    BY <1>2, <2>1, Described DEF Entries
<1>3. ASSUME day = 3, hazard = "severe" PROVE Entries("Probability", day, hazard) # {}
  <2> DEFINE l == Descriptor("Probability", 3, "severe", 19)
  <2>1. l \in kLayers
    BY DEF kLayers
  <2> QED
    BY <1>3, <2>1, Described DEF Entries
<1>4. Forecast(day, hazard) => day <= 3
  BY DEF Forecast
<1>5. Forecast(day, hazard) => Entries("Probability", day, hazard) # {}
  BY <1>2, <1>3 DEF Forecast
<1> QED
  BY <1>1, <1>4, <1>5, FindsSome DEF Day1To3Probability

LEMMA ConditionalHazards ==
  ASSUME NEW day \in Int, NEW hazard
  PROVE  FindLayer("ConditionalIntensity", day, hazard) # <<>> <=> Forecast(day, hazard)
<1>1. ASSUME NEW l \in Entries("ConditionalIntensity", day, hazard) PROVE Forecast(day, hazard)
  BY LayerShapes DEF Entries, Shape, OfHazard, Forecast
<1>2. ASSUME NEW h \in Severe, day \in 1 .. 2, hazard = h[1]
      PROVE  Entries("ConditionalIntensity", day, hazard) # {}
  <2> DEFINE l == Descriptor("ConditionalIntensity", day, h[1], 8 * day - 6 + h[2])
  <2>1. l \in kLayers
    BY <1>2 DEF kLayers
  <2> QED
    BY <1>2, <2>1, Described DEF Entries
<1>3. ASSUME day = 3, hazard = "severe" PROVE Entries("ConditionalIntensity", day, hazard) # {}
  <2> DEFINE l == Descriptor("ConditionalIntensity", 3, "severe", 18)
  <2>1. l \in kLayers
    BY DEF kLayers
  <2> QED
    BY <1>3, <2>1, Described DEF Entries
<1>4. Forecast(day, hazard) => Entries("ConditionalIntensity", day, hazard) # {}
  BY <1>2, <1>3 DEF Forecast
<1> QED
  BY <1>1, <1>4, FindsSome

-----------------------------------------------------------------------------
(* The two sources of a product. *)

LEMMA SameArguments ==
  ASSUME NEW r \in Requests, r.method \in StaticMethods
  PROVE  StaticFeedAccepts(r) <=> LayersRead(r) # <<>>
<1>1. r.day \in Int
  BY RequestType
<1>2. CASE r.method = "categorical"
  <2>1. StaticFeedAccepts(r) <=> ~(r.day < 1 \/ r.day > 3)
    BY <1>2 DEF StaticFeedAccepts
  <2>2. LayersRead(r) = FindLayer("Categorical", r.day, Empty)
    BY <1>2 DEF LayersRead
  <2> QED
    BY <1>1, <2>1, <2>2, CategoricalDays
<1>3. CASE r.method = "probabilistic"
  BY <1>3 DEF StaticFeedAccepts, LayersRead
<1>4. CASE r.method = "day4_8"
  <2>1. StaticFeedAccepts(r) <=> ~(r.day < 4 \/ r.day > 8)
    BY <1>4 DEF StaticFeedAccepts
  <2>2. LayersRead(r) = IF r.day < 4 THEN <<>> ELSE FindLayer("Probability", r.day, "severe")
    BY <1>4 DEF LayersRead
  <2> QED
    BY <1>1, <2>1, <2>2, ExtendedDays
<1> QED
  BY <1>2, <1>3, <1>4 DEF StaticMethods

LEMMA OneFileOneLayer ==
  ASSUME NEW r \in Requests, NEW q \in Requests,
         r.method \in StaticMethods, q.method \in StaticMethods,
         StaticFile(q) # <<>>, StaticFile(r) = StaticFile(q)
  PROVE  LayersRead(r) = LayersRead(q)
<1>1. StaticFeedAccepts(r) /\ StaticFeedAccepts(q)
  BY DEF StaticFile
<1>2. /\ StaticFile(r)[1] = r.method /\ StaticFile(r)[2] = r.day
      /\ StaticFile(q)[1] = q.method /\ StaticFile(q)[2] = q.day
  BY <1>1 DEF StaticFile
<1>3. r.method = q.method /\ r.day = q.day /\ r.day \in Int
  BY <1>2, RequestType
<1>4. ASSUME r.method = "probabilistic"
      PROVE  NormalizedHazard(r.day, r.hazard) = NormalizedHazard(q.day, q.hazard)
  <2>1. /\ Forecast(r.day, NormalizedHazard(r.day, r.hazard))
        /\ Forecast(q.day, NormalizedHazard(q.day, q.hazard))
    BY <1>1, <1>3, <1>4, ProbabilityHazards DEF StaticFeedAccepts
  <2>2. CASE r.day = 3
    BY <1>3, <2>1, <2>2 DEF Forecast
  <2>3. CASE r.day # 3
    <3>1. StaticFile(r)[3] = r.hazard /\ StaticFile(q)[3] = q.hazard
      BY <1>1, <1>3, <1>4, <2>3 DEF StaticFile
    <3>2. r.hazard = q.hazard
      BY <3>1
    <3> QED
      BY <1>3, <3>2
  <2> QED
    BY <2>2, <2>3
<1>5. r.method \notin {"conditional_intensity", "active_md"}
  BY DEF StaticMethods
<1> QED
  BY <1>3, <1>4, <1>5, SameLayers

(***************************************************************************)
(* Whatever the days and hazards a caller may pass: StaticFeedClient's     *)
(* ranges and ArcGISClient's table take the same arguments, a file stands  *)
(* for one layer, and a hazard has a conditional intensity on the days     *)
(* that it has a probability on, and on no other.                          *)
(***************************************************************************)
THEOREM SourcesTakeTheSame == Requesting => []SourcesAgree
<1>1. request \in Requests => SourcesAgree
  <2> SUFFICES ASSUME request \in Requests PROVE SourcesAgree
    OBVIOUS
  <2>1. request.method \in StaticMethods =>
          (StaticFeedAccepts(request) <=> LayersRead(request) # <<>>)
    BY SameArguments
  <2>2. request.method \in StaticMethods =>
          \A r \in Requests :
            (r.method \in StaticMethods /\ StaticFile(request) # <<>>
               /\ StaticFile(r) = StaticFile(request))
            => LayersRead(r) = LayersRead(request)
    BY OneFileOneLayer
  <2>3. ASSUME request.method = "conditional_intensity"
        PROVE  (LayersRead(request) = <<>>)
                 <=> (LayersRead([request EXCEPT !.method = "probabilistic"]) = <<>>)
    <3> DEFINE other == [request EXCEPT !.method = "probabilistic"]
               hazard == NormalizedHazard(request.day, request.hazard)
    <3>1. other.method = "probabilistic" /\ other.day = request.day /\ other.hazard = request.hazard
      BY DEF Requests
    <3>2. LayersRead(request) = FindLayer("ConditionalIntensity", request.day, hazard)
      BY <2>3 DEF LayersRead
    <3> HIDE DEF other
    <3>3. LayersRead(other) = Day1To3Probability(request.day, hazard)
      BY <3>1 DEF LayersRead
    <3>4. request.day \in Int
      BY RequestType
    <3>5. LayersRead(request) = <<>> <=> LayersRead(other) = <<>>
      <4> HIDE DEF hazard
      <4> QED
        BY <3>2, <3>3, <3>4, ConditionalHazards, ProbabilityHazards
    <3> QED
      BY <3>5 DEF other
  <2> QED
    BY <2>1, <2>2, <2>3 DEF SourcesAgree
<1> QED
  BY <1>1, AlwaysARequest, PTL

-----------------------------------------------------------------------------
(* Sums and the preflight of a geometry, one element at a time. *)

Total(f, s, i) == IF i = 0 THEN 0 ELSE f[i - 1] + s[i]

SumsUp(f, s) == f = [i \in 0 .. Len(s) |-> Total(f, s, i)]

LEMMA SumsExist ==
  ASSUME NEW s, Len(s) \in Nat
  PROVE  \E f : SumsUp(f, s)
<1> DEFINE Defined == {k \in Nat : \E f : f = [i \in 0 .. k |-> Total(f, s, i)]}
<1>1. 0 \in Defined
  <2> DEFINE f == [i \in 0 .. 0 |-> 0]
  <2>1. \A i \in 0 .. 0 : Total(f, s, i) = 0
    BY DEF Total
  <2>2. f = [i \in 0 .. 0 |-> Total(f, s, i)]
    BY <2>1
  <2> HIDE DEF f
  <2> QED
    BY <2>2
<1>2. ASSUME NEW k \in Defined PROVE k + 1 \in Defined
  <2>1. PICK f : f = [i \in 0 .. k |-> Total(f, s, i)]
    OBVIOUS
  <2> DEFINE g == [i \in 0 .. k + 1 |-> Total(f, s, i)]
  <2>2. ASSUME NEW i \in 0 .. k + 1 PROVE Total(f, s, i) = Total(g, s, i)
    <3>1. CASE i = 0
      BY <3>1 DEF Total
    <3>2. CASE i # 0
      <4>1. i - 1 \in 0 .. k /\ i - 1 \in 0 .. k + 1
        BY <3>2
      <4>2. g[i - 1] = Total(f, s, i - 1)
        BY <4>1
      <4>3. f[i - 1] = Total(f, s, i - 1)
        BY <2>1, <4>1
      <4> HIDE DEF g
      <4> QED
        BY <3>2, <4>2, <4>3 DEF Total
    <3> QED
      BY <3>1, <3>2
  <2>3. g = [i \in 0 .. k + 1 |-> Total(g, s, i)]
    BY <2>2
  <2>4. \E h : h = [i \in 0 .. k + 1 |-> Total(h, s, i)]
    <3> HIDE DEF g
    <3> QED
      BY <2>3
  <2> QED
    BY <2>4
<1> HIDE DEF Defined
<1>3. Nat \subseteq Defined
  <2>1. Defined \in SUBSET Nat
    BY DEF Defined
  <2> QED
    BY <1>1, <1>2, <2>1, AllNaturals
<1>4. Len(s) \in Defined
  BY <1>3
<1> QED
  BY <1>4 DEF Defined, SumsUp

PartialSums(s) == CHOOSE f : SumsUp(f, s)

LEMMA SumLaws ==
  ASSUME NEW s, Len(s) \in Nat
  PROVE  /\ Sum(s) = PartialSums(s)[Len(s)]
         /\ PartialSums(s)[0] = 0
         /\ \A i \in 1 .. Len(s) : PartialSums(s)[i] = PartialSums(s)[i - 1] + s[i]
<1> DEFINE Defines(f) == f = [i \in 0 .. Len(s) |-> IF i = 0 THEN 0 ELSE f[i - 1] + s[i]]
           upTo == CHOOSE f : Defines(f)
<1>1. \E f : Defines(f)
  BY SumsExist DEF SumsUp, Total
<1>2. Sum(s) = upTo[Len(s)]
  BY DEF Sum
<1>3. PartialSums(s) = upTo
  BY DEF PartialSums, SumsUp, Total
<1> HIDE DEF Defines
<1>4. Defines(upTo)
  BY <1>1
<1> HIDE DEF upTo
<1>5. upTo = [i \in 0 .. Len(s) |-> IF i = 0 THEN 0 ELSE upTo[i - 1] + s[i]]
  BY <1>4 DEF Defines
<1>6. 0 \in 0 .. Len(s) /\ \A i \in 1 .. Len(s) : i \in 0 .. Len(s) /\ i # 0
  OBVIOUS
<1>7. upTo[0] = 0 /\ \A i \in 1 .. Len(s) : upTo[i] = upTo[i - 1] + s[i]
  BY <1>5, <1>6
<1> QED
  BY <1>2, <1>3, <1>7

(* Partial sums of natural numbers are natural numbers, and grow. *)
LEMMA PartialSumsType ==
  ASSUME NEW s, Len(s) \in Nat, NEW n \in 0 .. Len(s), \A i \in 1 .. n : s[i] \in Nat
  PROVE  \A i \in 0 .. n : PartialSums(s)[i] \in Nat
<1> DEFINE Good == {k \in Nat : k <= n => PartialSums(s)[k] \in Nat}
<1>1. 0 \in Good
  BY SumLaws
<1>2. ASSUME NEW k \in Good PROVE k + 1 \in Good
  <2>1. ASSUME k + 1 <= n PROVE PartialSums(s)[k + 1] \in Nat
    <3>1. k + 1 \in 1 .. Len(s) /\ k + 1 \in 1 .. n /\ (k + 1) - 1 = k
      BY <2>1
    <3>2. PartialSums(s)[k] \in Nat /\ s[k + 1] \in Nat
      BY <2>1, <3>1
    <3>3. PartialSums(s)[k + 1] = PartialSums(s)[k] + s[k + 1]
      BY <3>1, SumLaws
    <3> QED
      BY <3>2, <3>3
  <2> QED
    BY <2>1
<1> HIDE DEF Good
<1>3. Nat \subseteq Good
  <2>1. Good \in SUBSET Nat
    BY DEF Good
  <2> QED
    BY <1>1, <1>2, <2>1, AllNaturals
<1> QED
  BY <1>3 DEF Good

LEMMA SumsGrow ==
  ASSUME NEW s, Len(s) \in Nat, \A i \in 1 .. Len(s) : s[i] \in Nat
  PROVE  /\ Sum(s) \in Nat
         /\ \A i \in 0 .. Len(s) : PartialSums(s)[i] \in Nat /\ PartialSums(s)[i] <= Sum(s)
<1> DEFINE n == Len(s)
           Good == {k \in Nat : k <= n => PartialSums(s)[n - k] <= PartialSums(s)[n]}
<1>1. \A i \in 0 .. n : PartialSums(s)[i] \in Nat
  BY PartialSumsType
<1>2. 0 \in Good
  BY <1>1
<1>3. ASSUME NEW k \in Good PROVE k + 1 \in Good
  <2>1. ASSUME k + 1 <= n PROVE PartialSums(s)[n - (k + 1)] <= PartialSums(s)[n]
    <3>1. n - k \in 1 .. n /\ (n - k) - 1 = n - (k + 1) /\ n - (k + 1) \in 0 .. n
      BY <2>1
    <3>2. PartialSums(s)[n - k] <= PartialSums(s)[n]
      BY <2>1
    <3>3. PartialSums(s)[n - k] = PartialSums(s)[n - (k + 1)] + s[n - k]
      BY <3>1, SumLaws
    <3>4. s[n - k] \in Nat /\ PartialSums(s)[n - (k + 1)] \in Nat /\ PartialSums(s)[n] \in Nat
      BY <1>1, <3>1
    <3> QED
      BY <3>2, <3>3, <3>4
  <2> QED
    BY <2>1
<1> HIDE DEF Good
<1>4. Nat \subseteq Good
  <2>1. Good \in SUBSET Nat
    BY DEF Good
  <2> QED
    BY <1>2, <1>3, <2>1, AllNaturals
<1>5. ASSUME NEW i \in 0 .. n PROVE PartialSums(s)[i] <= PartialSums(s)[n]
  <2>1. n - i \in Good /\ n - i <= n /\ n - (n - i) = i
    BY <1>4
  <2> QED
    BY <2>1 DEF Good
<1> QED
  BY <1>1, <1>5, SumLaws

(* What the preflight leaves after the i-th ring. *)
Leaves(f, rings, left, i) ==
    IF i = 0 THEN left
    ELSE LET rest == f[i - 1]
         IN  IF AddedPoints(rings[i]) > rest THEN -1 ELSE rest - AddedPoints(rings[i])

GoesThrough(f, rings, left) == f = [i \in 0 .. Len(rings) |-> Leaves(f, rings, left, i)]

LEMMA PreflightExists ==
  ASSUME NEW rings, Len(rings) \in Nat, NEW left
  PROVE  \E f : GoesThrough(f, rings, left)
<1> DEFINE Defined == {k \in Nat : \E f : f = [i \in 0 .. k |-> Leaves(f, rings, left, i)]}
<1>1. 0 \in Defined
  <2> DEFINE f == [i \in 0 .. 0 |-> left]
  <2>1. \A i \in 0 .. 0 : Leaves(f, rings, left, i) = left
    BY DEF Leaves
  <2>2. f = [i \in 0 .. 0 |-> Leaves(f, rings, left, i)]
    BY <2>1
  <2> HIDE DEF f
  <2> QED
    BY <2>2
<1>2. ASSUME NEW k \in Defined PROVE k + 1 \in Defined
  <2>1. PICK f : f = [i \in 0 .. k |-> Leaves(f, rings, left, i)]
    OBVIOUS
  <2> DEFINE g == [i \in 0 .. k + 1 |-> Leaves(f, rings, left, i)]
  <2>2. ASSUME NEW i \in 0 .. k + 1 PROVE Leaves(f, rings, left, i) = Leaves(g, rings, left, i)
    <3>1. CASE i = 0
      BY <3>1 DEF Leaves
    <3>2. CASE i # 0
      <4>1. i - 1 \in 0 .. k /\ i - 1 \in 0 .. k + 1
        BY <3>2
      <4>2. g[i - 1] = Leaves(f, rings, left, i - 1)
        BY <4>1
      <4>3. f[i - 1] = Leaves(f, rings, left, i - 1)
        BY <2>1, <4>1
      <4>4. f[i - 1] = g[i - 1]
        BY <4>2, <4>3
      <4> HIDE DEF g
      <4> QED
        BY <3>2, <4>4 DEF Leaves
    <3> QED
      BY <3>1, <3>2
  <2>3. g = [i \in 0 .. k + 1 |-> Leaves(g, rings, left, i)]
    BY <2>2
  <2>4. \E h : h = [i \in 0 .. k + 1 |-> Leaves(h, rings, left, i)]
    <3> HIDE DEF g
    <3> QED
      BY <2>3
  <2> QED
    BY <2>4
<1> HIDE DEF Defined
<1>3. Nat \subseteq Defined
  <2>1. Defined \in SUBSET Nat
    BY DEF Defined
  <2> QED
    BY <1>1, <1>2, <2>1, AllNaturals
<1>4. Len(rings) \in Defined
  BY <1>3
<1> QED
  BY <1>4 DEF Defined, GoesThrough

(* What the rings cost. *)
Costs(rings) == [i \in DOMAIN rings |-> AddedPoints(rings[i])]

(* The preflight refuses a ring too many exactly if all of them together    *)
(* cost more than is left, and leaves the rest.                             *)
LEMMA PreflightLeaves ==
  ASSUME NEW S, NEW rings \in Seq(S), NEW left \in Nat,
         \A i \in DOMAIN rings : AddedPoints(rings[i]) \in Nat
  PROVE  /\ Sum(Costs(rings)) \in Nat
         /\ Preflight(rings, left) =
              IF Sum(Costs(rings)) > left THEN -1 ELSE left - Sum(Costs(rings))
<1> DEFINE n == Len(rings)
           costs == Costs(rings)
           Defines(f) ==
             f = [i \in 0 .. Len(rings) |->
                    IF i = 0 THEN left
                    ELSE LET rest == f[i - 1]
                         IN  IF AddedPoints(rings[i]) > rest THEN -1
                             ELSE rest - AddedPoints(rings[i])]
           after == CHOOSE f : Defines(f)
           upTo == PartialSums(costs)
<1>1. n \in Nat /\ DOMAIN rings = 1 .. n
  BY LenProperties
<1>2. costs \in [1 .. n -> Nat] /\ Len(costs) = n
  <2>1. costs \in [1 .. n -> Nat]
    BY <1>1 DEF Costs
  <2> QED
    BY <1>1, <2>1
<1>3. \E f : Defines(f)
  <2>1. PICK f : GoesThrough(f, rings, left)
    BY <1>1, PreflightExists
  <2>2. Defines(f)
    BY <2>1 DEF GoesThrough, Leaves
  <2> HIDE DEF Defines
  <2> QED
    BY <2>2
<1>4. Preflight(rings, left) = after[n]
  BY DEF Preflight
<1> HIDE DEF Defines
<1>5. Defines(after)
  BY <1>3
<1> HIDE DEF after
<1>6. \A i \in 0 .. n : after[i] = Leaves(after, rings, left, i)
  BY <1>5 DEF Defines, Leaves
<1>7. /\ upTo[0] = 0 /\ Sum(costs) = upTo[n]
      /\ \A i \in 1 .. n : upTo[i] = upTo[i - 1] + costs[i]
  BY <1>1, <1>2, SumLaws
<1>8. \A i \in 0 .. n : upTo[i] \in Nat
  <2>1. Len(costs) \in Nat /\ n \in 0 .. Len(costs) /\ \A i \in 1 .. n : costs[i] \in Nat
    BY <1>1, <1>2
  <2> HIDE DEF costs, n
  <2> QED
    BY <2>1, PartialSumsType
<1>9. \A i \in 1 .. n : costs[i] = AddedPoints(rings[i]) /\ costs[i] \in Nat
  BY <1>1, <1>2 DEF Costs
<1> HIDE DEF n, costs, upTo
<1> DEFINE Good == {k \in Nat : k <= n => after[k] = IF upTo[k] > left THEN -1 ELSE left - upTo[k]}
<1>10. 0 \in Good
  <2>1. after[0] = left
    BY <1>1, <1>6 DEF Leaves
  <2> QED
    BY <2>1, <1>7
<1>11. ASSUME NEW k \in Good PROVE k + 1 \in Good
  <2>1. ASSUME k + 1 <= n
        PROVE  after[k + 1] = IF upTo[k + 1] > left THEN -1 ELSE left - upTo[k + 1]
    <3>1. k + 1 \in 1 .. n /\ k + 1 \in 0 .. n /\ (k + 1) - 1 = k /\ k + 1 # 0 /\ k \in 0 .. n
      BY <2>1, <1>1
    <3>2. after[k] = IF upTo[k] > left THEN -1 ELSE left - upTo[k]
      BY <3>1
    <3>3. after[k + 1] = IF costs[k + 1] > after[k] THEN -1 ELSE after[k] - costs[k + 1]
      BY <1>6, <1>9, <3>1 DEF Leaves
    <3>4. upTo[k + 1] = upTo[k] + costs[k + 1] /\ upTo[k] \in Nat /\ costs[k + 1] \in Nat
      BY <1>7, <1>8, <1>9, <3>1
    <3> HIDE DEF Good
    <3> QED
      BY <3>2, <3>3, <3>4
  <2> QED
    BY <2>1
<1> HIDE DEF Good
<1>12. Nat \subseteq Good
  <2>1. Good \in SUBSET Nat
    BY DEF Good
  <2> QED
    BY <1>10, <1>11, <2>1, AllNaturals
<1>13. after[n] = IF upTo[n] > left THEN -1 ELSE left - upTo[n]
  BY <1>1, <1>12 DEF Good
<1> QED
  BY <1>1, <1>4, <1>7, <1>8, <1>13 DEF costs

-----------------------------------------------------------------------------
(* The edges of a ring, and how many steps they take. *)

Plane == Int \X Int

IsEdge(e) == e.a \in Plane /\ e.b \in Plane

LEMMA PlaneType ==
  ASSUME NEW p \in Plane
  PROVE  p[1] \in Int /\ p[2] \in Int
BY DEF Plane

LEMMA Wraps ==
  ASSUME NEW n \in Nat \ {0}, NEW i \in 1 .. n
  PROVE  (i % n) + 1 = IF i = n THEN 1 ELSE i + 1
OBVIOUS

LEMMA EdgesOfRing ==
  ASSUME NEW ring \in Seq(Plane), NEW i \in DOMAIN ring
  PROVE  /\ Len(ring) \in Nat \ {0} /\ i \in 1 .. Len(ring) /\ DOMAIN Edges(ring) = DOMAIN ring
         /\ Following(ring, i) = IF i = Len(ring) THEN ring[1] ELSE ring[i + 1]
         /\ Edges(ring)[i].a = ring[i] /\ Edges(ring)[i].b = Following(ring, i)
         /\ IsEdge(Edges(ring)[i])
<1>1. Len(ring) \in Nat \ {0} /\ i \in 1 .. Len(ring) /\ DOMAIN ring = 1 .. Len(ring)
  BY LenProperties
<1>2. Following(ring, i) = IF i = Len(ring) THEN ring[1] ELSE ring[i + 1]
  BY <1>1, Wraps DEF Following
<1>3. DOMAIN Edges(ring) = DOMAIN ring /\ Edges(ring)[i] = [a |-> ring[i], b |-> Following(ring, i)]
  BY DEF Edges
<1>4. \A k \in 1 .. Len(ring) : ring[k] \in Plane
  BY ElementOfSeq
<1>5. ring[i] \in Plane /\ Following(ring, i) \in Plane
  <2>1. 1 \in 1 .. Len(ring) /\ (i # Len(ring) => i + 1 \in 1 .. Len(ring))
    BY <1>1
  <2> QED
    BY <1>1, <1>2, <1>4, <2>1
<1> QED
  BY <1>1, <1>2, <1>3, <1>5 DEF IsEdge

LEMMA CeilingLaws ==
  ASSUME NEW h \in Nat \ {0}, NEW d \in Nat \ {0}, NEW k, k = (h + d - 1) \div d
  PROVE  /\ k \in Nat \ {0} /\ h <= k * d
         /\ k - 1 = (h - 1) \div d /\ (h - 1) \div d \in Nat
<1>1. (h - 1) \div d \in Nat
  OBVIOUS
<1>2. (h + d - 1) \div d = (h - 1) \div d + 1
  OBVIOUS
<1>3. h <= k * d
  OBVIOUS
<1> QED
  BY <1>1, <1>2, <1>3

LEMMA HeightOfEdge ==
  ASSUME NEW e, IsEdge(e)
  PROVE  /\ e.a[1] \in Int /\ e.a[2] \in Int /\ e.b[1] \in Int /\ e.b[2] \in Int
         /\ Height(e) \in Nat
         /\ ~AxisAligned(e) => Height(e) # 0
BY PlaneType DEF IsEdge, Height, Magnitude, AxisAligned

LEMMA StepsOfEdge ==
  ASSUME NEW e, IsEdge(e)
  PROVE  /\ Steps(e) \in Nat \ {0}
         /\ AxisAligned(e) => Steps(e) = 1
         /\ ~AxisAligned(e) => /\ Height(e) <= Steps(e) * StepHeight
                               /\ Steps(e) = (Height(e) + StepHeight - 1) \div StepHeight
                               /\ Steps(e) - 1 = (Height(e) - 1) \div StepHeight
<1>1. StepHeight \in Nat \ {0}
  BY GeometryAssumption
<1>2. CASE AxisAligned(e)
  BY <1>2 DEF Steps
<1>3. CASE ~AxisAligned(e)
  <2> DEFINE k == (Height(e) + StepHeight - 1) \div StepHeight
  <2>1. Height(e) \in Nat \ {0}
    BY <1>3, HeightOfEdge
  <2>2. /\ k \in Nat \ {0} /\ Height(e) <= k * StepHeight
        /\ k - 1 = (Height(e) - 1) \div StepHeight
    BY <1>1, <2>1, CeilingLaws
  <2>3. Steps(e) = AtLeastOne(k)
    BY <1>3 DEF Steps
  <2> HIDE DEF k
  <2>4. Steps(e) = k
    BY <2>2, <2>3 DEF AtLeastOne
  <2> QED
    BY <1>3, <2>2, <2>4 DEF k
<1> QED
  BY <1>2, <1>3

(* What an outer ring needs is what the preflight counts. *)
LEMMA NeededIsAdded ==
  ASSUME NEW ring \in Seq(Plane)
  PROVE  /\ Needed(ring) = AddedPoints(ring)
         /\ AddedPoints(ring) \in Nat
<1> DEFINE added == [i \in DOMAIN ring |-> Steps(Edges(ring)[i]) - 1]
           needed == [i \in DOMAIN ring |->
                        LET e == Edges(ring)[i]
                        IN  IF AxisAligned(e) THEN 0 ELSE (Height(e) - 1) \div StepHeight]
<1>1. ASSUME NEW i \in DOMAIN ring
      PROVE  /\ Steps(Edges(ring)[i]) - 1 \in Nat
             /\ Steps(Edges(ring)[i]) - 1 = LET e == Edges(ring)[i]
                                            IN  IF AxisAligned(e) THEN 0
                                                ELSE (Height(e) - 1) \div StepHeight
  <2>1. IsEdge(Edges(ring)[i])
    BY EdgesOfRing
  <2> QED
    BY <2>1, StepsOfEdge
<1>2. added = needed
  BY <1>1
<1>3. added \in [1 .. Len(ring) -> Nat] /\ Len(ring) \in Nat
  BY <1>1, LenProperties
<1>4. Needed(ring) = Sum(needed) /\ AddedPoints(ring) = Sum(added)
  BY DEF Needed, AddedPoints
<1> HIDE DEF added, needed
<1>5. Len(added) = Len(ring) /\ \A i \in 1 .. Len(added) : added[i] \in Nat
  BY <1>3
<1>6. Sum(added) \in Nat
  BY <1>3, <1>5, SumsGrow
<1> QED
  BY <1>2, <1>4, <1>6

-----------------------------------------------------------------------------
(* The outer rings of a geometry. *)

LEMMA GoodRing ==
  ASSUME NEW ring \in Seq(Points), ~Contains(ring, Bad)
  PROVE  ring \in Seq(Plane)
<1>1. Len(ring) \in Nat /\ ring \in [1 .. Len(ring) -> Points]
  BY LenProperties
<1>2. \A i \in 1 .. Len(ring) : ring[i] # Bad
  BY DEF Contains
<1>3. \A i \in 1 .. Len(ring) : ring[i] \in Plane
  BY <1>1, <1>2 DEF Points, Plane
<1>4. ring \in [1 .. Len(ring) -> Plane]
  BY <1>1, <1>3
<1> QED
  BY <1>1, <1>4, SeqDef

LEMMA MembersOfSeq ==
  ASSUME NEW S, NEW s \in Seq(S)
  PROVE  /\ Len(s) \in Nat /\ DOMAIN s = 1 .. Len(s)
         /\ \A i \in DOMAIN s : s[i] \in S /\ s[i] \in ToSet(s)
         /\ \A x \in ToSet(s) : x \in S /\ \E i \in DOMAIN s : s[i] = x
<1>1. Len(s) \in Nat /\ DOMAIN s = 1 .. Len(s) /\ \A i \in 1 .. Len(s) : s[i] \in S
  BY LenProperties, ElementOfSeq
<1> QED
  BY <1>1 DEF ToSet

(* A sequence by its elements. *)
LEMMA SeqOfElements ==
  ASSUME NEW S, NEW T, NEW s \in Seq(S), \A i \in DOMAIN s : s[i] \in T
  PROVE  s \in Seq(T)
<1>1. Len(s) \in Nat /\ s \in [1 .. Len(s) -> S] /\ DOMAIN s = 1 .. Len(s)
  BY LenProperties
<1>2. s \in [1 .. Len(s) -> T]
  BY <1>1
<1> QED
  BY <1>1, <1>2, SeqDef

OuterPart(ring) == IF ring = <<>> \/ IsHole(ring) THEN <<>> ELSE <<ring>>

OuterParts(rings) == [i \in DOMAIN rings |-> OuterPart(rings[i])]

LEMMA OuterPartType ==
  ASSUME NEW R, NEW ring \in R
  PROVE  OuterPart(ring) \in Seq(R)
BY EmptySeq DEF OuterPart

LEMMA OuterType ==
  ASSUME NEW R, NEW rings \in Seq(R)
  PROVE  /\ OuterParts(rings) \in Seq(Seq(R))
         /\ OuterRings(rings) = FlattenSeq(OuterParts(rings))
         /\ OuterRings(rings) \in Seq(R)
<1> DEFINE parts == OuterParts(rings)
<1>1. Len(rings) \in Nat /\ DOMAIN rings = 1 .. Len(rings) /\ \A i \in DOMAIN rings : rings[i] \in R
  BY MembersOfSeq
<1>2. \A i \in DOMAIN rings : OuterPart(rings[i]) \in Seq(R)
  BY <1>1, OuterPartType
<1>3. parts \in Seq(Seq(R))
  <2> DEFINE T == Seq(R)
  <2>1. parts \in [1 .. Len(rings) -> T]
    BY <1>1, <1>2 DEF OuterParts
  <2> HIDE DEF parts, T
  <2>2. parts \in Seq(T)
    BY <1>1, <2>1, SeqDef
  <2> QED
    BY <2>2 DEF T
<1>4. OuterRings(rings) = FlattenSeq(parts)
  BY DEF OuterRings, OuterParts, OuterPart
<1> QED
  BY <1>3, <1>4, FlattenType

(* What a geometry costs is the sum over its outer rings. *)
Cost(rings) == Sum(Costs(OuterRings(rings)))

LEMMA PreflightOfOuter ==
  ASSUME NEW rings \in Seq(Seq(Plane)), NEW left \in Nat
  PROVE  /\ Cost(rings) \in Nat
         /\ Preflight(OuterRings(rings), left) =
              IF Cost(rings) > left THEN -1 ELSE left - Cost(rings)
<1> DEFINE outer == OuterRings(rings)
           S == Seq(Plane)
<1>1. outer \in Seq(S)
  BY OuterType
<1>2. \A i \in DOMAIN outer : AddedPoints(outer[i]) \in Nat
  <2>1. \A i \in DOMAIN outer : outer[i] \in S
    BY <1>1, MembersOfSeq
  <2> QED
    BY <2>1, NeededIsAdded
<1> HIDE DEF outer, S
<1>3. /\ Sum(Costs(outer)) \in Nat
      /\ Preflight(outer, left) = IF Sum(Costs(outer)) > left THEN -1 ELSE left - Sum(Costs(outer))
  BY <1>1, <1>2, PreflightLeaves
<1> QED
  BY <1>3 DEF outer, Cost

-----------------------------------------------------------------------------
(* What reading a feature comes to. *)

IsMercatorIn(g, reference) == ReferenceOf(g, reference) = "mercator"

(* The causes for which a geometry is refused, but for the points it needs. *)
Refused(g, reference) ==
    \/ ReferenceOf(g, reference) = "unsupported"
    \/ \E r \in ToSet(g.rings) :
         \/ Contains(r, Bad)
         \/ /\ IsMercatorIn(g, reference)
            /\ ~OnTheMap(r)

AsRead(g, reference, ring) == IF IsMercatorIn(g, reference) THEN Converted(ring) ELSE Degrees(ring)

LEMMA RingsAreRead ==
  ASSUME NEW rings, NEW left
  PROVE  /\ Rings(rings, left).ok = TRUE /\ Rings(rings, left).rings = rings
         /\ Rings(rings, left).left = left
         /\ Failure.ok = FALSE
BY DEF Rings, Failure

LEMMA NotRefused ==
  ASSUME NEW g, NEW reference, g.rings \in Seq(Seq(Points)), ~Refused(g, reference)
  PROVE  g.rings \in Seq(Seq(Plane))
<1> DEFINE T == Seq(Points)
           U == Seq(Plane)
<1>1. \A i \in DOMAIN g.rings : g.rings[i] \in T /\ g.rings[i] \in ToSet(g.rings)
  <2> g.rings \in Seq(T)
    OBVIOUS
  <2> HIDE DEF T
  <2> QED
    BY MembersOfSeq
<1>2. \A i \in DOMAIN g.rings : g.rings[i] \in U
  BY <1>1, GoodRing DEF Refused
<1>3. g.rings \in Seq(T)
  OBVIOUS
<1> HIDE DEF T, U
<1>4. g.rings \in Seq(U)
  BY <1>2, <1>3, SeqOfElements
<1> QED
  BY <1>4 DEF U

LEMMA EsriReads ==
  ASSUME NEW g, NEW reference, NEW left \in Nat, g.rings \in Seq(Seq(Points))
  PROVE  LET read == ReadEsri(g, reference, left)
             cost == IF IsMercatorIn(g, reference) THEN Cost(g.rings) ELSE 0
             outer == OuterRings(g.rings)
         IN  /\ Refused(g, reference) => read.ok = FALSE
             /\ ~Refused(g, reference) =>
                  /\ g.rings \in Seq(Seq(Plane))
                  /\ cost \in Nat
                  /\ cost > left => read.ok = FALSE
                  /\ cost <= left =>
                       /\ read.ok = TRUE
                       /\ read.left = left - cost
                       /\ read.rings = [i \in DOMAIN outer |-> AsRead(g, reference, outer[i])]
<1> DEFINE read == ReadEsri(g, reference, left)
           outer == OuterRings(g.rings)
           rest == Preflight(outer, left)
           converted == [i \in DOMAIN outer |-> Converted(outer[i])]
           degrees == [i \in DOMAIN outer |-> Degrees(outer[i])]
           all == [i \in DOMAIN outer |-> AsRead(g, reference, outer[i])]
<1>1. read = IF Refused(g, reference) THEN Failure
             ELSE IF ~IsMercatorIn(g, reference) THEN Rings(degrees, left)
             ELSE IF rest < 0 THEN Failure
             ELSE Rings(converted, rest)
  BY DEF ReadEsri, Refused, IsMercatorIn
<1>2. IsMercatorIn(g, reference) => all = converted
  BY DEF AsRead
<1>3. ~IsMercatorIn(g, reference) => all = degrees
  BY DEF AsRead
<1>4. Refused(g, reference) => read.ok = FALSE
  BY <1>1, RingsAreRead
<1>5. ASSUME ~Refused(g, reference)
      PROVE  /\ g.rings \in Seq(Seq(Plane)) /\ Cost(g.rings) \in Nat
             /\ rest = IF Cost(g.rings) > left THEN -1 ELSE left - Cost(g.rings)
  <2>1. g.rings \in Seq(Seq(Plane))
    BY <1>5, NotRefused
  <2> QED
    BY ONLY <2>1, left \in Nat, PreflightOfOuter DEF rest, outer
<1> HIDE DEF outer, read, rest, converted, degrees, all
<1>6. ASSUME ~Refused(g, reference), ~IsMercatorIn(g, reference)
      PROVE  read.ok = TRUE /\ read.left = left /\ read.rings = all
  <2>1. read = Rings(degrees, left) /\ all = degrees
    BY ONLY <1>1, <1>3, <1>6
  <2>2. /\ Rings(degrees, left).ok = TRUE /\ Rings(degrees, left).rings = degrees
        /\ Rings(degrees, left).left = left
    BY DEF Rings
  <2> QED
    BY ONLY <2>1, <2>2
<1>7. ASSUME ~Refused(g, reference), IsMercatorIn(g, reference), Cost(g.rings) > left
      PROVE  read.ok = FALSE
  <2>1. rest < 0
    BY <1>5, <1>7
  <2>2. read = Failure
    BY <1>1, <1>7, <2>1
  <2> QED
    BY <2>2, RingsAreRead
<1>8. ASSUME ~Refused(g, reference), IsMercatorIn(g, reference), Cost(g.rings) <= left
      PROVE  read.ok = TRUE /\ read.left = left - Cost(g.rings) /\ read.rings = all
  <2>1. Cost(g.rings) \in Nat /\ rest = left - Cost(g.rings) /\ ~(rest < 0)
    BY <1>5, <1>8
  <2>2. read = Rings(converted, rest)
    BY <1>1, <1>8, <2>1
  <2> QED
    BY <1>2, <1>8, <2>1, <2>2, RingsAreRead
<1> DEFINE cost == IF IsMercatorIn(g, reference) THEN Cost(g.rings) ELSE 0
<1>9. ASSUME ~Refused(g, reference)
      PROVE  /\ g.rings \in Seq(Seq(Plane))
             /\ cost \in Nat
             /\ cost > left => read.ok = FALSE
             /\ cost <= left => read.ok = TRUE /\ read.left = left - cost /\ read.rings = all
  <2>1. CASE IsMercatorIn(g, reference)
    <3>1. cost = Cost(g.rings)
      BY <2>1
    <3> HIDE DEF cost
    <3> QED
      BY <1>5, <1>7, <1>8, <1>9, <2>1, <3>1
  <2>2. CASE ~IsMercatorIn(g, reference)
    <3>1. cost = 0
      BY <2>2
    <3> HIDE DEF cost
    <3>2. left - cost = left /\ ~(cost > left) /\ cost \in Nat
      BY <3>1
    <3> QED
      BY <1>5, <1>6, <1>9, <2>2, <3>2
  <2> QED
    BY <2>1, <2>2
<1> HIDE DEF cost
<1> QED
  BY <1>4, <1>9 DEF read, all, cost, outer

LEMMA EsriIsRead ==
  ASSUME NEW f, IsEsri(f)
  PROVE  ReadRings(f) = ReadEsri(f.geometry, response.reference, remaining)
BY DEF ReadRings, IsEsri, Read

LEMMA NothingIsRead ==
  ASSUME NEW left
  PROVE  Rings(<<>>, left).ok = TRUE /\ Rings(<<>>, left).left = left
BY DEF Rings

LEMMA GeoJsonIsRead ==
  ASSUME NEW g, NEW left
  PROVE  ReadGeoJson(g, left).ok = TRUE /\ ReadGeoJson(g, left).left = left
<1> DEFINE outer == NonEmpty(g.polygons)
           rings == [i \in DOMAIN outer |-> Degrees(GoodPoints(outer[i][1]))]
           read == ReadGeoJson(g, left)
<1>1. read = [ok |-> TRUE, rings |-> rings, left |-> left]
  BY DEF ReadGeoJson, Rings
<1> HIDE DEF rings, read
<1>2. read.ok = TRUE /\ read.left = left
  BY <1>1
<1> QED
  BY <1>2 DEF read

LEMMA OthersAreRead ==
  ASSUME NEW f, ~IsEsri(f)
  PROVE  ReadRings(f).ok = TRUE /\ ReadRings(f).left = remaining
<1> DEFINE g == f.geometry
           kind == response.product.kind
<1>1. CASE kind = "storm_reports"
  <2>1. ReadRings(f) = Rings(<<>>, remaining)
    BY <1>1 DEF ReadRings
  <2> QED
    BY <2>1, NothingIsRead
<1>2. CASE kind # "storm_reports" /\ g.shape = "esri"
  <2>1. kind \in {"categorical", "probabilistic"}
    BY <1>2 DEF IsEsri
  <2>2. ReadRings(f) = Rings(<<>>, remaining)
    BY <1>2, <2>1 DEF ReadRings
  <2> QED
    BY <2>2, NothingIsRead
<1>3. CASE kind # "storm_reports" /\ g.shape # "esri"
  <2>1. ReadRings(f) = Read(g, response.reference, remaining)
    BY <1>3 DEF ReadRings
  <2>2. CASE g.shape = "geojson"
    <3>1. ReadRings(f) = ReadGeoJson(g, remaining)
      BY <2>1, <2>2 DEF Read
    <3> QED
      BY <3>1, GeoJsonIsRead
  <2>3. CASE g.shape # "geojson"
    <3>1. ReadRings(f) = Rings(<<>>, remaining)
      BY <1>3, <2>1, <2>3 DEF Read
    <3> QED
      BY <3>1, NothingIsRead
  <2> QED
    BY <2>2, <2>3
<1> QED
  BY <1>1, <1>2, <1>3

LEMMA EsriRingsType ==
  ASSUME response \in Responses, NEW f \in ToSet(response.features), IsEsri(f)
  PROVE  f.geometry.rings \in Seq(Seq(Points))
BY ResponsesAssumption DEF IsEsri

(* What a record takes from the budget. *)
CostOf(f) == IF IsMercator(f) THEN Cost(f.geometry.rings) ELSE 0

(* A record is read unless it is refused or takes more than remains. *)
LEMMA FeatureIsRead ==
  ASSUME response \in Responses, remaining \in Nat, NEW f \in ToSet(response.features)
  PROVE  LET refused == IsEsri(f) /\ Refused(f.geometry, response.reference)
         IN  /\ refused => ReadRings(f).ok = FALSE
             /\ ~refused =>
                  /\ CostOf(f) \in Nat
                  /\ CostOf(f) > remaining => ReadRings(f).ok = FALSE
                  /\ CostOf(f) <= remaining => /\ ReadRings(f).ok = TRUE
                                               /\ ReadRings(f).left = remaining - CostOf(f)
<1>1. ASSUME ~IsEsri(f)
      PROVE  /\ CostOf(f) \in Nat /\ ~(CostOf(f) > remaining)
             /\ ReadRings(f).ok = TRUE /\ ReadRings(f).left = remaining - CostOf(f)
  <2>1. CostOf(f) = 0
    BY <1>1 DEF CostOf, IsMercator
  <2>2. ReadRings(f).ok = TRUE /\ ReadRings(f).left = remaining
    BY <1>1, OthersAreRead
  <2>3. remaining - CostOf(f) = remaining /\ ~(CostOf(f) > remaining) /\ CostOf(f) \in Nat
    BY <2>1
  <2> QED
    BY <2>2, <2>3
<1>2. CASE IsEsri(f)
  <2> DEFINE g == f.geometry
             reference == response.reference
             read == ReadEsri(g, reference, remaining)
             cost == IF IsMercatorIn(g, reference) THEN Cost(g.rings) ELSE 0
             outer == OuterRings(g.rings)
  <2>1. ReadRings(f) = read
    BY <1>2, EsriIsRead
  <2>2. CostOf(f) = cost
    BY <1>2 DEF CostOf, IsMercator, IsMercatorIn
  <2>3. g.rings \in Seq(Seq(Points))
    BY <1>2, EsriRingsType
  <2>4. /\ Refused(g, reference) => read.ok = FALSE
        /\ ~Refused(g, reference) =>
             /\ g.rings \in Seq(Seq(Plane))
             /\ cost \in Nat
             /\ cost > remaining => read.ok = FALSE
             /\ cost <= remaining =>
                  /\ read.ok = TRUE
                  /\ read.left = remaining - cost
                  /\ read.rings = [i \in DOMAIN outer |-> AsRead(g, reference, outer[i])]
    <3> HIDE DEF g, reference
    <3> QED
      BY <2>3, EsriReads
  <2> HIDE DEF cost, read, outer
  <2>5. /\ Refused(g, reference) => ReadRings(f).ok = FALSE
        /\ ~Refused(g, reference) =>
             /\ CostOf(f) \in Nat
             /\ CostOf(f) > remaining => ReadRings(f).ok = FALSE
             /\ CostOf(f) <= remaining => /\ ReadRings(f).ok = TRUE
                                          /\ ReadRings(f).left = remaining - CostOf(f)
    BY <2>1, <2>2, <2>4
  <2> QED
    BY <1>2, <2>5
<1> QED
  BY <1>1, <1>2

-----------------------------------------------------------------------------
(* Types: the payload is a sequence, of records that were read before. *)

IsSequence(s) == \E S : s \in Seq(S)

Reading ==
    /\ TypeOK
    /\ response \in Responses
    /\ IsSequence(features)
    /\ \A i \in DOMAIN features : features[i].index \in 1 .. next - 1

LEMMA FeatureType ==
  ASSUME response \in Responses
  PROVE  /\ Len(response.features) \in Nat
         /\ DOMAIN response.features = 1 .. Len(response.features)
         /\ \A i \in 1 .. Len(response.features) : response.features[i] \in ToSet(response.features)
<1>1. response.features \in Seq(ToSet(response.features))
  BY ResponsesAssumption
<1> QED
  BY <1>1, MembersOfSeq

LEMMA WithItemType ==
  ASSUME IsSequence(features), NEW rings
  PROVE  LET item == Item(response.product, Feature)
             new == [index |-> next, item |-> item, rings |-> rings]
         IN  /\ IsSequence(WithItem(rings))
             /\ Len(features) \in Nat
             /\ DOMAIN features = 1 .. Len(features)
             /\ \/ WithItem(rings) = features
                \/ /\ DOMAIN WithItem(rings) = 1 .. Len(features) + 1
                   /\ \A i \in 1 .. Len(features) : WithItem(rings)[i] = features[i]
                   /\ WithItem(rings)[Len(features) + 1] = new
<1> DEFINE item == Item(response.product, Feature)
           new == [index |-> next, item |-> item, rings |-> rings]
<1>1. PICK S : features \in Seq(S)
  BY DEF IsSequence
<1>2. WithItem(rings) = IF Keeps(response.product, item, rings) THEN Append(features, new)
                        ELSE features
  BY DEF WithItem
<1> HIDE DEF new
<1>3. Len(features) \in Nat /\ DOMAIN features = 1 .. Len(features)
  BY <1>1, LenProperties
<1> DEFINE T == S \cup {new}
           u == Append(features, new)
<1>4. features \in Seq(T) /\ new \in T
  <2>1. \A i \in DOMAIN features : features[i] \in T
    BY <1>1, MembersOfSeq
  <2> HIDE DEF T
  <2>2. features \in Seq(T)
    BY <1>1, <2>1, SeqOfElements
  <2> QED
    BY <2>2 DEF T
<1> HIDE DEF T
<1>5. /\ u \in Seq(T) /\ Len(u) = Len(features) + 1
      /\ \A i \in 1 .. Len(features) : u[i] = features[i]
      /\ u[Len(features) + 1] = new
  BY <1>4, AppendProperties
<1> HIDE DEF u
<1>6. DOMAIN u = 1 .. Len(features) + 1
  BY <1>5, LenProperties
<1>7. WithItem(rings) = features \/ WithItem(rings) = u
  BY <1>2 DEF u
<1>8. IsSequence(u) /\ IsSequence(features)
  BY <1>1, <1>5 DEF IsSequence
<1> QED
  BY <1>3, <1>5, <1>6, <1>7, <1>8 DEF new

LEMMA ReadingStarts == Init => Reading
<1> SUFFICES ASSUME Init PROVE Reading
  OBVIOUS
<1>1. response \in Responses /\ status = "reading" /\ next = 1 /\ remaining = MaxAdded /\ features = <<>>
  BY DEF Init
<1>2. Len(response.features) \in Nat
  BY <1>1, FeatureType
<1>3. next \in 1 .. Len(response.features) + 1
  BY <1>1, <1>2
<1>4. remaining \in 0 .. MaxAdded
  BY <1>1, GeometryAssumption
<1>5. IsSequence(features) /\ DOMAIN features = {}
  <2>1. <<>> \in Seq({})
    BY EmptySeq
  <2> QED
    BY <1>1, <2>1 DEF IsSequence
<1> QED
  BY <1>1, <1>3, <1>4, <1>5 DEF Reading, TypeOK

LEMMA ReadingGoesOn == Reading /\ [Next]_vars => Reading'
<1> SUFFICES ASSUME Reading, [Next]_vars PROVE Reading'
  OBVIOUS
<1>1. /\ response \in Responses /\ IsSequence(features)
      /\ status \in {"reading", "done", "failed"}
      /\ next \in 1 .. Len(response.features) + 1 /\ Len(response.features) \in Nat
      /\ remaining \in 0 .. MaxAdded /\ MaxAdded \in Nat /\ remaining \in Nat
      /\ \A i \in DOMAIN features : features[i].index \in 1 .. next - 1
  BY FeatureType, GeometryAssumption DEF Reading, TypeOK
<1>2. ASSUME More
      PROVE  /\ next \in 1 .. Len(response.features)
             /\ next + 1 \in 1 .. Len(response.features) + 1
             /\ Feature \in ToSet(response.features)
             /\ \A i \in DOMAIN features : features[i].index \in 1 .. next
  <2>1. next \in 1 .. Len(response.features) /\ next + 1 \in 1 .. Len(response.features) + 1
    BY <1>1, <1>2 DEF More
  <2>2. \A i \in DOMAIN features : features[i].index \in 1 .. next
    BY <1>1
  <2> QED
    BY <1>1, <2>1, <2>2, FeatureType DEF Feature
<1>3. CASE SkipFeature
  <2>1. /\ next' = next + 1 /\ response' = response /\ status' = status
        /\ remaining' = remaining /\ features' = features
    BY <1>3 DEF SkipFeature
  <2>2. next + 1 \in 1 .. Len(response.features) + 1 /\ (next + 1) - 1 = next
    BY <1>1, <1>2, <1>3 DEF SkipFeature
  <2>3. \A i \in DOMAIN features : features[i].index \in 1 .. next /\ features[i].index < next + 1
    BY <1>1, <1>2, <1>3 DEF SkipFeature
  <2> QED
    BY <1>1, <2>1, <2>2, <2>3 DEF Reading, TypeOK
<1>4. CASE ReadFeature
  <2> DEFINE rings == ReadRings(Feature).rings
  <2>1. /\ More /\ ReadRings(Feature).ok /\ remaining' = ReadRings(Feature).left
        /\ next' = next + 1 /\ response' = response /\ status' = status
        /\ features' = WithItem(rings)
    BY <1>4 DEF ReadFeature
  <2>2. /\ next + 1 \in 1 .. Len(response.features) + 1 /\ (next + 1) - 1 = next
        /\ next \in 1 .. next /\ next < next + 1
        /\ \A k \in 1 .. next : k < next + 1
    BY <1>1, <1>2, <2>1
  <2>3. remaining' \in 0 .. MaxAdded
    <3>1. CostOf(Feature) \in Nat /\ ReadRings(Feature).left = remaining - CostOf(Feature)
          /\ CostOf(Feature) <= remaining
      <4> DEFINE refused == IsEsri(Feature) /\ Refused(Feature.geometry, response.reference)
      <4>1. /\ refused => ReadRings(Feature).ok = FALSE
            /\ ~refused => /\ CostOf(Feature) \in Nat
                           /\ CostOf(Feature) > remaining => ReadRings(Feature).ok = FALSE
                           /\ CostOf(Feature) <= remaining =>
                                /\ ReadRings(Feature).ok = TRUE
                                /\ ReadRings(Feature).left = remaining - CostOf(Feature)
        BY <1>1, <1>2, <2>1, FeatureIsRead
      <4> HIDE DEF refused
      <4>2. CostOf(Feature) \in Nat /\ ~(CostOf(Feature) > remaining)
        BY <2>1, <4>1
      <4>3. CostOf(Feature) <= remaining
        BY <1>1, <4>2
      <4> QED
        BY <2>1, <4>1, <4>2, <4>3
    <3> QED
      BY <1>1, <2>1, <3>1
  <2> HIDE DEF rings
  <2>4. IsSequence(features') /\ \A i \in DOMAIN features' : features'[i].index \in 1 .. next
    <3> DEFINE new == [index |-> next, item |-> Item(response.product, Feature), rings |-> rings]
    <3>1. /\ IsSequence(features') /\ Len(features) \in Nat /\ DOMAIN features = 1 .. Len(features)
          /\ \/ features' = features
             \/ /\ DOMAIN features' = 1 .. Len(features) + 1
                /\ \A i \in 1 .. Len(features) : features'[i] = features[i]
                /\ features'[Len(features) + 1] = new
      BY <1>1, <2>1, WithItemType
    <3>2. new.index = next
      OBVIOUS
    <3> HIDE DEF new
    <3>3. \A i \in DOMAIN features : features[i].index \in 1 .. next
      BY <1>2, <2>1
    <3>4. CASE features' = features
      BY <3>1, <3>3, <3>4
    <3>5. CASE features' # features
      <4>1. \A i \in 1 .. Len(features) + 1 : i \in 1 .. Len(features) \/ i = Len(features) + 1
        BY <3>1
      <4> QED
        BY <2>2, <3>1, <3>2, <3>3, <3>5, <4>1
    <3> QED
      BY <3>4, <3>5
  <2> QED
    BY <1>1, <2>1, <2>2, <2>3, <2>4 DEF Reading, TypeOK
<1>5. CASE FailFeature
  <2>1. /\ status' = "failed" /\ features' = <<>> /\ next' = next /\ remaining' = remaining
        /\ response' = response
    BY <1>5 DEF FailFeature
  <2>2. IsSequence(<<>>) /\ DOMAIN <<>> = {}
    <3>1. <<>> \in Seq({})
      BY EmptySeq
    <3> QED
      BY <3>1 DEF IsSequence
  <2> QED
    BY <1>1, <2>1, <2>2 DEF Reading, TypeOK
<1>6. CASE Finish
  BY <1>1, <1>6 DEF Finish, Reading, TypeOK
<1>7. CASE UNCHANGED vars
  BY <1>1, <1>7 DEF vars, Reading, TypeOK
<1> QED
  BY <1>3, <1>4, <1>5, <1>6, <1>7 DEF Next

(* The loop keeps its index within the response, and never gives back more   *)
(* of the budget of added points than there is, however the geometries of    *)
(* all records share it (PayloadGeometryParser's remaining_added_points_).   *)
THEOREM LoopIsTyped == Spec => []TypeOK
<1>1. Spec => []Reading
  BY ReadingStarts, ReadingGoesOn, PTL DEF Spec
<1>2. Reading => TypeOK
  BY DEF Reading
<1> QED
  BY <1>1, <1>2, PTL

-----------------------------------------------------------------------------
(* The outer rings of a published area are the first rings of its polygons. *)

LEMMA OuterConcat ==
  ASSUME NEW R, NEW s \in Seq(R), NEW t \in Seq(R)
  PROVE  OuterRings(s \o t) = OuterRings(s) \o OuterRings(t)
<1> DEFINE T == Seq(R)
           u == OuterParts(s)
           v == OuterParts(t)
           w == OuterParts(s \o t)
<1>1. s \o t \in Seq(R) /\ Len(s \o t) = Len(s) + Len(t)
      /\ \A i \in 1 .. Len(s) + Len(t) : (s \o t)[i] = IF i <= Len(s) THEN s[i] ELSE t[i - Len(s)]
  BY ConcatProperties
<1>2. u \in Seq(T) /\ v \in Seq(T) /\ w \in Seq(T)
  BY <1>1, OuterType
<1>3. /\ OuterRings(s) = FlattenSeq(u) /\ OuterRings(t) = FlattenSeq(v)
      /\ OuterRings(s \o t) = FlattenSeq(w)
  BY <1>1, OuterType
<1>4. /\ Len(s) \in Nat /\ DOMAIN s = 1 .. Len(s) /\ Len(t) \in Nat /\ DOMAIN t = 1 .. Len(t)
      /\ DOMAIN (s \o t) = 1 .. Len(s) + Len(t)
  BY <1>1, LenProperties
<1>5. /\ DOMAIN u = 1 .. Len(s) /\ DOMAIN v = 1 .. Len(t) /\ DOMAIN w = 1 .. Len(s) + Len(t)
      /\ \A i \in 1 .. Len(s) : u[i] = OuterPart(s[i])
      /\ \A i \in 1 .. Len(t) : v[i] = OuterPart(t[i])
      /\ \A i \in 1 .. Len(s) + Len(t) : w[i] = OuterPart((s \o t)[i])
  BY <1>4 DEF OuterParts
<1> HIDE DEF T, u, v, w
<1>6. Len(u) = Len(s) /\ Len(v) = Len(t) /\ Len(w) = Len(s) + Len(t)
  BY <1>2, <1>4, <1>5, LenProperties
<1>7. /\ u \o v \in Seq(T) /\ Len(u \o v) = Len(s) + Len(t)
      /\ \A i \in 1 .. Len(s) + Len(t) : (u \o v)[i] = IF i <= Len(s) THEN u[i] ELSE v[i - Len(s)]
  <2>1. /\ u \o v \in Seq(T) /\ Len(u \o v) = Len(u) + Len(v)
        /\ \A i \in 1 .. Len(u) + Len(v) : (u \o v)[i] = IF i <= Len(u) THEN u[i] ELSE v[i - Len(u)]
    BY <1>2, ConcatProperties
  <2> QED
    BY <1>6, <2>1
<1>8. ASSUME NEW i \in 1 .. Len(w) PROVE w[i] = (u \o v)[i]
  <2>1. i \in 1 .. Len(s) + Len(t)
    BY <1>6
  <2>2. CASE i <= Len(s)
    <3>1. i \in 1 .. Len(s)
      BY <1>4, <2>1, <2>2
    <3> QED
      BY <1>1, <1>5, <1>7, <2>1, <2>2, <3>1
  <2>3. CASE ~(i <= Len(s))
    <3>1. i - Len(s) \in 1 .. Len(t)
      BY <1>4, <2>1, <2>3
    <3> QED
      BY <1>1, <1>5, <1>7, <2>1, <2>3, <3>1
  <2> QED
    BY <2>2, <2>3
<1>9. w = u \o v
  <2>1. Len(w) = Len(u \o v)
    BY <1>6, <1>7
  <2> QED
    BY <1>2, <1>7, <1>8, <2>1, SeqEqual
<1>10. FlattenSeq(u \o v) = FlattenSeq(u) \o FlattenSeq(v)
  BY <1>2, FlattenConcat DEF T
<1> QED
  BY <1>3, <1>9, <1>10

LEMMA OuterOfOne ==
  ASSUME NEW R, NEW ring \in R, ring # <<>>, ~IsHole(ring)
  PROVE  OuterRings(<<ring>>) = <<ring>>
<1>1. <<ring>> \in Seq(R)
  OBVIOUS
<1>2. OuterParts(<<ring>>) = <<<<ring>>>>
  BY DEF OuterParts, OuterPart
<1>3. OuterRings(<<ring>>) = FlattenSeq(<<<<ring>>>>)
  BY <1>1, <1>2, OuterType
<1>4. FlattenSeq(Append(<<>>, <<ring>>)) = FlattenSeq(<<>>) \o <<ring>>
  <2> DEFINE none == <<>>
  <2>1. none \in Seq(Seq(R))
    OBVIOUS
  <2> HIDE DEF none
  <2>2. FlattenSeq(Append(none, <<ring>>)) = FlattenSeq(none) \o <<ring>>
    BY <1>1, <2>1, FlattenAppend
  <2> QED
    BY <2>2 DEF none
<1>5. Append(<<>>, <<ring>>) = <<<<ring>>>>
  OBVIOUS
<1>6. <<>> \o <<ring>> = <<ring>>
  OBVIOUS
<1> QED
  BY <1>3, <1>4, <1>5, <1>6, FlattenNothing

LEMMA OuterOfHoles ==
  ASSUME NEW R, NEW rings \in Seq(R), \A i \in DOMAIN rings : IsHole(rings[i])
  PROVE  OuterRings(rings) = <<>>
<1> DEFINE parts == OuterParts(rings)
           flat == FlattenSeq(parts)
<1>1. parts \in Seq(Seq(R)) /\ OuterRings(rings) = flat /\ flat \in Seq(R)
  BY OuterType, FlattenType
<1>2. \A i \in DOMAIN parts : parts[i] = <<>>
  BY DEF OuterParts, OuterPart
<1>3. \A i \in DOMAIN parts : ToSet(parts[i]) = {}
  <2>1. ToSet(<<>>) = {}
    BY DEF ToSet
  <2> HIDE DEF parts
  <2> QED
    BY <1>2, <2>1
<1> HIDE DEF parts
<1>4. \A x : x \notin ToSet(flat)
  BY <1>1, <1>3, FlattenMembers
<1> HIDE DEF flat
<1>5. Len(flat) \in Nat /\ DOMAIN flat = 1 .. Len(flat) /\ DOMAIN flat = {}
  BY <1>1, <1>4, MembersOfSeq
<1>6. Len(flat) = 0
  <2>1. Len(flat) # 0 => 1 \in 1 .. Len(flat)
    BY <1>5
  <2> QED
    BY <1>5, <2>1
<1> QED
  BY <1>1, <1>6, EmptySeq

(* A clockwise ring and its holes. *)
IsPolygon(p) ==
    /\ p # <<>> /\ p[1] # <<>> /\ ~IsHole(p[1])
    /\ \A j \in 2 .. Len(p) : IsHole(p[j])

LEMMA OuterOfPolygon ==
  ASSUME NEW R, NEW p \in Seq(R), IsPolygon(p)
  PROVE  OuterRings(p) = <<p[1]>>
<1> DEFINE rest == Tail(p)
<1>1. /\ Len(p) \in Nat \ {0} /\ DOMAIN p = 1 .. Len(p) /\ \A i \in 1 .. Len(p) : p[i] \in R
      /\ p # <<>>
  <2>1. p # <<>>
    BY DEF IsPolygon
  <2>2. Len(p) # 0
    BY <2>1, EmptySeq
  <2> QED
    BY <2>1, <2>2, MembersOfSeq
<1>2. /\ rest \in Seq(R) /\ Len(rest) = Len(p) - 1
      /\ \A i \in 1 .. Len(p) - 1 : rest[i] = p[i + 1]
  BY <1>1, HeadTailProperties
<1> HIDE DEF rest
<1>3. OuterRings(rest) = <<>>
  <2>1. ASSUME NEW i \in DOMAIN rest PROVE IsHole(rest[i])
    <3>1. i \in 1 .. Len(p) - 1
      BY <1>2, LenProperties
    <3>2. i + 1 \in 2 .. Len(p) /\ rest[i] = p[i + 1]
      BY <1>1, <1>2, <3>1
    <3> QED
      BY <3>2 DEF IsPolygon
  <2> QED
    BY <1>2, <2>1, OuterOfHoles
<1>4. p[1] \in R /\ <<p[1]>> \in Seq(R)
  BY <1>1
<1>5. OuterRings(<<p[1]>>) = <<p[1]>>
  BY <1>4, OuterOfOne DEF IsPolygon
<1>6. p = <<p[1]>> \o rest
  <2> DEFINE first == <<p[1]>>
  <2>1. Len(first) = 1 /\ first[1] = p[1] /\ first \in Seq(R)
    BY <1>4
  <2> HIDE DEF first
  <2>2. /\ first \o rest \in Seq(R) /\ Len(first \o rest) = Len(p)
        /\ \A i \in 1 .. Len(p) : (first \o rest)[i] = IF i <= 1 THEN first[i] ELSE rest[i - 1]
    <3>1. /\ first \o rest \in Seq(R) /\ Len(first \o rest) = Len(first) + Len(rest)
          /\ \A i \in 1 .. Len(first) + Len(rest) :
               (first \o rest)[i] = IF i <= Len(first) THEN first[i] ELSE rest[i - Len(first)]
      <4>1. first \in Seq(R) /\ rest \in Seq(R)
        BY <1>2, <2>1
      <4> QED
        BY ONLY <4>1, ConcatProperties
    <3>2. Len(first) + Len(rest) = Len(p)
      BY <1>1, <1>2, <2>1
    <3> QED
      BY <2>1, <3>1, <3>2
  <2>3. ASSUME NEW i \in 1 .. Len(p) PROVE p[i] = (first \o rest)[i]
    <3>1. CASE i = 1
      BY <2>1, <2>2, <3>1
    <3>2. CASE i # 1
      <4>1. i - 1 \in 1 .. Len(p) - 1 /\ (i - 1) + 1 = i /\ ~(i <= 1)
        BY <1>1, <3>2
      <4> QED
        BY <1>2, <2>2, <4>1
    <3> QED
      BY <3>1, <3>2
  <2>4. p = first \o rest
    BY <2>2, <2>3, SeqEqual
  <2> QED
    BY <2>4 DEF first
<1>7. OuterRings(p) = <<p[1]>> \o <<>>
  <2>1. OuterRings(<<p[1]>> \o rest) = OuterRings(<<p[1]>>) \o OuterRings(rest)
    BY <1>2, <1>4, OuterConcat
  <2> QED
    BY <1>3, <1>5, <1>6, <2>1
<1> QED
  BY <1>4, <1>7, ConcatEmptySeq

FirstRings(area) == [i \in DOMAIN area |-> area[i][1]]

LEMMA WoundPolygons ==
  ASSUME NEW area
  PROVE  Wound(area) <=> \A i \in DOMAIN area : IsPolygon(area[i])
BY DEF Wound, IsPolygon

LEMMA OuterOfArea ==
  ASSUME NEW R, NEW area \in Seq(Seq(R)), Wound(area)
  PROVE  OuterRings(FlattenSeq(area)) = FirstRings(area)
<1> DEFINE T == Seq(R)
           Good(aa) == Wound(aa) => OuterRings(FlattenSeq(aa)) = FirstRings(aa)
           Holds == {k \in Nat : \A aa \in Seq(T) : Len(aa) = k => Good(aa)}
<1>1. 0 \in Holds
  <2>1. ASSUME NEW aa \in Seq(T), Len(aa) = 0 PROVE Good(aa)
    <3>1. aa = <<>>
      BY <2>1, EmptySeq
    <3>2. FlattenSeq(aa) = <<>> /\ <<>> \in Seq(R)
      BY <3>1, FlattenNothing, EmptySeq
    <3>3. \A i \in DOMAIN <<>> : IsHole(<<>>[i])
      OBVIOUS
    <3>4. OuterRings(<<>>) = <<>>
      <4>1. OuterParts(<<>>) = <<>>
        BY DEF OuterParts
      <4> QED
        BY <4>1, <3>2, OuterType, FlattenNothing
    <3>5. FirstRings(aa) = <<>>
      BY <3>1 DEF FirstRings
    <3> QED
      BY <3>2, <3>4, <3>5
  <2> HIDE DEF Good, T
  <2> QED
    BY <2>1
<1>2. ASSUME NEW k \in Holds PROVE k + 1 \in Holds
  <2>1. ASSUME NEW aa \in Seq(T), Len(aa) = k + 1, Wound(aa)
        PROVE  OuterRings(FlattenSeq(aa)) = FirstRings(aa)
    <3>1. PICK bb \in Seq(T), p \in T : aa = Append(bb, p)
      <4>1. aa # <<>>
        BY <2>1
      <4> HIDE DEF T
      <4> QED
        BY <4>1, SequenceEmptyOrAppend
    <3>2. /\ Len(bb) \in Nat /\ DOMAIN bb = 1 .. Len(bb) /\ Len(aa) = Len(bb) + 1
          /\ DOMAIN aa = 1 .. Len(bb) + 1
          /\ \A i \in 1 .. Len(bb) : aa[i] = bb[i]
          /\ aa[Len(bb) + 1] = p
      <4> HIDE DEF T
      <4> QED
        <5>1. Len(bb) \in Nat /\ DOMAIN bb = 1 .. Len(bb)
          BY LenProperties
        <5>2. /\ aa \in Seq(T) /\ Len(aa) = Len(bb) + 1
              /\ \A i \in 1 .. Len(bb) : aa[i] = bb[i]
              /\ aa[Len(bb) + 1] = p
          BY <3>1, AppendProperties
        <5>3. DOMAIN aa = 1 .. Len(aa)
          BY <5>2, LenProperties
        <5> QED
          BY <5>1, <5>2, <5>3
    <3>3. Len(bb) = k
      <4>1. k \in Nat
        OBVIOUS
      <4> HIDE DEF Holds, T
      <4>2. Len(bb) \in Nat /\ Len(aa) = k + 1 /\ Len(aa) = Len(bb) + 1
        BY <2>1, <3>2
      <4> QED
        BY ONLY <4>1, <4>2
    <3>4. Wound(bb) /\ IsPolygon(p)
      <4>1. \A i \in DOMAIN bb : i \in DOMAIN aa /\ aa[i] = bb[i]
        BY <3>2
      <4>2. Len(bb) + 1 \in DOMAIN aa
        BY <3>2
      <4> QED
        BY <2>1, <3>2, <4>1, <4>2, WoundPolygons
    <3>5. OuterRings(FlattenSeq(bb)) = FirstRings(bb)
      BY <3>3, <3>4
    <3>6. FlattenSeq(aa) = FlattenSeq(bb) \o p
      BY <3>1, FlattenAppend
    <3>7. OuterRings(FlattenSeq(bb) \o p) = OuterRings(FlattenSeq(bb)) \o OuterRings(p)
      BY FlattenType, OuterConcat
    <3>8. OuterRings(p) = <<p[1]>>
      BY <3>4, OuterOfPolygon
    <3>9. FirstRings(bb) \in Seq(R) /\ p[1] \in R
      <4>1. OuterRings(FlattenSeq(bb)) \in Seq(R)
        BY FlattenType, OuterType
      <4>2. OuterRings(p) \in Seq(R)
        BY OuterType
      <4>3. <<p[1]>> \in Seq(R)
        BY <3>8, <4>2
      <4>4. p[1] \in R
        BY <4>3
      <4> QED
        BY <3>5, <4>1, <4>4
    <3>10. FirstRings(aa) = Append(FirstRings(bb), p[1])
      <4> DEFINE u == FirstRings(bb)
                 r == p[1]
      <4>1. Len(u) = Len(bb) /\ u \in Seq(R) /\ r \in R
        BY <3>2, <3>9, LenProperties DEF FirstRings
      <4>2. \A i \in 1 .. Len(bb) : u[i] = aa[i][1]
        BY <3>2 DEF FirstRings
      <4> HIDE DEF u
      <4>3. /\ Append(u, r) \in Seq(R) /\ Len(Append(u, r)) = Len(bb) + 1
            /\ \A i \in 1 .. Len(bb) : Append(u, r)[i] = u[i]
            /\ Append(u, r)[Len(bb) + 1] = r
        BY <4>1, AppendProperties
      <4>4. DOMAIN Append(u, r) = 1 .. Len(bb) + 1
        BY <4>3, LenProperties
      <4>5. \A i \in 1 .. Len(bb) + 1 : i \in 1 .. Len(bb) \/ i = Len(bb) + 1
        BY <3>2
      <4>6. \A i \in 1 .. Len(bb) + 1 : Append(u, r)[i] = aa[i][1]
        BY <3>2, <4>2, <4>3, <4>5
      <4>7. Append(u, r) = [i \in 1 .. Len(bb) + 1 |-> Append(u, r)[i]]
        BY <4>3, <4>4
      <4> QED
        BY <3>2, <4>6, <4>7 DEF FirstRings, u
    <3>11. Append(FirstRings(bb), p[1]) = FirstRings(bb) \o <<p[1]>>
      BY <3>9, AppendIsConcat
    <3> QED
      BY <3>5, <3>6, <3>7, <3>8, <3>10, <3>11
  <2> HIDE DEF T
  <2> QED
    BY <2>1
<1> HIDE DEF Holds
<1>3. Nat \subseteq Holds
  <2>1. Holds \in SUBSET Nat
    BY DEF Holds
  <2> QED
    BY <1>1, <1>2, <2>1, AllNaturals
<1>4. Len(area) \in Holds /\ area \in Seq(T)
  BY <1>3, LenProperties
<1>5. Good(area)
  <2> HIDE DEF Good, T
  <2> QED
    BY <1>4 DEF Holds
<1> QED
  BY <1>5

-----------------------------------------------------------------------------
(* What the published record says of reading it. *)

LEMMA PublishedArea ==
  ASSUME response \in Responses, NEW f \in ToSet(response.features), IsEsri(f)
  PROVE  /\ f.area \in Seq(Seq(Seq(Points)))
         /\ f.geometry.rings = FlattenSeq(f.area)
         /\ HasBadPoint(f.area) \/ Wound(f.area)
         /\ Skips(response.product, f) => f.skipped
BY PublishedAssumption DEF IsEsri

LEMMA RefusedRings ==
  ASSUME NEW R, NEW rings \in Seq(Seq(R)), NEW mercator
  PROVE  (\E r \in ToSet(rings) : Contains(r, Bad) \/ (mercator /\ ~OnTheMap(r)))
           <=> \E r \in ToSet(rings) : \E pt \in ToSet(r) :
                 \/ pt = Bad
                 \/ mercator /\ \E c \in {1, 2} : ~(Magnitude(pt[c]) <= Extent)
<1> DEFINE T == Seq(R)
<1>1. \A r \in ToSet(rings) : r \in Seq(R)
  <2>1. rings \in Seq(T)
    OBVIOUS
  <2> HIDE DEF T
  <2>2. \A r \in ToSet(rings) : r \in T
    BY <2>1, MembersOfSeq
  <2> QED
    BY <2>2 DEF T
<1>2. ASSUME NEW r \in ToSet(rings)
      PROVE  Contains(r, Bad) <=> \E pt \in ToSet(r) : pt = Bad
  <2>1. DOMAIN r = 1 .. Len(r)
    BY <1>1, MembersOfSeq
  <2> QED
    BY <2>1 DEF Contains, ToSet
<1>3. ASSUME NEW r \in ToSet(rings)
      PROVE  ~OnTheMap(r) <=> \E pt \in ToSet(r) : \E c \in {1, 2} : ~(Magnitude(pt[c]) <= Extent)
  BY DEF OnTheMap
<1> QED
  BY <1>2, <1>3

(* The parser refuses a geometry exactly if its area cannot be used. *)
LEMMA ReadableIsNotRefused ==
  ASSUME response \in Responses, NEW f \in ToSet(response.features), IsEsri(f)
  PROVE  Readable(f) <=> ~Refused(f.geometry, response.reference)
<1> DEFINE reference == response.reference
           mercator == IsMercatorIn(f.geometry, reference)
           Usable(pt) == /\ pt # Bad
                         /\ mercator => \A c \in {1, 2} : Magnitude(pt[c]) <= Extent
<1>1. f.area \in Seq(Seq(Seq(Points))) /\ f.geometry.rings = FlattenSeq(f.area)
  BY PublishedArea
<1>2. f.geometry.rings \in Seq(Seq(Points))
  BY EsriRingsType
<1>3. ASSUME NEW ring
      PROVE  ring \in ToSet(f.geometry.rings) <=> \E i \in DOMAIN f.area : ring \in ToSet(f.area[i])
  <2> DEFINE S == Seq(Points)
  <2>1. f.area \in Seq(Seq(S))
    BY <1>1
  <2> HIDE DEF S
  <2> QED
    BY <1>1, <2>1, FlattenMembers
<1>4. IsMercator(f) <=> mercator
  BY DEF IsMercator, IsMercatorIn
<1>5. Readable(f) <=> /\ ReferenceOf(f.geometry, reference) # "unsupported"
                      /\ \A i \in DOMAIN f.area : \A ring \in ToSet(f.area[i]) :
                           \A pt \in ToSet(ring) : Usable(pt)
  BY <1>4 DEF Readable
<1>6. Refused(f.geometry, reference)
        <=> \/ ReferenceOf(f.geometry, reference) = "unsupported"
            \/ \E r \in ToSet(f.geometry.rings) : \E pt \in ToSet(r) : ~Usable(pt)
  <2>1. Refused(f.geometry, reference)
          <=> \/ ReferenceOf(f.geometry, reference) = "unsupported"
              \/ \E r \in ToSet(f.geometry.rings) : Contains(r, Bad) \/ (mercator /\ ~OnTheMap(r))
    BY DEF Refused
  <2>2. (\E r \in ToSet(f.geometry.rings) : Contains(r, Bad) \/ (mercator /\ ~OnTheMap(r)))
          <=> \E r \in ToSet(f.geometry.rings) : \E pt \in ToSet(r) :
                \/ pt = Bad
                \/ mercator /\ \E c \in {1, 2} : ~(Magnitude(pt[c]) <= Extent)
    <3> DEFINE rings == f.geometry.rings
    <3>1. rings \in Seq(Seq(Points))
      BY <1>2
    <3> HIDE DEF mercator, rings
    <3>2. (\E r \in ToSet(rings) : Contains(r, Bad) \/ (mercator /\ ~OnTheMap(r)))
            <=> \E r \in ToSet(rings) : \E pt \in ToSet(r) :
                  \/ pt = Bad
                  \/ mercator /\ \E c \in {1, 2} : ~(Magnitude(pt[c]) <= Extent)
      BY ONLY <3>1, RefusedRings
    <3> QED
      BY ONLY <3>2 DEF rings
  <2> HIDE DEF mercator
  <2>3. \A pt : ~Usable(pt) <=> \/ pt = Bad
                                \/ mercator /\ \E c \in {1, 2} : ~(Magnitude(pt[c]) <= Extent)
    BY Zenon
  <2> HIDE DEF Usable
  <2> QED
    BY <2>1, <2>2, <2>3
<1> HIDE DEF Usable
<1> QED
  BY <1>3, <1>5, <1>6

LEMMA ReadableArea ==
  ASSUME response \in Responses, NEW f \in ToSet(response.features), IsEsri(f), Readable(f)
  PROVE  /\ Wound(f.area)
         /\ OuterRings(f.geometry.rings) = FirstRings(f.area)
         /\ DOMAIN f.area = 1 .. Len(f.area) /\ Len(f.area) \in Nat
         /\ \A i \in DOMAIN f.area : f.area[i][1] \in Seq(Plane)
<1> DEFINE S == Seq(Points)
           T == Seq(S)
           area == f.area
<1>1. area \in Seq(T) /\ f.geometry.rings = FlattenSeq(area) /\ (HasBadPoint(area) \/ Wound(area))
  BY PublishedArea
<1>2. \A i \in DOMAIN area : \A ring \in ToSet(area[i]) : \A pt \in ToSet(ring) : pt # Bad
  BY DEF Readable
<1>3. \A i \in DOMAIN area : area[i] \in T
  <2> HIDE DEF T, area
  <2> QED
    BY <1>1, MembersOfSeq
<1>4. \A i \in DOMAIN area : \A ring \in ToSet(area[i]) : ring \in S /\ ~Contains(ring, Bad)
  <2>1. ASSUME NEW i \in DOMAIN area, NEW ring \in ToSet(area[i])
        PROVE  ring \in S /\ ~Contains(ring, Bad)
    <3>1. ring \in S
      <4>1. area[i] \in Seq(S)
        BY <1>3
      <4> HIDE DEF S, T, area
      <4> QED
        BY <4>1, MembersOfSeq
    <3>2. DOMAIN ring = 1 .. Len(ring)
      BY <3>1, MembersOfSeq
    <3>3. \A k \in 1 .. Len(ring) : ring[k] # Bad
      <4>1. \A k \in 1 .. Len(ring) : ring[k] \in ToSet(ring)
        BY <3>2 DEF ToSet
      <4> QED
        BY <1>2, <4>1
    <3> QED
      BY <3>1, <3>3 DEF Contains
  <2> QED
    BY <2>1
<1>5. Wound(area)
  <2>1. ~HasBadPoint(area)
    <3> HIDE DEF area
    <3> QED
      BY <1>4 DEF HasBadPoint
  <2> QED
    BY <1>1, <2>1
<1>6. OuterRings(FlattenSeq(area)) = FirstRings(area)
  <2> HIDE DEF S, area
  <2>1. area \in Seq(Seq(S))
    BY <1>1
  <2> QED
    BY <1>5, <2>1, OuterOfArea
<1>7. ASSUME NEW i \in DOMAIN area PROVE area[i][1] \in Seq(Plane)
  <2>1. area[i] # <<>> /\ area[i] \in Seq(S)
    BY <1>3, <1>5 DEF Wound
  <2> HIDE DEF S, T, area
  <2>2. Len(area[i]) \in Nat /\ DOMAIN area[i] = 1 .. Len(area[i]) /\ Len(area[i]) # 0
    BY <2>1, LenProperties, EmptySeq
  <2>3. 1 \in DOMAIN area[i]
    BY <2>2
  <2>4. area[i][1] \in ToSet(area[i])
    BY <2>3 DEF ToSet
  <2>5. area[i][1] \in S /\ ~Contains(area[i][1], Bad)
    BY <1>4, <2>4
  <2> QED
    BY <2>5, GoodRing DEF S
<1>8. DOMAIN area = 1 .. Len(area) /\ Len(area) \in Nat
  <2> HIDE DEF T, area
  <2> QED
    BY <1>1, LenProperties
<1> QED
  BY <1>1, <1>5, <1>6, <1>7, <1>8

(* A record takes what its area needs. *)
LEMMA NeededIsCost ==
  ASSUME response \in Responses, NEW f \in ToSet(response.features), Readable(f),
         ~Skips(response.product, f)
  PROVE  NeededBy(f) = CostOf(f)
<1>1. ~f.skipped
  BY PublishedAssumption
<1>2. CASE ~IsMercator(f)
  BY <1>2 DEF NeededBy, CostOf
<1>3. CASE IsMercator(f)
  <2> DEFINE needed == [i \in DOMAIN f.area |-> Needed(f.area[i][1])]
             first == FirstRings(f.area)
  <2>1. IsEsri(f)
    BY <1>3 DEF IsMercator
  <2>2. OuterRings(f.geometry.rings) = first
    BY <2>1, ReadableArea
  <2>3. CostOf(f) = Sum(Costs(first))
    BY <1>3, <2>2 DEF CostOf, Cost
  <2>4. NeededBy(f) = Sum(needed)
    BY <1>1, <1>3 DEF NeededBy
  <2>5. \A i \in DOMAIN f.area : Needed(f.area[i][1]) = AddedPoints(f.area[i][1])
    BY <2>1, ReadableArea, NeededIsAdded
  <2>6. Costs(first) = needed
    BY <2>5 DEF Costs, FirstRings
  <2> QED
    BY <2>3, <2>4, <2>6
<1> QED
  BY <1>2, <1>3

(* So says whether reading a record succeeds, and what it leaves. *)
LEMMA ReadsIfReadable ==
  ASSUME response \in Responses, remaining \in Nat, NEW f \in ToSet(response.features),
         ~Skips(response.product, f)
  PROVE  /\ ReadRings(f).ok => Readable(f)
         /\ Readable(f) => NeededBy(f) \in Nat
         /\ (Readable(f) /\ NeededBy(f) <= remaining) =>
              ReadRings(f).ok /\ ReadRings(f).left = remaining - NeededBy(f)
         /\ (Readable(f) /\ NeededBy(f) > remaining) => ~ReadRings(f).ok
<1> DEFINE refused == IsEsri(f) /\ Refused(f.geometry, response.reference)
<1>1. /\ refused => ReadRings(f).ok = FALSE
      /\ ~refused => /\ CostOf(f) \in Nat
                     /\ CostOf(f) > remaining => ReadRings(f).ok = FALSE
                     /\ CostOf(f) <= remaining => /\ ReadRings(f).ok = TRUE
                                                  /\ ReadRings(f).left = remaining - CostOf(f)
  BY FeatureIsRead
<1>2. Readable(f) <=> ~refused
  <2>1. CASE IsEsri(f)
    BY <2>1, ReadableIsNotRefused
  <2>2. CASE ~IsEsri(f)
    BY <2>2 DEF Readable
  <2> QED
    BY <2>1, <2>2
<1>3. Readable(f) => NeededBy(f) = CostOf(f)
  BY NeededIsCost
<1> HIDE DEF refused
<1> QED
  BY <1>1, <1>2, <1>3

-----------------------------------------------------------------------------
(* The account of the budget, record by record. *)

Charges(r) == [i \in DOMAIN r.features |-> NeededBy(r.features[i])]

Accepted(f) == f.skipped \/ Readable(f)

(* What was read could be, and is paid for; a failure had its cause. *)
Accounted ==
    /\ \A k \in 1 .. next - 1 : Accepted(response.features[k])
    /\ remaining = MaxAdded - PartialSums(Charges(response))[next - 1]
    /\ status = "done" => next = Len(response.features) + 1
    /\ status = "failed" =>
         /\ next <= Len(response.features)
         /\ ~Feature.skipped
         /\ ~Readable(Feature) \/ NeededBy(Feature) > remaining

LEMMA AcceptedCharge ==
  ASSUME response \in Responses, remaining \in Nat, NEW f \in ToSet(response.features), Accepted(f)
  PROVE  NeededBy(f) \in Nat
<1>1. CASE f.skipped \/ ~IsMercator(f)
  BY <1>1 DEF NeededBy
<1>2. CASE ~f.skipped /\ IsMercator(f)
  <2>1. IsEsri(f) /\ Readable(f)
    BY <1>2 DEF IsMercator, Accepted
  <2>2. ~Skips(response.product, f)
    BY <1>2, <2>1, PublishedArea
  <2> QED
    BY <2>1, <2>2, ReadsIfReadable
<1> QED
  BY <1>1, <1>2

(* A record whose geometry is not read needs nothing of it. *)
LEMMA SkippedCharge ==
  ASSUME response \in Responses, NEW f \in ToSet(response.features), Skips(response.product, f)
  PROVE  Accepted(f) /\ NeededBy(f) = 0
<1>1. CASE f.skipped
  BY <1>1 DEF Accepted, NeededBy
<1>2. CASE ~f.skipped
  <2>1. ~IsEsri(f)
    BY <1>2, PublishedArea
  <2> QED
    BY <2>1 DEF Accepted, Readable, NeededBy, IsMercator
<1> QED
  BY <1>1, <1>2

LEMMA ChargesType ==
  ASSUME response \in Responses
  PROVE  /\ Len(Charges(response)) = Len(response.features)
         /\ Len(response.features) \in Nat
         /\ \A i \in 1 .. Len(response.features) :
              Charges(response)[i] = NeededBy(response.features[i])
         /\ PartialSums(Charges(response))[0] = 0
         /\ \A i \in 1 .. Len(response.features) :
              PartialSums(Charges(response))[i]
                = PartialSums(Charges(response))[i - 1] + NeededBy(response.features[i])
<1> DEFINE c == Charges(response)
           n == Len(response.features)
<1>1. n \in Nat /\ DOMAIN response.features = 1 .. n
  BY FeatureType
<1>2. /\ Len(c) = n
      /\ \A i \in 1 .. n : c[i] = NeededBy(response.features[i])
  BY <1>1 DEF Charges
<1> HIDE DEF c, n
<1>3. PartialSums(c)[0] = 0 /\ \A i \in 1 .. n : PartialSums(c)[i] = PartialSums(c)[i - 1] + c[i]
  BY <1>1, <1>2, SumLaws
<1> QED
  BY <1>1, <1>2, <1>3 DEF c, n

(* None of this changes while a response is parsed. *)
LEMMA SameJudgement ==
  ASSUME response' = response
  PROVE  /\ \A f : IsEsri(f)' <=> IsEsri(f)
         /\ \A f : IsMercator(f)' <=> IsMercator(f)
         /\ \A f : Readable(f)' <=> Readable(f)
         /\ \A f : NeededBy(f)' = NeededBy(f)
<1>1. ASSUME NEW f PROVE IsEsri(f)' <=> IsEsri(f)
  BY DEF IsEsri
<1>2. ASSUME NEW f PROVE IsMercator(f)' <=> IsMercator(f)
  BY <1>1 DEF IsMercator
<1>3. ASSUME NEW f PROVE Readable(f)' <=> Readable(f)
  BY <1>1, <1>2 DEF Readable
<1>4. ASSUME NEW f PROVE NeededBy(f)' = NeededBy(f)
  BY <1>2 DEF NeededBy
<1> QED
  BY <1>1, <1>2, <1>3, <1>4

LEMMA SameAccount ==
  ASSUME response' = response
  PROVE  /\ \A k : Accepted(response.features[k])' <=> Accepted(response.features[k])
         /\ Charges(response)' = Charges(response)
<1>1. ASSUME NEW k PROVE Accepted(response.features[k])' <=> Accepted(response.features[k])
  BY SameJudgement DEF Accepted
<1>2. Charges(response)' = Charges(response)
  BY SameJudgement DEF Charges
<1> QED
  BY <1>1, <1>2

LEMMA AccountStarts == Init => Accounted
<1> SUFFICES ASSUME Init PROVE Accounted
  OBVIOUS
<1>1. response \in Responses /\ status = "reading" /\ next = 1 /\ remaining = MaxAdded
  BY DEF Init
<1>2. PartialSums(Charges(response))[0] = 0
  BY <1>1, ChargesType
<1>3. remaining = MaxAdded - PartialSums(Charges(response))[next - 1]
  BY <1>1, <1>2, GeometryAssumption
<1> QED
  BY <1>1, <1>3 DEF Accounted

LEMMA AccountIsKept == Reading /\ Accounted /\ [Next]_vars => Accounted'
<1> SUFFICES ASSUME Reading, Accounted, [Next]_vars PROVE Accounted'
  OBVIOUS
<1> DEFINE n == Len(response.features)
           paid == PartialSums(Charges(response))
<1>1. /\ response \in Responses /\ next \in 1 .. n + 1 /\ n \in Nat
      /\ MaxAdded \in Nat /\ remaining \in Nat
  BY FeatureType, GeometryAssumption DEF Reading, TypeOK
<1>2. /\ \A k \in 1 .. next - 1 : Accepted(response.features[k])
      /\ remaining = MaxAdded - paid[next - 1]
  BY DEF Accounted
<1>3. ASSUME More
      PROVE  /\ next \in 1 .. n /\ Feature \in ToSet(response.features)
             /\ Feature = response.features[next]
             /\ paid[next] = paid[next - 1] + NeededBy(Feature)
             /\ paid[next - 1] \in Nat
  <2>1. next \in 1 .. n
    BY <1>1, <1>3 DEF More
  <2>2. Feature \in ToSet(response.features) /\ Feature = response.features[next]
    BY <1>1, <2>1, FeatureType DEF Feature
  <2>3. paid[next] = paid[next - 1] + NeededBy(Feature)
    BY <1>1, <2>1, <2>2, ChargesType
  <2>4. paid[next - 1] \in Nat
    <3>1. Len(Charges(response)) = n /\ \A i \in 1 .. n : Charges(response)[i] = NeededBy(response.features[i])
      BY <1>1, ChargesType
    <3>2. \A i \in 1 .. next - 1 : Charges(response)[i] \in Nat
      <4>1. ASSUME NEW i \in 1 .. next - 1 PROVE Charges(response)[i] \in Nat
        <5>1. i \in 1 .. n /\ Accepted(response.features[i])
          BY <1>1, <1>2, <2>1
        <5>2. response.features[i] \in ToSet(response.features)
          BY <1>1, <5>1, FeatureType
        <5> QED
          BY <1>1, <3>1, <5>1, <5>2, AcceptedCharge
      <4> QED
        BY <4>1
    <3>3. next - 1 \in 0 .. Len(Charges(response)) /\ next - 1 \in 0 .. next - 1
          /\ Len(Charges(response)) \in Nat
      BY <1>1, <2>1, <3>1
    <3> QED
      BY <3>2, <3>3, PartialSumsType
  <2> QED
    BY <2>1, <2>2, <2>3, <2>4
<1> HIDE DEF paid, n
(* One record more, accepted and paid for. *)
<1>4. ASSUME More, Accepted(Feature), NeededBy(Feature) \in Nat,
             remaining' = remaining - NeededBy(Feature),
             next' = next + 1, response' = response, status' = "reading"
      PROVE  Accounted'
  <2>1. ASSUME NEW k \in 1 .. next' - 1 PROVE Accepted(response.features[k])
    <3>1. k \in 1 .. next - 1 \/ k = next
      BY <1>1, <1>4
    <3> QED
      BY <1>2, <1>3, <1>4, <3>1
  <2>2. remaining' = MaxAdded - paid[next]
    BY <1>1, <1>2, <1>3, <1>4
  <2>3. next' - 1 = next
    BY <1>1, <1>4
  <2>4. (\A k \in 1 .. next - 1 : Accepted(response.features[k]))'
    BY <1>4, <2>1, SameAccount
  <2>5. (remaining = MaxAdded - PartialSums(Charges(response))[next - 1])'
    BY <1>4, <2>2, <2>3, SameAccount DEF paid
  <2> QED
    BY <1>4, <2>4, <2>5 DEF Accounted
(* Nothing more was read: what was accounted for still is. *)
<1>5. ASSUME next' = next, remaining' = remaining, response' = response
      PROVE  /\ (\A k \in 1 .. next - 1 : Accepted(response.features[k]))'
             /\ (remaining = MaxAdded - PartialSums(Charges(response))[next - 1])'
  <2>1. (\A k \in 1 .. next - 1 : Accepted(response.features[k]))'
    BY <1>2, <1>5, SameAccount
  <2>2. (remaining = MaxAdded - PartialSums(Charges(response))[next - 1])'
    BY <1>2, <1>5, SameAccount DEF paid
  <2> QED
    BY <2>1, <2>2
<1>6. CASE SkipFeature
  <2>1. /\ More /\ Skips(response.product, Feature) /\ status = "reading"
        /\ next' = next + 1 /\ response' = response /\ status' = status /\ remaining' = remaining
    BY <1>6 DEF SkipFeature, More
  <2>2. Accepted(Feature) /\ NeededBy(Feature) = 0
    BY <1>1, <1>3, <2>1, SkippedCharge
  <2>3. NeededBy(Feature) \in Nat /\ remaining' = remaining - NeededBy(Feature)
    BY <1>1, <2>1, <2>2
  <2> QED
    BY <1>4, <2>1, <2>2, <2>3
<1>7. CASE ReadFeature
  <2>1. /\ More /\ ~Skips(response.product, Feature) /\ ReadRings(Feature).ok /\ status = "reading"
        /\ next' = next + 1 /\ response' = response /\ status' = status
        /\ remaining' = ReadRings(Feature).left
    BY <1>7 DEF ReadFeature, More
  <2>2. /\ Readable(Feature) /\ NeededBy(Feature) \in Nat
        /\ NeededBy(Feature) <= remaining =>
             ReadRings(Feature).ok /\ ReadRings(Feature).left = remaining - NeededBy(Feature)
        /\ NeededBy(Feature) > remaining => ~ReadRings(Feature).ok
    BY <1>1, <1>3, <2>1, ReadsIfReadable
  <2>3. remaining' = remaining - NeededBy(Feature)
    BY <1>1, <2>1, <2>2
  <2>4. Accepted(Feature)
    BY <2>2 DEF Accepted
  <2> QED
    BY <1>4, <2>1, <2>2, <2>3, <2>4
<1>8. CASE FailFeature
  <2>1. /\ More /\ ~Skips(response.product, Feature) /\ ~ReadRings(Feature).ok
        /\ next' = next /\ response' = response /\ status' = "failed" /\ remaining' = remaining
    BY <1>8 DEF FailFeature
  <2>2. ~Feature.skipped
    BY <1>1, <1>3, <2>1, PublishedAssumption
  <2>3. ~Readable(Feature) \/ NeededBy(Feature) > remaining
    <3>1. /\ Readable(Feature) => NeededBy(Feature) \in Nat
          /\ (Readable(Feature) /\ NeededBy(Feature) <= remaining) => ReadRings(Feature).ok
      BY <1>1, <1>3, <2>1, ReadsIfReadable
    <3> QED
      BY <1>1, <2>1, <3>1
  <2>4. (next <= Len(response.features))'
    BY <1>1, <1>3, <2>1 DEF n
  <2>5. (~Feature.skipped)'
    BY <2>1, <2>2 DEF Feature
  <2>6. (~Readable(Feature) \/ NeededBy(Feature) > remaining)'
    <3>1. Feature' = Feature
      BY <2>1 DEF Feature
    <3>2. (Readable(Feature))' <=> Readable(Feature)
      BY <2>1, <3>1, SameJudgement
    <3>3. (NeededBy(Feature))' = NeededBy(Feature)
      BY <2>1, <3>1, SameJudgement
    <3> QED
      BY <2>1, <2>3, <3>2, <3>3
  <2> QED
    BY <1>5, <2>1, <2>4, <2>5, <2>6 DEF Accounted
<1>9. CASE Finish
  <2>1. /\ next' = next /\ response' = response /\ status' = "done" /\ remaining' = remaining
        /\ next > n
    BY <1>9 DEF Finish, n
  <2>2. (next = Len(response.features) + 1)'
    BY <1>1, <2>1 DEF n
  <2> QED
    BY <1>5, <2>1, <2>2 DEF Accounted
<1>10. CASE UNCHANGED vars
  <2>1. /\ next' = next /\ response' = response /\ status' = status /\ remaining' = remaining
    BY <1>10 DEF vars
  <2>2. (status = "done" => next = Len(response.features) + 1)'
    BY <2>1 DEF Accounted
  <2>3. ASSUME status' = "failed"
        PROVE  /\ (next <= Len(response.features))'
               /\ (~Feature.skipped)'
               /\ (~Readable(Feature) \/ NeededBy(Feature) > remaining)'
    <3>1. /\ next <= Len(response.features) /\ ~Feature.skipped
          /\ ~Readable(Feature) \/ NeededBy(Feature) > remaining
      BY <2>1, <2>3 DEF Accounted
    <3>2. Feature' = Feature
      BY <2>1 DEF Feature
    <3>3. (Readable(Feature))' <=> Readable(Feature)
      BY <2>1, <3>2, SameJudgement
    <3>4. (NeededBy(Feature))' = NeededBy(Feature)
      BY <2>1, <3>2, SameJudgement
    <3> QED
      BY <2>1, <3>1, <3>2, <3>3, <3>4
  <2> QED
    BY <1>5, <2>1, <2>2, <2>3 DEF Accounted
<1> QED
  BY <1>6, <1>7, <1>8, <1>9, <1>10 DEF Next

LEMMA AccountTells == Reading /\ Accounted => FailsOnlyForCause
<1> SUFFICES ASSUME Reading, Accounted, status \in {"done", "failed"}
             PROVE  status = "done" <=>
                      /\ \A f \in ReadFeatures : Readable(f)
                      /\ Sum([i \in DOMAIN response.features |-> NeededBy(response.features[i])])
                           <= MaxAdded
  BY DEF FailsOnlyForCause
<1> DEFINE n == Len(response.features)
           paid == PartialSums(Charges(response))
           sum == Sum([i \in DOMAIN response.features |-> NeededBy(response.features[i])])
           At(i) == response.features[i]
<1>1. /\ response \in Responses /\ next \in 1 .. n + 1 /\ n \in Nat
      /\ MaxAdded \in Nat /\ remaining \in Nat
  BY FeatureType, GeometryAssumption DEF Reading, TypeOK
<1>2. /\ \A k \in 1 .. next - 1 : Accepted(At(k))
      /\ remaining = MaxAdded - paid[next - 1]
  BY DEF Accounted
<1>3. /\ Len(Charges(response)) = n
      /\ \A i \in 1 .. n : Charges(response)[i] = NeededBy(At(i))
      /\ \A i \in 1 .. n : paid[i] = paid[i - 1] + NeededBy(At(i))
  BY <1>1, ChargesType
<1>4. sum = Sum(Charges(response)) /\ sum = paid[n]
  <2>1. sum = Sum(Charges(response))
    BY DEF Charges
  <2>2. Sum(Charges(response)) = paid[n]
    BY <1>1, <1>3, SumLaws
  <2> QED
    BY <2>1, <2>2
<1>5. /\ \A i \in 1 .. n : At(i) \in ToSet(response.features)
      /\ \A f \in ToSet(response.features) : \E i \in 1 .. n : f = At(i)
  BY <1>1, FeatureType DEF ToSet
<1>6. (\A i \in 1 .. n : Accepted(At(i))) <=> \A f \in ReadFeatures : Readable(f)
  BY <1>5 DEF ReadFeatures, Accepted
(* If all can be read, the sums are natural numbers, and grow. *)
<1>7. ASSUME \A i \in 1 .. n : Accepted(At(i))
      PROVE  /\ sum \in Nat
             /\ \A i \in 0 .. n : paid[i] \in Nat /\ paid[i] <= sum
  <2>1. \A i \in 1 .. n : Charges(response)[i] \in Nat
    BY <1>1, <1>3, <1>5, <1>7, AcceptedCharge
  <2> HIDE DEF n, sum
  <2>2. /\ Sum(Charges(response)) \in Nat
        /\ \A i \in 0 .. n : paid[i] \in Nat /\ paid[i] <= Sum(Charges(response))
    BY <1>1, <1>3, <2>1, SumsGrow
  <2> QED
    BY <1>4, <2>2
<1> HIDE DEF n, paid, sum
<1>8. ASSUME status = "done"
      PROVE  (\A i \in 1 .. n : Accepted(At(i))) /\ sum <= MaxAdded
  <2>1. next = n + 1 /\ next - 1 = n
    BY <1>1, <1>8 DEF Accounted, n
  <2>2. \A i \in 1 .. n : Accepted(At(i))
    BY <1>2, <2>1
  <2>3. sum \in Nat /\ remaining = MaxAdded - sum
    BY <1>2, <1>4, <1>7, <2>1, <2>2
  <2>4. sum <= MaxAdded
    BY <1>1, <2>3
  <2> QED
    BY <2>2, <2>4
<1>9. ASSUME status = "failed", \A i \in 1 .. n : Accepted(At(i))
      PROVE  ~(sum <= MaxAdded)
  <2>1. /\ next <= n /\ ~Feature.skipped
        /\ ~Readable(Feature) \/ NeededBy(Feature) > remaining
    BY <1>9 DEF Accounted, n
  <2>2. next \in 1 .. n /\ next - 1 \in 0 .. n /\ next \in 0 .. n /\ Feature = At(next)
    BY <1>1, <2>1 DEF Feature
  <2>3. Readable(Feature)
    BY <1>9, <2>1, <2>2 DEF Accepted
  <2>4. NeededBy(Feature) > remaining /\ paid[next] = paid[next - 1] + NeededBy(Feature)
    BY <1>3, <2>1, <2>2, <2>3
  <2>5. NeededBy(Feature) \in Nat
    BY <1>1, <1>5, <1>9, <2>2, AcceptedCharge
  <2>6. sum \in Nat /\ paid[next] \in Nat /\ paid[next - 1] \in Nat /\ paid[next] <= sum
    BY <1>7, <1>9, <2>2
  <2> QED
    BY <1>1, <1>2, <2>4, <2>5, <2>6
<1>10. status = "done" <=> (\A i \in 1 .. n : Accepted(At(i))) /\ sum <= MaxAdded
  <2>1. status = "done" \/ status = "failed"
    OBVIOUS
  <2>2. ~(status = "done" /\ status = "failed")
    OBVIOUS
  <2> QED
    BY <1>8, <1>9, <2>1, <2>2
<1> QED
  BY <1>6, <1>10 DEF sum

(* For every response, however its added points are spread over edges, rings *)
(* and features: the payload is refused exactly for a point or a reference   *)
(* that cannot be used, or because all outer rings together need more points *)
(* than there are (parse_esri_rings_with_budget() and the loop around it).   *)
THEOREM RefusedForCause == Spec => []FailsOnlyForCause
<1>1. Init => Reading /\ Accounted
  BY ReadingStarts, AccountStarts
<1>2. Reading /\ Accounted /\ [Next]_vars => (Reading /\ Accounted)'
  BY ReadingGoesOn, AccountIsKept
<1>3. Spec => [](Reading /\ Accounted)
  BY <1>1, <1>2, PTL DEF Spec
<1> QED
  BY <1>3, AccountTells, PTL

-----------------------------------------------------------------------------
(* How an edge is divided. *)

Scaled(p) == <<Scale * p[1], Scale * p[2]>>

(* Two points in a row on a converted ring are not too far apart. *)
Near(p, q) ==
    \/ p[1] = q[1]
    \/ p[2] = q[2]
    \/ Magnitude(q[2] - p[2]) <= Scale * StepHeight

LEMMA ExactQuotient ==
  ASSUME NEW s \in Nat, NEW k \in Nat \ {0}, s % k = 0
  PROVE  s \div k \in Nat /\ s = k * (s \div k)
OBVIOUS

LEMMA QuotientOfProduct ==
  ASSUME NEW k \in Nat \ {0}, NEW q \in Nat, NEW d \in Int
  PROVE  ((k * q) * d) \div k = q * d
OBVIOUS

LEMMA QuotientGrows ==
  ASSUME NEW d \in Nat \ {0}, NEW x \in Nat, NEW y \in Nat, x <= y
  PROVE  x \div d <= y \div d
OBVIOUS

OnMap(p) == Magnitude(p[1]) <= Extent /\ Magnitude(p[2]) <= Extent

LEMMA MapHeight ==
  ASSUME NEW e, IsEdge(e), OnMap(e.a), OnMap(e.b)
  PROVE  Height(e) \in Nat /\ Height(e) <= 2 * Extent
<1>1. Extent \in Nat
  BY GeometryAssumption
<1>2. /\ e.a[2] \in Int /\ e.b[2] \in Int /\ Height(e) \in Nat
  BY HeightOfEdge
<1>3. -Extent <= e.a[2] /\ e.a[2] <= Extent /\ -Extent <= e.b[2] /\ e.b[2] <= Extent
  BY <1>1, <1>2 DEF OnMap, Magnitude
<1> QED
  BY <1>1, <1>2, <1>3 DEF Height, Magnitude

LEMMA StepsDivide ==
  ASSUME NEW e, IsEdge(e), OnMap(e.a), OnMap(e.b)
  PROVE  /\ Steps(e) \in Nat \ {0} /\ Scale \div Steps(e) \in Nat
         /\ Scale = Steps(e) * (Scale \div Steps(e))
<1>1. Scale \in Nat /\ StepHeight \in Nat \ {0} /\ Extent \in Nat /\ Steps(e) \in Nat \ {0}
  BY GeometryAssumption, StepsOfEdge
<1>2. Scale % Steps(e) = 0
  <2>1. CASE AxisAligned(e)
    <3>1. Steps(e) = 1
      BY <2>1, StepsOfEdge
    <3> QED
      BY <1>1, <3>1
  <2>2. CASE ~AxisAligned(e)
    <3>1. Steps(e) = (Height(e) + StepHeight - 1) \div StepHeight
      BY <2>2, StepsOfEdge
    <3>2. /\ Height(e) + StepHeight - 1 \in Nat /\ 2 * Extent + StepHeight - 1 \in Nat
          /\ Height(e) + StepHeight - 1 <= 2 * Extent + StepHeight - 1
      BY <1>1, MapHeight
    <3>3. Steps(e) <= (2 * Extent + StepHeight - 1) \div StepHeight
      BY <1>1, <3>1, <3>2, QuotientGrows
    <3>4. Steps(e) \in 1 .. (2 * Extent + StepHeight - 1) \div StepHeight
      <4>1. (2 * Extent + StepHeight - 1) \div StepHeight \in Int
        BY <1>1, <3>2
      <4> QED
        BY <1>1, <3>3, <4>1
    <3> QED
      BY <3>4, GeometryAssumption
  <2> QED
    BY <2>1, <2>2
<1> QED
  BY <1>1, <1>2, ExactQuotient

(* The stops of an edge lie evenly between its scaled ends. *)
LEMMA StopsOfEdge ==
  ASSUME NEW e, IsEdge(e), OnMap(e.a), OnMap(e.b), NEW c \in {1, 2}
  PROVE  LET q == Scale \div Steps(e)
         IN  /\ e.a[c] \in Int /\ e.b[c] \in Int
             /\ \A j \in Int : Along(e, c, j) = Scale * e.a[c] + (j - 1) * (q * (e.b[c] - e.a[c]))
             /\ Along(e, c, 1) = Scale * e.a[c]
             /\ Along(e, c, Steps(e) + 1) = Scale * e.b[c]
<1> DEFINE k == Steps(e)
           q == Scale \div k
           d == e.b[c] - e.a[c]
<1>1. k \in Nat \ {0} /\ q \in Nat /\ Scale = k * q /\ Scale \in Nat
  BY StepsDivide, GeometryAssumption
<1>2. e.a[c] \in Int /\ e.b[c] \in Int /\ d \in Int
  BY HeightOfEdge
<1> HIDE DEF k, q
<1>3. (Scale * d) \div k = q * d
  <2>1. ((k * q) * d) \div k = q * d
    BY <1>1, <1>2, QuotientOfProduct
  <2> QED
    BY <1>1, <2>1
<1>4. ASSUME NEW j \in Int
      PROVE  Along(e, c, j) = Scale * e.a[c] + (j - 1) * (q * d)
  BY <1>3 DEF Along, k
<1>5. Along(e, c, 1) = Scale * e.a[c]
  <2>1. q * d \in Int /\ Scale * e.a[c] \in Int
    BY <1>1, <1>2
  <2>2. (1 - 1) * (q * d) = 0
    BY <2>1
  <2> QED
    BY <1>4, <2>1, <2>2
<1>6. Along(e, c, k + 1) = Scale * e.b[c]
  <2>1. k + 1 \in Int /\ (k + 1) - 1 = k
    BY <1>1
  <2>2. Along(e, c, k + 1) = Scale * e.a[c] + k * (q * d)
    BY <1>4, <2>1
  <2>3. k * (q * d) = Scale * d
    BY <1>1, <1>2
  <2>4. Scale * e.a[c] + Scale * (e.b[c] - e.a[c]) = Scale * e.b[c]
    BY <1>1, <1>2
  <2> QED
    BY <2>2, <2>3, <2>4
<1> QED
  BY <1>2, <1>4, <1>5, <1>6 DEF q, k

LEMMA StopsAreNear ==
  ASSUME NEW e, IsEdge(e), OnMap(e.a), OnMap(e.b)
  PROVE  /\ Stop(e, 1) = Scaled(e.a)
         /\ Stop(e, Steps(e) + 1) = Scaled(e.b)
         /\ \A j \in 1 .. Steps(e) + 1 : Stop(e, j) \in Plane
         /\ \A j \in 1 .. Steps(e) : Near(Stop(e, j), Stop(e, j + 1))
<1> DEFINE k == Steps(e)
           q == Scale \div k
           d == e.b[2] - e.a[2]
<1>1. k \in Nat \ {0} /\ q \in Nat /\ Scale = k * q /\ Scale \in Nat \ {0} /\ StepHeight \in Nat \ {0}
  BY StepsDivide, GeometryAssumption
<1>2. Stop(e, 1) = Scaled(e.a) /\ Stop(e, k + 1) = Scaled(e.b)
  BY StopsOfEdge DEF Stop, Scaled
<1>3. ASSUME NEW j \in 1 .. k + 1 PROVE Stop(e, j) \in Plane
  <2>1. \A c \in {1, 2} : Along(e, c, j) \in Int
    <3>1. ASSUME NEW c \in {1, 2} PROVE Along(e, c, j) \in Int
      <4>1. /\ e.a[c] \in Int /\ e.b[c] \in Int
            /\ Along(e, c, j) = Scale * e.a[c] + (j - 1) * (q * (e.b[c] - e.a[c]))
        BY <1>1, StopsOfEdge
      <4> HIDE DEF q
      <4> QED
        BY <1>1, <4>1
    <3> QED
      BY <3>1
  <2> QED
    BY <2>1 DEF Stop, Plane
<1>4. ASSUME NEW j \in 1 .. k PROVE Near(Stop(e, j), Stop(e, j + 1))
  <2>1. CASE AxisAligned(e)
    <3>1. k = 1 /\ j = 1
      BY <2>1, StepsOfEdge
    <3>2. Stop(e, j) = Scaled(e.a) /\ Stop(e, j + 1) = Scaled(e.b)
      <4> HIDE DEF k
      <4> QED
        BY <1>2, <3>1
    <3> QED
      BY <2>1, <3>2 DEF AxisAligned, Near, Scaled
  <2>2. CASE ~AxisAligned(e)
    <3>0. j \in Int /\ j + 1 \in Int /\ 2 \in {1, 2}
      BY <1>1
    <3>1. /\ e.a[2] \in Int /\ e.b[2] \in Int
          /\ Along(e, 2, j) = Scale * e.a[2] + (j - 1) * (q * d)
          /\ Along(e, 2, j + 1) = Scale * e.a[2] + ((j + 1) - 1) * (q * d)
      <4>1. /\ e.a[2] \in Int /\ e.b[2] \in Int
            /\ \A i \in Int : Along(e, 2, i) = Scale * e.a[2] + (i - 1) * (q * d)
        BY <3>0, StopsOfEdge
      <4> HIDE DEF q, d
      <4> QED
        BY ONLY <3>0, <4>1
    <3>2. Height(e) \in Nat /\ Height(e) <= k * StepHeight /\ Height(e) = Magnitude(d)
      BY <2>2, StepsOfEdge, HeightOfEdge DEF Height
    <3>3. d \in Int
      BY <3>1
    <3> HIDE DEF k, q, d
    <3> DEFINE step == q * d
    <3>4. step \in Int
      BY <1>1, <3>3
    <3>5. Along(e, 2, j + 1) - Along(e, 2, j) = step
      <4>1. /\ Along(e, 2, j) = Scale * e.a[2] + (j - 1) * step
            /\ Along(e, 2, j + 1) = Scale * e.a[2] + j * step
        BY <1>1, <3>1
      <4>2. Scale * e.a[2] \in Int /\ (j - 1) * step = j * step - step /\ j * step \in Int
        BY <1>1, <3>1, <3>4
      <4> HIDE DEF step
      <4> QED
        BY <3>4, <4>1, <4>2
    <3>6. Magnitude(step) = q * Magnitude(d)
      <4>1. CASE q = 0
        <5>1. step = 0
          BY <3>3, <4>1
        <5>2. Magnitude(d) \in Int
          BY <3>2
        <5> HIDE DEF step
        <5> QED
          BY <4>1, <5>1, <5>2 DEF Magnitude
      <4>2. CASE q # 0 /\ d < 0
        <5>1. step < 0 /\ -step = q * (-d)
          BY <1>1, <3>3, <4>2
        <5> HIDE DEF step
        <5> QED
          BY <3>3, <4>2, <5>1 DEF Magnitude
      <4>3. CASE q # 0 /\ ~(d < 0)
        <5>1. ~(step < 0)
          BY <1>1, <3>3, <4>3
        <5> QED
          BY <4>3, <5>1 DEF Magnitude
      <4> QED
        BY <4>1, <4>2, <4>3
    <3>7. q * Height(e) <= (k * q) * StepHeight
      <4>1. q * Height(e) <= q * (k * StepHeight)
        BY <1>1, <3>2
      <4>2. q * (k * StepHeight) = (k * q) * StepHeight
        BY <1>1
      <4> QED
        BY <4>1, <4>2
    <3>8. Magnitude(step) <= Scale * StepHeight
      BY <1>1, <3>2, <3>6, <3>7
    <3>9. Stop(e, j)[2] = Along(e, 2, j) /\ Stop(e, j + 1)[2] = Along(e, 2, j + 1)
      BY DEF Stop
    <3> QED
      BY <3>5, <3>8, <3>9 DEF Near
  <2> QED
    BY <2>1, <2>2
<1> QED
  BY <1>2, <1>3, <1>4

LEMMA SignOfProduct ==
  ASSUME NEW k \in Nat \ {0}, NEW x \in Int
  PROVE  (k * x < 0 <=> x < 0) /\ (k * x > 0 <=> x > 0) /\ k * x \in Int
OBVIOUS

LEMMA Weighted ==
  ASSUME NEW k \in Nat, NEW t \in 0 .. k, NEW x \in Int, NEW y \in Int, NEW top \in Nat,
         -top <= x, x <= top, -top <= y, y <= top
  PROVE  -(k * top) <= (k - t) * x + t * y /\ (k - t) * x + t * y <= k * top
<1>1. (k - t) * x <= (k - t) * top /\ (k - t) * (-top) <= (k - t) * x
  OBVIOUS
<1>2. t * y <= t * top /\ t * (-top) <= t * y
  OBVIOUS
<1>3. /\ (k - t) * top + t * top = k * top
      /\ (k - t) * (-top) + t * (-top) = -(k * top)
  OBVIOUS
<1>4. /\ (k - t) * x \in Int /\ t * y \in Int /\ (k - t) * top \in Int /\ t * top \in Int
      /\ (k - t) * (-top) \in Int /\ t * (-top) \in Int /\ k * top \in Int
  OBVIOUS
<1> QED
  BY <1>1, <1>2, <1>3, <1>4

LEMMA ProductGrows ==
  ASSUME NEW q \in Nat, NEW x \in Int, NEW y \in Int, x <= y
  PROVE  q * x <= q * y
OBVIOUS

LEMMA EvenSteps ==
  ASSUME NEW q \in Int, NEW k \in Int, NEW t \in Int, NEW x \in Int, NEW y \in Int
  PROVE  (k * q) * x + t * (q * (y - x)) = q * ((k - t) * x + t * y)
OBVIOUS

(* The stops of an edge on the map are on the map. *)
LEMMA HeightsOfStops ==
  ASSUME NEW e, IsEdge(e), OnMap(e.a), OnMap(e.b), NEW j \in 1 .. Steps(e) + 1
  PROVE  Stop(e, j)[2] \in Heights
<1> DEFINE k == Steps(e)
           q == Scale \div k
           t == j - 1
           x == e.a[2]
           y == e.b[2]
           sum == (k - t) * x + t * y
<1>1. /\ k \in Nat \ {0} /\ q \in Nat /\ Scale = k * q /\ Scale \in Nat /\ Extent \in Nat
      /\ j \in Int
  BY StepsDivide, GeometryAssumption
<1>2. Stop(e, j)[2] = Scale * x + t * (q * (y - x)) /\ x \in Int /\ y \in Int
  <2>1. Stop(e, j)[2] = Along(e, 2, j)
    BY DEF Stop
  <2> QED
    BY <1>1, <2>1, StopsOfEdge
<1>3. -Extent <= x /\ x <= Extent /\ -Extent <= y /\ y <= Extent
  BY <1>1, <1>2 DEF OnMap, Magnitude
<1>4. t \in 0 .. k
  BY <1>1
<1> HIDE DEF k, q, t, x, y
<1>5. Stop(e, j)[2] = q * sum
  <2>1. (k * q) * x + t * (q * (y - x)) = q * sum
    BY <1>1, <1>2, <1>4, EvenSteps
  <2> QED
    BY <1>1, <1>2, <2>1
<1>6. -(k * Extent) <= sum /\ sum <= k * Extent
  BY <1>1, <1>2, <1>3, <1>4, Weighted
<1>7. sum \in Int /\ k * Extent \in Nat
  BY <1>1, <1>2, <1>4
<1> HIDE DEF sum
<1>8. q * (-(k * Extent)) <= q * sum /\ q * sum <= q * (k * Extent)
  BY <1>1, <1>6, <1>7, ProductGrows
<1>9. /\ q * (k * Extent) = Scale * Extent /\ q * (-(k * Extent)) = -(Scale * Extent)
      /\ q * sum \in Int /\ Scale * Extent \in Nat
  BY <1>1, <1>7
<1> QED
  BY <1>5, <1>8, <1>9 DEF Heights

-----------------------------------------------------------------------------
(* The edges of a path, and of one that is put together from segments. *)

(* The pairs of points in a row of a path that goes on to z. *)
Pairs(s, z) == {<<s[j], IF j = Len(s) THEN z ELSE s[j + 1]>> : j \in 1 .. Len(s)}

LEMMA JoinedPairs ==
  ASSUME NEW S, NEW s \in Seq(S), NEW t \in Seq(S), t # <<>>, NEW z
  PROVE  Pairs(s \o t, z) = Pairs(s, t[1]) \cup Pairs(t, z)
<1> DEFINE u == s \o t
           n == Len(s)
           m == Len(t)
           A(j) == <<s[j], IF j = n THEN t[1] ELSE s[j + 1]>>
           B(j) == <<t[j], IF j = m THEN z ELSE t[j + 1]>>
           C(j) == <<u[j], IF j = n + m THEN z ELSE u[j + 1]>>
<1>1. n \in Nat /\ m \in Nat \ {0}
  BY EmptySeq, LenProperties
<1>2. Len(u) = n + m /\ \A i \in 1 .. n + m : u[i] = IF i <= n THEN s[i] ELSE t[i - n]
  BY ConcatProperties
<1>3. Pairs(s, t[1]) = {A(j) : j \in 1 .. n} /\ Pairs(t, z) = {B(j) : j \in 1 .. m}
  BY DEF Pairs
<1>4. Pairs(u, z) = {C(j) : j \in 1 .. n + m}
  <2> HIDE DEF u, n, m
  <2> QED
    BY <1>2 DEF Pairs
<1> HIDE DEF u, n, m
<1>5. ASSUME NEW j \in 1 .. n PROVE j \in 1 .. n + m /\ C(j) = A(j)
  <2>1. /\ j \in 1 .. n + m /\ j <= n /\ j # n + m
        /\ j + 1 \in 1 .. n + m /\ (j # n => j + 1 <= n)
        /\ (j = n => ~(j + 1 <= n) /\ (j + 1) - n = 1)
    BY <1>1
  <2>2. u[j] = s[j] /\ u[j + 1] = IF j = n THEN t[1] ELSE s[j + 1]
    BY <1>2, <2>1
  <2> QED
    BY <2>1, <2>2
<1>6. ASSUME NEW j \in 1 .. m PROVE n + j \in 1 .. n + m /\ C(n + j) = B(j)
  <2>1. /\ n + j \in 1 .. n + m /\ ~(n + j <= n) /\ (n + j) - n = j
        /\ (n + j = n + m <=> j = m)
        /\ j # m => /\ (n + j) + 1 \in 1 .. n + m /\ ~((n + j) + 1 <= n)
                    /\ ((n + j) + 1) - n = j + 1
    BY <1>1
  <2>2. u[n + j] = t[j] /\ (j # m => u[(n + j) + 1] = t[j + 1])
    BY <1>2, <2>1
  <2> QED
    BY <2>1, <2>2
<1>7. \A i \in 1 .. n + m : i \in 1 .. n \/ \E j \in 1 .. m : i = n + j
  <2>1. \A i \in 1 .. n + m : i \in 1 .. n \/ (i - n \in 1 .. m /\ i = n + (i - n))
    BY <1>1
  <2> QED
    BY <2>1
<1> HIDE DEF A, B, C
<1>8. {C(j) : j \in 1 .. n + m} = {A(j) : j \in 1 .. n} \cup {B(j) : j \in 1 .. m}
  <2>1. ASSUME NEW i \in 1 .. n + m
        PROVE  C(i) \in {A(j) : j \in 1 .. n} \cup {B(j) : j \in 1 .. m}
    BY <1>5, <1>6, <1>7
  <2>2. ASSUME NEW j \in 1 .. n PROVE A(j) \in {C(i) : i \in 1 .. n + m}
    BY <1>5
  <2>3. ASSUME NEW j \in 1 .. m PROVE B(j) \in {C(i) : i \in 1 .. n + m}
    BY <1>6
  <2> QED
    BY <2>1, <2>2, <2>3
<1> QED
  BY <1>3, <1>4, <1>8 DEF u

(* The pairs of the segments, each going on to the next. *)
SegmentPairs(ss, z) ==
    UNION {Pairs(ss[i], IF i = Len(ss) THEN z ELSE ss[i + 1][1]) : i \in 1 .. Len(ss)}

AllFull(ss) == \A i \in 1 .. Len(ss) : ss[i] # <<>>

LEMMA PairsOfFlat ==
  ASSUME NEW S, NEW ss \in Seq(Seq(S)), ss # <<>>, AllFull(ss), NEW z
  PROVE  LET flat == FlattenSeq(ss)
         IN  /\ flat \in Seq(S) /\ flat # <<>> /\ flat[1] = ss[1][1]
             /\ Pairs(flat, z) = SegmentPairs(ss, z)
<1> DEFINE T == Seq(S)
           Good(tt) == /\ FlattenSeq(tt) # <<>> /\ FlattenSeq(tt)[1] = tt[1][1]
                       /\ \A x : Pairs(FlattenSeq(tt), x) = SegmentPairs(tt, x)
           Holds == {k \in Nat : \A tt \in Seq(T) : Len(tt) = k + 1 /\ AllFull(tt) => Good(tt)}
<1>1. ASSUME NEW k \in Nat, NEW tt \in Seq(T), Len(tt) = k + 1, AllFull(tt)
      PROVE  \E ff \in Seq(T), s \in T :
               /\ Len(ff) = k /\ AllFull(ff) /\ s # <<>>
               /\ \A i \in 1 .. k : tt[i] = ff[i]
               /\ tt[k + 1] = s
               /\ FlattenSeq(tt) = FlattenSeq(ff) \o s
               /\ FlattenSeq(ff) \in Seq(S)
  <2>1. PICK ff \in Seq(T), s \in T : tt = Append(ff, s)
    <3>1. tt # <<>>
      BY <1>1
    <3> HIDE DEF T
    <3> QED
      BY <3>1, SequenceEmptyOrAppend
  <2>2. FlattenSeq(tt) = FlattenSeq(ff) \o s /\ FlattenSeq(ff) \in Seq(S)
    BY <2>1, FlattenAppend, FlattenType
  <2> HIDE DEF T
  <2>3. /\ Len(ff) \in Nat /\ Len(tt) = Len(ff) + 1
        /\ \A i \in 1 .. Len(ff) : tt[i] = ff[i]
        /\ tt[Len(ff) + 1] = s
    BY <2>1, AppendProperties, LenProperties
  <2>4. Len(ff) = k
    <3>1. Len(ff) + 1 = k + 1 /\ Len(ff) \in Nat /\ k \in Nat
      BY <1>1, <2>3
    <3> QED
      BY ONLY <3>1
  <2>5. AllFull(ff) /\ s # <<>>
    <3>1. \A i \in 1 .. k : i \in 1 .. k + 1
      BY <1>1
    <3>2. k + 1 \in 1 .. k + 1
      BY <1>1
    <3> QED
      BY <1>1, <2>3, <2>4, <3>1, <3>2 DEF AllFull
  <2> QED
    BY <2>2, <2>3, <2>4, <2>5
<1>2. 0 \in Holds
  <2>1. ASSUME NEW tt \in Seq(T), Len(tt) = 0 + 1, AllFull(tt) PROVE Good(tt)
    <3>1. PICK ff \in Seq(T), s \in T :
               /\ Len(ff) = 0 /\ AllFull(ff) /\ s # <<>>
               /\ \A i \in 1 .. 0 : tt[i] = ff[i]
               /\ tt[0 + 1] = s
               /\ FlattenSeq(tt) = FlattenSeq(ff) \o s
               /\ FlattenSeq(ff) \in Seq(S)
      <4> HIDE DEF Good, T
      <4> QED
        BY <1>1, <2>1
    <3>2. FlattenSeq(ff) = <<>>
      BY <3>1, EmptySeq, FlattenNothing
    <3>3. FlattenSeq(tt) = s
      BY <3>1, <3>2, ConcatEmptySeq
    <3>4. tt[1] = s
      BY <3>1
    <3>5. \A x : SegmentPairs(tt, x) = Pairs(s, x)
      <4>1. Len(tt) = 1 /\ 1 .. 1 = {1}
        BY <2>1
      <4> QED
        BY <3>4, <4>1 DEF SegmentPairs
    <3> QED
      BY <3>1, <3>3, <3>4, <3>5
  <2> HIDE DEF Good, T
  <2> QED
    BY <2>1
<1>3. ASSUME NEW k \in Holds PROVE k + 1 \in Holds
  <2>1. k \in Nat /\ k + 1 \in Nat /\ \A tt \in Seq(T) : Len(tt) = k + 1 /\ AllFull(tt) => Good(tt)
    OBVIOUS
  <2>2. ASSUME NEW tt \in Seq(T), Len(tt) = (k + 1) + 1, AllFull(tt) PROVE Good(tt)
    <3>1. PICK ff \in Seq(T), s \in T :
               /\ Len(ff) = k + 1 /\ AllFull(ff) /\ s # <<>>
               /\ \A i \in 1 .. k + 1 : tt[i] = ff[i]
               /\ tt[(k + 1) + 1] = s
               /\ FlattenSeq(tt) = FlattenSeq(ff) \o s
               /\ FlattenSeq(ff) \in Seq(S)
      <4> DEFINE m == k + 1
      <4> HIDE DEF Holds, Good, T
      <4>1. m \in Nat /\ Len(tt) = m + 1 /\ AllFull(tt)
        BY <2>1, <2>2
      <4> HIDE DEF m
      <4>2. \E ff \in Seq(T), s \in T :
               /\ Len(ff) = m /\ AllFull(ff) /\ s # <<>>
               /\ \A i \in 1 .. m : tt[i] = ff[i]
               /\ tt[m + 1] = s
               /\ FlattenSeq(tt) = FlattenSeq(ff) \o s
               /\ FlattenSeq(ff) \in Seq(S)
        BY <1>1, <4>1
      <4> QED
        BY <4>2 DEF m
    <3> DEFINE flat == FlattenSeq(ff)
    <3>2. Good(ff)
      <4> HIDE DEF Holds, Good, T
      <4> QED
        BY <2>1, <3>1
    <3>3. flat \in Seq(S) /\ flat # <<>> /\ flat[1] = ff[1][1] /\ s \in Seq(S) /\ s # <<>>
      BY <3>1, <3>2
    <3>4. \A x : Pairs(flat, x) = SegmentPairs(ff, x)
      BY <3>2
    <3> HIDE DEF flat
    <3>5. Len(flat) \in Nat /\ Len(flat) # 0 /\ Len(s) \in Nat
      BY <3>3, EmptySeq, LenProperties
    <3>6. flat \o s # <<>> /\ (flat \o s)[1] = flat[1]
      <4>1. /\ Len(flat \o s) = Len(flat) + Len(s)
            /\ \A i \in 1 .. Len(flat) + Len(s) : i <= Len(flat) => (flat \o s)[i] = flat[i]
        BY <3>3, ConcatProperties
      <4>2. 1 \in 1 .. Len(flat) + Len(s) /\ 1 <= Len(flat) /\ Len(flat) + Len(s) # 0
        BY <3>5
      <4>3. Len(<<>>) = 0
        OBVIOUS
      <4> QED
        BY <4>1, <4>2, <4>3
    <3>7. tt[1] = ff[1]
      <4>1. 1 \in 1 .. k + 1
        BY <2>1
      <4> QED
        BY <3>1, <4>1
    <3>8. ASSUME NEW x PROVE Pairs(flat \o s, x) = SegmentPairs(tt, x)
      <4>1. Pairs(flat \o s, x) = Pairs(flat, s[1]) \cup Pairs(s, x)
        BY <3>3, JoinedPairs
      <4> DEFINE A(i) == Pairs(ff[i], IF i = k + 1 THEN s[1] ELSE ff[i + 1][1])
                 B(i) == Pairs(tt[i], IF i = (k + 1) + 1 THEN x ELSE tt[i + 1][1])
      <4>2. SegmentPairs(ff, s[1]) = UNION {A(i) : i \in 1 .. k + 1}
        BY <3>1 DEF SegmentPairs
      <4>3. SegmentPairs(tt, x) = UNION {B(i) : i \in 1 .. (k + 1) + 1}
        BY <2>2 DEF SegmentPairs
      <4>4. ASSUME NEW i \in 1 .. k + 1 PROVE A(i) = B(i)
        <5>1. i # (k + 1) + 1 /\ (i # k + 1 => i + 1 \in 1 .. k + 1)
          BY <2>1
        <5> QED
          BY <3>1, <5>1
      <4>5. B((k + 1) + 1) = Pairs(s, x)
        BY <3>1
      <4>6. \A i : i \in 1 .. (k + 1) + 1 <=> i \in 1 .. k + 1 \/ i = (k + 1) + 1
        BY <2>1
      <4>7. Pairs(flat, s[1]) = SegmentPairs(ff, s[1])
        BY <3>4
      <4> DEFINE last == (k + 1) + 1
                 all == UNION {A(i) : i \in 1 .. k + 1}
      <4> HIDE DEF A, B, last
      <4>8. UNION {B(i) : i \in 1 .. last} = all \cup Pairs(s, x)
        <5>1. ASSUME NEW y \in UNION {B(i) : i \in 1 .. last} PROVE y \in all \cup Pairs(s, x)
          <6>1. PICK i \in 1 .. last : y \in B(i)
            OBVIOUS
          <6>2. i \in 1 .. k + 1 \/ i = last
            BY <4>6 DEF last
          <6> QED
            BY <4>4, <4>5, <6>1, <6>2 DEF last
        <5>2. ASSUME NEW y \in all PROVE y \in UNION {B(i) : i \in 1 .. last}
          <6>1. PICK i \in 1 .. k + 1 : y \in A(i)
            OBVIOUS
          <6> QED
            BY <4>4, <4>6, <6>1 DEF last
        <5>3. ASSUME NEW y \in Pairs(s, x) PROVE y \in UNION {B(i) : i \in 1 .. last}
          BY <4>5, <4>6, <5>3 DEF last
        <5> QED
          BY <5>1, <5>2, <5>3
      <4>9. SegmentPairs(tt, x) = all \cup Pairs(s, x)
        BY <4>3, <4>8 DEF last
      <4> HIDE DEF all
      <4>10. Pairs(flat, s[1]) = all
        BY <4>2, <4>7 DEF all
      <4> QED
        BY <4>1, <4>9, <4>10
    <3>9. FlattenSeq(tt) = flat \o s
      BY <3>1 DEF flat
    <3> QED
      BY <3>3, <3>6, <3>7, <3>8, <3>9
  <2>3. \A tt \in Seq(T) : Len(tt) = (k + 1) + 1 /\ AllFull(tt) => Good(tt)
    <3> HIDE DEF Good, T, Holds
    <3> QED
      BY <2>2
  <2> HIDE DEF Good, T
  <2> QED
    BY <2>1, <2>3
<1> HIDE DEF Holds
<1>4. Nat \subseteq Holds
  <2>1. Holds \in SUBSET Nat
    BY DEF Holds
  <2> QED
    BY <1>2, <1>3, <2>1, AllNaturals
<1>5. Len(ss) \in Nat \ {0} /\ ss \in Seq(T) /\ AllFull(ss)
  <2>1. ss \in Seq(T) /\ AllFull(ss)
    OBVIOUS
  <2> HIDE DEF T
  <2> QED
    BY <2>1, EmptySeq, LenProperties
<1>6. Len(ss) - 1 \in Holds /\ Len(ss) = (Len(ss) - 1) + 1
  <2>1. Len(ss) - 1 \in Nat /\ Len(ss) = (Len(ss) - 1) + 1
    BY <1>5
  <2> QED
    BY <1>4, <2>1
<1>7. Good(ss)
  <2> HIDE DEF Good, T
  <2> QED
    BY <1>5, <1>6 DEF Holds
<1>8. FlattenSeq(ss) \in Seq(S)
  BY FlattenType
<1> QED
  BY <1>7, <1>8

-----------------------------------------------------------------------------
(* The edges of a divided ring are the steps of the edges of the ring. *)

Segments(ring) == [i \in DOMAIN ring |-> Stops(Edges(ring)[i])]

StepPairs(e) == {<<Stop(e, j), Stop(e, j + 1)>> : j \in 1 .. Steps(e)}

(* The point after the i-th of a closed path. *)
Onward(s, i) == IF i = Len(s) THEN s[1] ELSE s[i + 1]

(* A segment begins at a corner and goes on to the next in the steps of the edge. *)
SegmentFits(s, ring, i) ==
    /\ s # <<>>
    /\ s[1] = Scaled(ring[i])
    /\ Pairs(s, Scaled(Onward(ring, i))) = StepPairs(Edges(ring)[i])

LEMMA SegmentOfEdge ==
  ASSUME NEW e, IsEdge(e), OnMap(e.a), OnMap(e.b)
  PROVE  /\ Stops(e) \in Seq(Plane) /\ Stops(e) # <<>>
         /\ Stops(e)[1] = Scaled(e.a)
         /\ Pairs(Stops(e), Scaled(e.b)) = StepPairs(e)
<1> DEFINE k == Steps(e)
           s == Stops(e)
           A(j) == <<Stop(e, j), Stop(e, j + 1)>>
           B(j) == <<s[j], IF j = k THEN Scaled(e.b) ELSE s[j + 1]>>
<1>1. k \in Nat \ {0}
  BY StepsOfEdge
<1>2. /\ Stop(e, 1) = Scaled(e.a) /\ Stop(e, k + 1) = Scaled(e.b)
      /\ \A j \in 1 .. k + 1 : Stop(e, j) \in Plane
  BY StopsAreNear
<1>3. s = [j \in 1 .. k |-> Stop(e, j)]
  BY DEF Stops
<1>4. StepPairs(e) = {A(j) : j \in 1 .. k}
  BY DEF StepPairs
<1> HIDE DEF k, s
<1>5. s \in [1 .. k -> Plane] /\ \A j \in 1 .. k : s[j] = Stop(e, j)
  BY <1>1, <1>2, <1>3
<1>6. s \in Seq(Plane) /\ Len(s) = k
  <2>1. s \in Seq(Plane)
    BY <1>1, <1>5, SeqDef
  <2> QED
    BY <1>1, <1>5, <2>1, LenProperties
<1>7. s # <<>>
  BY <1>1, <1>6, EmptySeq
<1>8. s[1] = Scaled(e.a)
  <2>1. 1 \in 1 .. k
    BY <1>1
  <2> QED
    BY <1>2, <1>5, <2>1
<1>9. \A j \in 1 .. k : A(j) = B(j)
  <2>1. \A j \in 1 .. k : j # k => j + 1 \in 1 .. k
    BY <1>1
  <2> QED
    BY <1>2, <1>5, <2>1
<1>10. Pairs(s, Scaled(e.b)) = {B(j) : j \in 1 .. k}
  BY <1>6 DEF Pairs
<1> HIDE DEF A, B
<1>11. {A(j) : j \in 1 .. k} = {B(j) : j \in 1 .. k}
  BY <1>9
<1> QED
  BY <1>4, <1>6, <1>7, <1>8, <1>10, <1>11 DEF s

LEMMA Indices ==
  ASSUME NEW n \in Nat \ {0}
  PROVE  /\ 1 \in 1 .. n /\ n \in 1 .. n
         /\ \A i \in 1 .. n : i # n => i + 1 \in 1 .. n
         /\ \A i \in 1 .. n - 1 : i \in 1 .. n /\ i # n
OBVIOUS

LEMMA EdgeOnMap ==
  ASSUME NEW ring \in Seq(Plane), \A i \in DOMAIN ring : OnMap(ring[i]), NEW i \in DOMAIN ring
  PROVE  LET e == Edges(ring)[i]
         IN  /\ IsEdge(e) /\ OnMap(e.a) /\ OnMap(e.b)
             /\ e.a = ring[i] /\ e.b = Onward(ring, i)
<1> DEFINE e == Edges(ring)[i]
<1>1. /\ Len(ring) \in Nat \ {0} /\ i \in 1 .. Len(ring)
      /\ e.a = ring[i] /\ e.b = IF i = Len(ring) THEN ring[1] ELSE ring[i + 1]
      /\ IsEdge(e)
  BY EdgesOfRing
<1>2. DOMAIN ring = 1 .. Len(ring)
  BY LenProperties
<1>3. 1 \in DOMAIN ring /\ (i # Len(ring) => i + 1 \in DOMAIN ring)
  BY <1>1, <1>2, Indices
<1> QED
  BY <1>1, <1>3 DEF Onward

LEMMA SegmentsOfRing ==
  ASSUME NEW ring \in Seq(Plane), ring # <<>>, \A i \in DOMAIN ring : OnMap(ring[i])
  PROVE  /\ Len(ring) \in Nat \ {0} /\ DOMAIN ring = 1 .. Len(ring)
         /\ Segments(ring) \in Seq(Seq(Plane)) /\ Len(Segments(ring)) = Len(ring)
         /\ \A i \in 1 .. Len(ring) : SegmentFits(Segments(ring)[i], ring, i)
<1> DEFINE n == Len(ring)
           ss == Segments(ring)
           T == Seq(Plane)
<1>1. n \in Nat \ {0} /\ DOMAIN ring = 1 .. n
  BY EmptySeq, LenProperties
<1>2. ASSUME NEW i \in 1 .. n
      PROVE  ss[i] \in T /\ SegmentFits(ss[i], ring, i)
  <2> DEFINE e == Edges(ring)[i]
  <2>1. i \in DOMAIN ring
    BY <1>1
  <2>2. IsEdge(e) /\ OnMap(e.a) /\ OnMap(e.b) /\ e.a = ring[i] /\ e.b = Onward(ring, i)
    BY <2>1, EdgeOnMap
  <2>3. ss[i] = Stops(e)
    BY <2>1 DEF Segments
  <2> HIDE DEF e, ss
  <2>4. /\ Stops(e) \in Seq(Plane) /\ Stops(e) # <<>>
        /\ Stops(e)[1] = Scaled(e.a)
        /\ Pairs(Stops(e), Scaled(e.b)) = StepPairs(e)
    BY <2>2, SegmentOfEdge
  <2> QED
    BY <2>2, <2>3, <2>4 DEF e, SegmentFits
<1>3. ss \in Seq(Seq(Plane)) /\ Len(ss) = n
  <2>1. DOMAIN ss = 1 .. n /\ ss = [i \in 1 .. n |-> ss[i]]
    BY <1>1 DEF Segments
  <2> HIDE DEF ss, T
  <2>2. ss \in [1 .. n -> T]
    BY <1>2, <2>1
  <2>3. ss \in Seq(T)
    BY <1>1, <2>2, SeqDef
  <2>4. Len(ss) = n
    BY <1>1, <2>1, <2>3, LenProperties
  <2> QED
    BY <2>3, <2>4 DEF T
<1> HIDE DEF ss
<1> QED
  BY <1>1, <1>2, <1>3 DEF ss

(* The points of a divided ring, and all its edges. *)
LEMMA DividedRing ==
  ASSUME NEW ring \in Seq(Plane), ring # <<>>, \A i \in DOMAIN ring : OnMap(ring[i])
  PROVE  LET flat == Divided(ring)
         IN  /\ flat = FlattenSeq(Segments(ring))
             /\ flat \in Seq(Plane) /\ flat # <<>> /\ flat[1] = Scaled(ring[1])
             /\ Pairs(flat, flat[1]) = UNION {StepPairs(Edges(ring)[i]) : i \in DOMAIN ring}
<1> DEFINE n == Len(ring)
           ss == Segments(ring)
           flat == FlattenSeq(ss)
           A(i) == Pairs(ss[i], IF i = n THEN flat[1] ELSE ss[i + 1][1])
           B(i) == StepPairs(Edges(ring)[i])
<1>1. /\ n \in Nat \ {0} /\ DOMAIN ring = 1 .. n
      /\ ss \in Seq(Seq(Plane)) /\ Len(ss) = n
      /\ \A i \in 1 .. n : SegmentFits(ss[i], ring, i)
  BY SegmentsOfRing
<1>2. Divided(ring) = flat
  BY DEF Divided, Segments
<1> HIDE DEF ss, n
<1>3. 1 \in 1 .. n /\ \A i \in 1 .. n : i # n => i + 1 \in 1 .. n
  BY <1>1, Indices
<1>4. ss # <<>> /\ AllFull(ss)
  <2>1. Len(<<>>) = 0
    OBVIOUS
  <2>2. \A i \in 1 .. n : ss[i] # <<>>
    BY <1>1 DEF SegmentFits
  <2> QED
    BY <1>1, <2>1, <2>2 DEF AllFull
<1>5. /\ flat \in Seq(Plane) /\ flat # <<>> /\ flat[1] = ss[1][1]
      /\ Pairs(flat, flat[1]) = SegmentPairs(ss, flat[1])
  <2>1. \A z : /\ flat \in Seq(Plane) /\ flat # <<>> /\ flat[1] = ss[1][1]
               /\ Pairs(flat, z) = SegmentPairs(ss, z)
    BY <1>1, <1>4, PairsOfFlat
  <2> HIDE DEF flat
  <2> QED
    BY <2>1
<1> HIDE DEF flat
<1>6. flat[1] = Scaled(ring[1])
  BY <1>1, <1>3, <1>5 DEF SegmentFits
<1>7. SegmentPairs(ss, flat[1]) = UNION {A(i) : i \in 1 .. n}
  BY <1>1 DEF SegmentPairs
<1>8. \A i \in 1 .. n : A(i) = B(i)
  <2>1. ASSUME NEW i \in 1 .. n
        PROVE  (IF i = n THEN flat[1] ELSE ss[i + 1][1]) = Scaled(Onward(ring, i))
    <3>1. i + 1 \in 1 .. n => ss[i + 1][1] = Scaled(ring[i + 1])
      BY <1>1 DEF SegmentFits
    <3>2. Onward(ring, i) = IF i = n THEN ring[1] ELSE ring[i + 1]
      BY DEF Onward, n
    <3> QED
      BY <1>3, <1>6, <3>1, <3>2
  <2>2. ASSUME NEW i \in 1 .. n
        PROVE  Pairs(ss[i], Scaled(Onward(ring, i))) = B(i)
    BY <1>1 DEF SegmentFits
  <2> QED
    BY <2>1, <2>2
<1> HIDE DEF A, B
<1>9. UNION {A(i) : i \in 1 .. n} = UNION {B(i) : i \in DOMAIN ring}
  <2>1. DOMAIN ring = 1 .. n
    BY <1>1
  <2> QED
    BY <1>8, <2>1
<1> QED
  BY <1>2, <1>5, <1>6, <1>7, <1>9 DEF ss, flat, B

LEMMA ProjectedOrNot ==
  ASSUME NEW ring
  PROVE  /\ Converted(ring).projected = TRUE /\ Converted(ring).points = Projected(ring)
         /\ Degrees(ring).projected = FALSE /\ Degrees(ring).points = ring
BY DEF Converted, Degrees

InDegrees(p, q) == [a |-> InverseMercator(p), b |-> InverseMercator(q)]

LEMMA ProjectedRing ==
  ASSUME NEW ring, NEW flat \in Seq(Plane), flat # <<>>, flat = Divided(ring)
  PROVE  LET points == Projected(ring)
         IN  /\ Len(flat) \in Nat \ {0} /\ DOMAIN flat = 1 .. Len(flat)
             /\ DOMAIN points = 1 .. Len(flat) /\ DOMAIN Edges(points) = 1 .. Len(flat)
             /\ \A i \in 1 .. Len(flat) :
                  /\ points[i] = InverseMercator(flat[i])
                  /\ Edges(points)[i] = InDegrees(flat[i], Onward(flat, i))
<1> DEFINE n == Len(flat)
           points == Projected(ring)
<1>1. n \in Nat \ {0} /\ DOMAIN flat = 1 .. n
  BY EmptySeq, LenProperties
<1> HIDE DEF n
<1>2. points = [i \in 1 .. n |-> InverseMercator(flat[i])]
  BY <1>1 DEF Projected
<1>3. Len(points) = n
  <2> DEFINE S == {InverseMercator(flat[i]) : i \in 1 .. n}
  <2>1. points \in [1 .. n -> S]
    BY <1>2
  <2> HIDE DEF points, S
  <2>2. points \in Seq(S)
    BY <1>1, <2>1, SeqDef
  <2> QED
    BY <1>1, <2>1, <2>2, LenProperties
<1> HIDE DEF points
<1>4. ASSUME NEW i \in 1 .. n
      PROVE  Edges(points)[i] = InDegrees(flat[i], Onward(flat, i))
  <2>1. /\ 1 \in 1 .. n /\ (i # n => i + 1 \in 1 .. n)
        /\ (i % n) + 1 = IF i = n THEN 1 ELSE i + 1
    BY <1>1, Wraps, Indices
  <2>2. Following(points, i) = InverseMercator(Onward(flat, i))
    BY <1>2, <1>3, <2>1 DEF Following, Onward, n
  <2>3. Edges(points)[i] = [a |-> points[i], b |-> Following(points, i)]
    BY <1>2 DEF Edges
  <2> QED
    BY <1>2, <2>2, <2>3 DEF InDegrees
<1>5. DOMAIN points = 1 .. n /\ DOMAIN Edges(points) = 1 .. n
  BY <1>2 DEF Edges
<1>6. \A i \in 1 .. n : points[i] = InverseMercator(flat[i])
  BY <1>2
<1> QED
  BY <1>1, <1>4, <1>5, <1>6 DEF n, points

(* Every step of an edge becomes an edge in degrees. *)
LEMMA StepsAreConverted ==
  ASSUME NEW ring \in Seq(Plane), ring # <<>>, \A i \in DOMAIN ring : OnMap(ring[i]),
         NEW e \in ToSet(Edges(ring))
  PROVE  /\ IsEdge(e) /\ OnMap(e.a) /\ OnMap(e.b)
         /\ \A j \in 1 .. Steps(e) :
              InDegrees(Stop(e, j), Stop(e, j + 1)) \in ToSet(Edges(Projected(ring)))
         /\ InverseMercator(Scaled(e.a)) \in ToSet(Projected(ring))
<1> DEFINE flat == Divided(ring)
           n == Len(flat)
<1>1. /\ flat \in Seq(Plane) /\ flat # <<>>
      /\ Pairs(flat, flat[1]) = UNION {StepPairs(Edges(ring)[i]) : i \in DOMAIN ring}
  BY DividedRing
<1>2. PICK i \in DOMAIN ring : e = Edges(ring)[i]
  BY DEF ToSet, Edges
<1>3. IsEdge(e) /\ OnMap(e.a) /\ OnMap(e.b)
  BY <1>2, EdgeOnMap
<1>4. StepPairs(e) \subseteq Pairs(flat, flat[1])
  BY <1>1, <1>2
<1>5. /\ n \in Nat \ {0}
      /\ DOMAIN Projected(ring) = 1 .. n /\ DOMAIN Edges(Projected(ring)) = 1 .. n
      /\ \A k \in 1 .. n : /\ Projected(ring)[k] = InverseMercator(flat[k])
                           /\ Edges(Projected(ring))[k] = InDegrees(flat[k], Onward(flat, k))
  <2> HIDE DEF flat
  <2> QED
    BY <1>1, ProjectedRing DEF flat
<1>6. Pairs(flat, flat[1]) = {<<flat[k], Onward(flat, k)>> : k \in 1 .. n}
  BY DEF Pairs, Onward
<1> HIDE DEF flat, n
<1>7. ASSUME NEW j \in 1 .. Steps(e)
      PROVE  \E k \in 1 .. n : Stop(e, j) = flat[k] /\ Stop(e, j + 1) = Onward(flat, k)
  <2>1. <<Stop(e, j), Stop(e, j + 1)>> \in Pairs(flat, flat[1])
    BY <1>4 DEF StepPairs
  <2> QED
    BY <1>6, <2>1
<1>8. ASSUME NEW j \in 1 .. Steps(e)
      PROVE  InDegrees(Stop(e, j), Stop(e, j + 1)) \in ToSet(Edges(Projected(ring)))
  BY <1>5, <1>7 DEF ToSet
<1>9. InverseMercator(Scaled(e.a)) \in ToSet(Projected(ring))
  <2>1. 1 \in 1 .. Steps(e)
    BY <1>3, StepsOfEdge
  <2>2. Stop(e, 1) = Scaled(e.a)
    BY <1>3, StopsAreNear
  <2> QED
    BY <1>5, <1>7, <2>1, <2>2 DEF ToSet
<1> QED
  BY <1>3, <1>8, <1>9

-----------------------------------------------------------------------------
(* A straight step in degrees runs past the places of the step on the map. *)

LEMMA LatitudeGrows ==
  ASSUME NEW y \in Heights, NEW z \in Heights
  PROVE  /\ y \in Int /\ z \in Int /\ Latitude[y] \in Int /\ Latitude[z] \in Int
         /\ (y < z <=> Latitude[y] < Latitude[z])
         /\ (y <= z <=> Latitude[y] <= Latitude[z])
<1>1. y \in Int /\ z \in Int
  BY GeometryAssumption DEF Heights
<1>2. Latitude[y] \in Int /\ Latitude[z] \in Int
  BY LatitudeAssumption
<1>3. (y < z => Latitude[y] < Latitude[z]) /\ (z < y => Latitude[z] < Latitude[y])
  BY LatitudeAssumption
<1> QED
  BY <1>1, <1>2, <1>3

(* t is within k steps of length q: r into the j-th of them. *)
Within(t, k, q) == t \in Nat /\ t <= k * q

IntoStep(t, q, j, r) == t = (j - 1) * q + r

LEMMA PartOfStep ==
  ASSUME NEW k \in Nat \ {0}, NEW q \in Nat \ {0}, NEW t, Within(t, k, q)
  PROVE  \E j \in 1 .. k, r \in 0 .. q : IntoStep(t, q, j, r)
<1> USE DEF IntoStep
<1>0. t \in Nat /\ t <= k * q
  BY DEF Within
<1>1. CASE t = k * q
  <2>1. k \in 1 .. k /\ q \in 0 .. q /\ k * q = (k - 1) * q + q
    OBVIOUS
  <2> QED
    BY <1>1, <2>1
<1>2. CASE t # k * q
  <2> DEFINE f == t \div q
             r == t % q
  <2>1. t = f * q + r /\ r \in 0 .. q - 1 /\ f \in Nat
    BY <1>0
  <2> HIDE DEF f, r
  <2>2. t \in Nat /\ k * q \in Nat /\ t < k * q
    BY <1>0, <1>2
  <2>3. f < k
    <3>1. SUFFICES ASSUME f >= k PROVE FALSE
      BY <2>1
    <3>2. q * k <= q * f
      BY <2>1, <3>1, ProductGrows
    <3>3. q * k = k * q /\ q * f = f * q /\ f * q \in Nat
      BY <2>1
    <3> QED
      BY <2>1, <2>2, <3>2, <3>3
  <2>4. f + 1 \in 1 .. k /\ r \in 0 .. q /\ (f + 1) - 1 = f
    BY <2>1, <2>3
  <2> QED
    BY <2>1, <2>4
<1> QED
  BY <1>1, <1>2

LEMMA PartOfProduct ==
  ASSUME NEW q \in Nat, NEW r \in 0 .. q, NEW x \in Int
  PROVE  /\ q * x \in Int /\ r * x \in Int
         /\ x >= 0 => 0 <= r * x /\ r * x <= q * x
         /\ x <= 0 => q * x <= r * x /\ r * x <= 0
<1>1. q * x \in Int /\ r * x \in Int
  OBVIOUS
<1>2. (q - r) * x = q * x - r * x
  OBVIOUS
<1>3. x >= 0 => 0 <= r * x /\ 0 <= (q - r) * x
  OBVIOUS
<1>4. x <= 0 => r * x <= 0 /\ (q - r) * x <= 0
  OBVIOUS
<1> QED
  BY <1>1, <1>2, <1>3, <1>4

LEMMA MagnitudeOfProduct ==
  ASSUME NEW x \in Int, NEW y \in Int
  PROVE  /\ Magnitude(x) \in Nat /\ Magnitude(x * y) \in Nat
         /\ Magnitude(x * y) = Magnitude(x) * Magnitude(y)
         /\ Magnitude(-x) = Magnitude(x)
<1>1. x * y \in Int /\ (-x) * y = -(x * y) /\ x * (-y) = -(x * y) /\ (-x) * (-y) = x * y
  OBVIOUS
<1>2. /\ (x >= 0 /\ y >= 0) \/ (x < 0 /\ y < 0) => x * y >= 0
      /\ (x >= 0 /\ y < 0) \/ (x < 0 /\ y >= 0) => x * y <= 0
  OBVIOUS
<1>3. Magnitude(x) \in Nat /\ Magnitude(-x) = Magnitude(x) /\ Magnitude(y) \in Nat
  BY DEF Magnitude
<1> DEFINE z == x * y
<1>4. z \in Int /\ Magnitude(z) \in Nat /\ Magnitude(z) = IF z < 0 THEN -z ELSE z
  BY <1>1 DEF Magnitude
<1>5. CASE x >= 0 /\ y >= 0
  <2>1. Magnitude(x) = x /\ Magnitude(y) = y
    BY <1>5 DEF Magnitude
  <2>2. z >= 0
    BY <1>2, <1>5
  <2>3. Magnitude(x) * Magnitude(y) = z
    BY <2>1
  <2> HIDE DEF z
  <2>4. Magnitude(z) = z
    BY <1>4, <2>2
  <2> QED
    BY <1>3, <1>4, <2>3, <2>4 DEF z
<1>6. CASE x < 0 /\ y < 0
  <2>1. Magnitude(x) = -x /\ Magnitude(y) = -y
    BY <1>6 DEF Magnitude
  <2>2. z >= 0
    BY <1>2, <1>6
  <2>3. Magnitude(x) * Magnitude(y) = z
    BY <1>1, <2>1
  <2> HIDE DEF z
  <2>4. Magnitude(z) = z
    BY <1>4, <2>2
  <2> QED
    BY <1>3, <1>4, <2>3, <2>4 DEF z
<1>7. CASE x >= 0 /\ y < 0
  <2>1. Magnitude(x) = x /\ Magnitude(y) = -y
    BY <1>7 DEF Magnitude
  <2>2. z <= 0
    BY <1>2, <1>7
  <2>3. Magnitude(x) * Magnitude(y) = -z
    BY <1>1, <2>1
  <2> HIDE DEF z
  <2>4. Magnitude(z) = -z
    BY <1>4, <2>2
  <2> QED
    BY <1>3, <1>4, <2>3, <2>4 DEF z
<1>8. CASE x < 0 /\ y >= 0
  <2>1. Magnitude(x) = -x /\ Magnitude(y) = y
    BY <1>8 DEF Magnitude
  <2>2. z <= 0
    BY <1>2, <1>8
  <2>3. Magnitude(x) * Magnitude(y) = -z
    BY <1>1, <2>1
  <2> HIDE DEF z
  <2>4. Magnitude(z) = -z
    BY <1>4, <2>2
  <2> QED
    BY <1>3, <1>4, <2>3, <2>4 DEF z
<1> QED
  BY <1>5, <1>6, <1>7, <1>8

LEMMA CancelFactor ==
  ASSUME NEW d \in Nat \ {0}, NEW x \in Int, NEW y \in Int, d * x <= d * y
  PROVE  x <= y
<1>1. d * (y - x) = d * y - d * x /\ d * x \in Int /\ d * y \in Int
  OBVIOUS
<1>2. y - x < 0 => d * (y - x) < 0
  BY SignOfProduct
<1> QED
  BY <1>1, <1>2

(* Between two heights that are not too far apart the latitude is almost straight. *)
LEMMA AlmostStraight ==
  ASSUME NEW q \in Nat \ {0}, NEW r \in 0 .. q, NEW d \in Int, NEW y \in Heights,
         y + q * d \in Heights, Magnitude(q * d) <= Scale * StepHeight
  PROVE  /\ y + r * d \in Heights
         /\ Magnitude((q - r) * Latitude[y] + r * Latitude[y + q * d] - q * Latitude[y + r * d])
              <= q * Metre
<1> DEFINE z == y + q * d
           p == y + r * d
           m == Magnitude(d)
           gap == (q - r) * Latitude[y] + r * Latitude[z] - q * Latitude[p]
<1>1. /\ Scale * StepHeight \in Int /\ Scale * Extent \in Nat /\ Metre \in Nat /\ q * Metre \in Int
      /\ y \in Int /\ z \in Int /\ p \in Int
  BY GeometryAssumption, LatitudeAssumption DEF Heights
<1>2. p \in Heights
  <2>1. q * d \in Int /\ r * d \in Int /\ (d >= 0 => 0 <= r * d /\ r * d <= q * d)
        /\ (d <= 0 => q * d <= r * d /\ r * d <= 0)
    BY PartOfProduct
  <2>2. /\ -(Scale * Extent) <= y /\ y <= Scale * Extent
        /\ -(Scale * Extent) <= z /\ z <= Scale * Extent
    BY <1>1 DEF Heights
  <2>3. -(Scale * Extent) <= p /\ p <= Scale * Extent
    <3> DEFINE a == q * d
               b == r * d
               top == Scale * Extent
    <3> HIDE DEF a, b, top
    <3> QED
      BY <1>1, <2>1, <2>2 DEF a, b, top
  <2> QED
    BY <1>1, <2>3 DEF Heights
<1>3. Latitude[y] \in Int /\ Latitude[z] \in Int /\ Latitude[p] \in Int
  BY <1>2, LatitudeAssumption
<1>4. gap \in Int
  <2> HIDE DEF z, p
  <2> QED
    BY <1>3
<1>5. CASE d = 0
  <2>1. z = y /\ p = y
    BY <1>1, <1>5
  <2>2. gap = 0
    <3>1. \A l \in Int : (q - r) * l + r * l - q * l = 0
      OBVIOUS
    <3> HIDE DEF z, p
    <3> QED
      BY <1>3, <2>1, <3>1
  <2>3. Magnitude(gap) <= q * Metre
    <3>1. 0 <= q * Metre
      BY <1>1
    <3> HIDE DEF gap
    <3> QED
      BY <1>1, <2>2, <3>1 DEF Magnitude
  <2> QED
    BY <1>2, <2>3
<1>6. ASSUME NEW step, NEW t, NEW low \in Heights, m \in Nat \ {0},
             step = q * m, t \in 0 .. step, low + step \in Heights,
             Magnitude((step - t) * Latitude[low] + t * Latitude[low + step] - step * Latitude[low + t])
               = m * Magnitude(gap)
      PROVE  Magnitude(gap) <= q * Metre
  <2>1. step \in 1 .. Scale * StepHeight
    <3>1. Magnitude(q * d) = q * m
      <4>1. Magnitude(q) = q
        BY DEF Magnitude
      <4> QED
        BY <4>1, MagnitudeOfProduct
    <3>2. q * m > 0 /\ q * m \in Int
      BY <1>6
    <3> HIDE DEF m
    <3> QED
      BY <1>1, <1>6, <3>1, <3>2
  <2>2. m * Magnitude(gap) <= step * Metre
    <3> HIDE DEF gap, m
    <3> QED
      BY <1>6, <2>1, LatitudeAssumption
  <2>3. step * Metre = m * (q * Metre)
    <3> HIDE DEF m
    <3> QED
      BY <1>1, <1>6
  <2>4. Magnitude(gap) \in Int
    <3> HIDE DEF gap
    <3> QED
      BY <1>4, MagnitudeOfProduct
  <2> HIDE DEF gap, m
  <2> QED
    BY <1>1, <1>6, <2>2, <2>3, <2>4, CancelFactor
<1>7. CASE d > 0
  <2>1. m = d /\ m \in Nat \ {0}
    BY <1>7 DEF Magnitude
  <2> DEFINE step == q * m
             t == r * m
  <2>2. t \in 0 .. step /\ y + step = z /\ y + t = p
    <3>1. q * d \in Int /\ r * d \in Int /\ 0 <= r * d /\ r * d <= q * d
      BY <1>7, PartOfProduct
    <3> HIDE DEF m
    <3> QED
      BY <2>1, <3>1
  <2>3. (step - t) * Latitude[y] + t * Latitude[z] - step * Latitude[p] = m * gap
    <3> HIDE DEF m, z, p
    <3> QED
      BY <1>3, <2>1
  <2>4. Magnitude(m * gap) = m * Magnitude(gap)
    <3>1. Magnitude(m) = m
      BY <2>1 DEF Magnitude
    <3> HIDE DEF m, gap
    <3> QED
      BY <1>4, <2>1, <3>1, MagnitudeOfProduct
  <2>5. Magnitude(gap) <= q * Metre
    <3> HIDE DEF m, gap, t
    <3>1. Magnitude((step - t) * Latitude[y] + t * Latitude[y + step] - step * Latitude[y + t])
            = m * Magnitude(gap)
      <4> HIDE DEF step, z, p
      <4> QED
        BY <2>2, <2>3, <2>4
    <3>2. y + step \in Heights
      BY <2>2
    <3> QED
      BY <1>6, <2>1, <2>2, <3>1, <3>2
  <2> QED
    BY <1>2, <2>5
<1>8. CASE d < 0
  <2>1. m = -d /\ m \in Nat \ {0}
    BY <1>8 DEF Magnitude
  <2> DEFINE step == q * m
             t == (q - r) * m
  <2>2. t \in 0 .. step /\ z + step = y /\ z + t = p
    <3>1. q - r \in 0 .. q
      OBVIOUS
    <3>2. q * m \in Int /\ (q - r) * m \in Int /\ 0 <= (q - r) * m /\ (q - r) * m <= q * m
      <4> HIDE DEF m
      <4> QED
        BY <2>1, <3>1, PartOfProduct
    <3>3. q * m = -(q * d) /\ (q - r) * m = r * d - q * d /\ q * d \in Int /\ r * d \in Int
      <4>1. d = -m
        BY <2>1
      <4> HIDE DEF m
      <4> QED
        BY <2>1, <4>1
    <3> HIDE DEF m
    <3> QED
      BY <1>1, <3>2, <3>3
  <2>3. (step - t) * Latitude[z] + t * Latitude[y] - step * Latitude[p] = m * gap
    <3>1. \A lz \in Int, ly \in Int, lp \in Int :
            (q * m - (q - r) * m) * lz + ((q - r) * m) * ly - (q * m) * lp
              = m * ((q - r) * ly + r * lz - q * lp)
      <4> HIDE DEF m
      <4> QED
        BY <2>1
    <3> HIDE DEF m, z, p
    <3> QED
      BY <1>3, <3>1
  <2>4. Magnitude(m * gap) = m * Magnitude(gap)
    <3>1. Magnitude(m) = m
      BY <2>1 DEF Magnitude
    <3> HIDE DEF m, gap
    <3> QED
      BY <1>4, <2>1, <3>1, MagnitudeOfProduct
  <2>5. Magnitude(gap) <= q * Metre
    <3> HIDE DEF m, gap, t
    <3>1. Magnitude((step - t) * Latitude[z] + t * Latitude[z + step] - step * Latitude[z + t])
            = m * Magnitude(gap)
      <4> HIDE DEF step, z, p
      <4> QED
        BY <2>2, <2>3, <2>4
    <3>2. z + step \in Heights /\ z \in Heights
      BY <2>2
    <3> HIDE DEF z
    <3> QED
      BY <1>6, <2>1, <2>2, <3>1, <3>2
  <2> QED
    BY <1>2, <2>5
<1> QED
  BY <1>5, <1>7, <1>8

(* A step and the places on it, counted from the step's first end. *)
LEMMA PlaceOnStep ==
  ASSUME NEW e, IsEdge(e), OnMap(e.a), OnMap(e.b), NEW t \in 0 .. Scale
  PROVE  \E q \in Nat \ {0}, j \in 1 .. Steps(e), r \in Nat : r <= q /\ \A c \in {1, 2} :
           /\ e.a[c] \in Int /\ e.b[c] \in Int /\ Stop(e, j)[c] \in Int
           /\ Stop(e, j + 1)[c] = Stop(e, j)[c] + q * (e.b[c] - e.a[c])
           /\ OnEdge(e, t)[c] = Stop(e, j)[c] + r * (e.b[c] - e.a[c])
<1> DEFINE k == Steps(e)
           q == Scale \div k
<1>1. k \in Nat \ {0} /\ q \in Nat /\ Scale = k * q /\ Scale \in Nat \ {0}
  BY StepsDivide, GeometryAssumption
<1>2. q \in Nat \ {0}
  <2>1. q # 0
    <3> HIDE DEF q
    <3> QED
      BY <1>1
  <2> QED
    BY <1>1, <2>1
<1>3. PICK j \in 1 .. k, r \in 0 .. q : t = (j - 1) * q + r
  <2> HIDE DEF k, q
  <2>1. k \in Nat \ {0} /\ q \in Nat \ {0} /\ Within(t, k, q)
    BY <1>1, <1>2 DEF Within
  <2>2. \E j \in 1 .. k, r \in 0 .. q : IntoStep(t, q, j, r)
    BY ONLY <2>1, PartOfStep
  <2> QED
    BY <2>2 DEF IntoStep
<1>4. ASSUME NEW c \in {1, 2}
      PROVE  /\ e.a[c] \in Int /\ e.b[c] \in Int /\ Stop(e, j)[c] \in Int
             /\ Stop(e, j + 1)[c] = Stop(e, j)[c] + q * (e.b[c] - e.a[c])
             /\ OnEdge(e, t)[c] = Stop(e, j)[c] + r * (e.b[c] - e.a[c])
  <2> DEFINE x == e.a[c]
             d == e.b[c] - e.a[c]
             base == Scale * x
  <2>1. /\ x \in Int /\ e.b[c] \in Int /\ j \in Int /\ j + 1 \in Int
        /\ \A i \in Int : Along(e, c, i) = Scale * x + (i - 1) * (q * d)
    BY <1>1, StopsOfEdge
  <2>2. d \in Int /\ base \in Int
    <3>1. x \in Int /\ e.b[c] \in Int /\ Scale \in Int
      BY <1>1, <2>1
    <3> QED
      BY <3>1
  <2>3. Stop(e, j)[c] = Along(e, c, j) /\ Stop(e, j + 1)[c] = Along(e, c, j + 1)
    BY DEF Stop
  <2>4. OnEdge(e, t)[c] = Scale * x + t * d
    BY DEF OnEdge
  <2> HIDE DEF q, k, d, x
  <2>5. /\ (j - 1) * (q * d) \in Int
        /\ ((j + 1) - 1) * (q * d) = (j - 1) * (q * d) + q * d
        /\ t * d = (j - 1) * (q * d) + r * d
    <3>1. ((j - 1) * q + r) * d = (j - 1) * (q * d) + r * d
      BY <1>2, <2>1, <2>2
    <3> QED
      BY <1>2, <1>3, <2>1, <2>2, <3>1
  <2>6. q * d \in Int /\ r * d \in Int
    BY <1>2, <2>2
  <2>7. Stop(e, j)[c] \in Int
    BY <2>1, <2>2, <2>3, <2>5
  <2>8. Stop(e, j + 1)[c] = Stop(e, j)[c] + q * d
    <3> DEFINE s == (j - 1) * (q * d)
               f == q * d
    <3>1. Along(e, c, j) = base + s /\ Along(e, c, j + 1) = base + (s + f)
      BY <2>1, <2>5
    <3>2. s \in Int /\ f \in Int
      BY <2>5, <2>6
    <3> HIDE DEF s, f, base
    <3>3. base + (s + f) = (base + s) + f
      BY <2>2, <3>2
    <3> QED
      BY <2>3, <3>1, <3>3 DEF f
  <2>9. OnEdge(e, t)[c] = Stop(e, j)[c] + r * d
    <3> DEFINE s == (j - 1) * (q * d)
               f == r * d
    <3>1. Along(e, c, j) = base + s /\ OnEdge(e, t)[c] = base + (s + f)
      BY <2>1, <2>4, <2>5
    <3>2. s \in Int /\ f \in Int
      BY <2>5, <2>6
    <3> HIDE DEF s, f, base
    <3>3. base + (s + f) = (base + s) + f
      BY <2>2, <3>2
    <3> QED
      BY <2>3, <3>1, <3>3 DEF f
  <2> QED
    BY <2>1, <2>7, <2>8, <2>9 DEF d, x
<1> HIDE DEF q, k
<1>5. r \in Nat /\ r <= q
  BY <1>2
<1> QED
  BY <1>2, <1>4, <1>5 DEF k

LEMMA StepRunsPast ==
  ASSUME NEW e, IsEdge(e), OnMap(e.a), OnMap(e.b), NEW t \in 0 .. Scale
  PROVE  \E j \in 1 .. Steps(e) : RunsPast(InDegrees(Stop(e, j), Stop(e, j + 1)), OnEdge(e, t))
<1>1. PICK q \in Nat \ {0}, j \in 1 .. Steps(e), r \in Nat : r <= q /\ \A c \in {1, 2} :
           /\ e.a[c] \in Int /\ e.b[c] \in Int /\ Stop(e, j)[c] \in Int
           /\ Stop(e, j + 1)[c] = Stop(e, j)[c] + q * (e.b[c] - e.a[c])
           /\ OnEdge(e, t)[c] = Stop(e, j)[c] + r * (e.b[c] - e.a[c])
  BY PlaceOnStep
<1> DEFINE u == Stop(e, j)
           v == Stop(e, j + 1)
           p == OnEdge(e, t)
           f == InDegrees(u, v)
           x == e.b[1] - e.a[1]
           y == e.b[2] - e.a[2]
<1>2. /\ u[1] \in Int /\ u[2] \in Int /\ x \in Int /\ y \in Int /\ r \in 0 .. q
      /\ v[1] = u[1] + q * x /\ v[2] = u[2] + q * y
      /\ p[1] = u[1] + r * x /\ p[2] = u[2] + r * y
  BY <1>1
<1>3. /\ Steps(e) \in Nat \ {0} /\ j \in 1 .. Steps(e) + 1 /\ j + 1 \in 1 .. Steps(e) + 1
  BY StepsOfEdge
<1>4. u[2] \in Heights /\ v[2] \in Heights
  BY <1>3, HeightsOfStops
<1>5. Near(u, v)
  BY StopsAreNear
<1>6. /\ f.a[1] = u[1] /\ f.a[2] = Latitude[u[2]]
      /\ f.b[1] = v[1] /\ f.b[2] = Latitude[v[2]]
  BY DEF InDegrees, InverseMercator
<1> HIDE DEF u, v, p, f, x, y
<1>7. /\ q * x \in Int /\ r * x \in Int /\ q * y \in Int /\ r * y \in Int
      /\ x >= 0 => 0 <= r * x /\ r * x <= q * x
      /\ x <= 0 => q * x <= r * x /\ r * x <= 0
      /\ y >= 0 => 0 <= r * y /\ r * y <= q * y
      /\ y <= 0 => q * y <= r * y /\ r * y <= 0
  BY <1>2, PartOfProduct
<1>8. Between(p[1], f.a[1], f.b[1])
  <2> DEFINE qx == q * x
             rx == r * x
  <2>1. qx \in Int /\ rx \in Int /\ ((0 <= rx /\ rx <= qx) \/ (qx <= rx /\ rx <= 0))
    BY <1>2, <1>7
  <2>2. f.a[1] = u[1] /\ f.b[1] = u[1] + qx /\ p[1] = u[1] + rx
    BY <1>2, <1>6
  <2> HIDE DEF qx, rx
  <2> QED
    BY <1>2, <2>1, <2>2 DEF Between
<1>9. CASE x = 0
  <2>1. f.b[1] - f.a[1] = 0
    <3>1. v[1] = u[1]
      BY <1>2, <1>9
    <3> QED
      BY <1>2, <1>6, <3>1
  <2>2. p[2] \in Heights /\ Between(p[2], u[2], v[2])
    <3> DEFINE qy == q * y
               ry == r * y
               top == Scale * Extent
    <3>1. qy \in Int /\ ry \in Int /\ ((0 <= ry /\ ry <= qy) \/ (qy <= ry /\ ry <= 0))
      BY <1>2, <1>7
    <3>2. v[2] = u[2] + qy /\ p[2] = u[2] + ry
      BY <1>2
    <3>3. top \in Nat /\ u[2] \in -top .. top /\ v[2] \in -top .. top
      BY <1>4, GeometryAssumption DEF Heights
    <3> HIDE DEF qy, ry, top
    <3>4. p[2] \in -top .. top /\ Between(p[2], u[2], v[2])
      BY <1>2, <3>1, <3>2, <3>3 DEF Between
    <3> QED
      BY <3>4 DEF Heights, top
  <2>3. Between(Latitude[p[2]], f.a[2], f.b[2])
    BY <1>4, <1>6, <2>2, LatitudeGrows DEF Between
  <2>4. RunsPast(f, p)
    BY <1>8, <2>1, <2>3 DEF RunsPast
  <2> QED
    BY <2>4 DEF f, u, v, p
<1>10. CASE x # 0
  <2> DEFINE gap == (q - r) * Latitude[u[2]] + r * Latitude[v[2]] - q * Latitude[p[2]]
             width == f.b[1] - f.a[1]
             err == width * (Latitude[p[2]] - f.a[2]) - (p[1] - f.a[1]) * (f.b[2] - f.a[2])
  <2>1. Magnitude(q * y) <= Scale * StepHeight
    <3>1. u[1] # v[1]
      <4>1. q * x # 0
        <5>1. CASE x > 0
          <6>1. q * x > 0
            BY <1>2, <5>1, SignOfProduct
          <6> QED
            BY <1>7, <6>1
        <5>2. CASE x < 0
          <6>1. q * x < 0
            BY <1>2, <5>2, SignOfProduct
          <6> QED
            BY <1>7, <6>1
        <5> QED
          BY <1>2, <1>10, <5>1, <5>2
      <4> DEFINE qx == q * x
      <4>2. qx \in Int /\ qx # 0 /\ v[1] = u[1] + qx
        BY <1>2, <1>7, <4>1
      <4> HIDE DEF qx
      <4> QED
        BY <1>2, <4>2
    <3>2. v[2] - u[2] = q * y
      <4> DEFINE qy == q * y
      <4>1. qy \in Int /\ v[2] = u[2] + qy
        BY <1>2, <1>7
      <4> HIDE DEF qy
      <4>2. v[2] - u[2] = qy
        BY <1>2, <4>1
      <4> QED
        BY <4>2 DEF qy
    <3>3. CASE u[2] = v[2]
      <4>1. q * y = 0
        <5>1. v[2] - u[2] = 0
          BY <1>2, <3>3
        <5> QED
          BY <3>2, <5>1
      <4>2. Scale * StepHeight \in Nat
        BY GeometryAssumption
      <4> QED
        BY <4>1, <4>2 DEF Magnitude
    <3>4. CASE u[2] # v[2]
      BY <1>5, <3>1, <3>2, <3>4 DEF Near
    <3> QED
      BY <3>3, <3>4
  <2>2. p[2] \in Heights /\ Magnitude(gap) <= q * Metre
    <3>1. /\ u[2] + r * y \in Heights
          /\ Magnitude((q - r) * Latitude[u[2]] + r * Latitude[u[2] + q * y] - q * Latitude[u[2] + r * y])
               <= q * Metre
      BY <1>2, <1>4, <2>1, AlmostStraight
    <3> QED
      BY <1>2, <3>1
  <2>3. Latitude[u[2]] \in Int /\ Latitude[v[2]] \in Int /\ Latitude[p[2]] \in Int /\ Metre \in Nat
    BY <1>4, <2>2, LatitudeAssumption
  <2>4. width = q * x /\ p[1] - f.a[1] = r * x
    <3> DEFINE qx == q * x
               rx == r * x
    <3>1. qx \in Int /\ rx \in Int /\ v[1] = u[1] + qx /\ p[1] = u[1] + rx
      BY <1>2, <1>7
    <3> HIDE DEF qx, rx
    <3>2. width = qx /\ p[1] - f.a[1] = rx
      BY <1>2, <1>6, <3>1
    <3> QED
      BY <3>2 DEF qx, rx
  <2>5. err = (-x) * gap
    <3>1. \A lu \in Int, lv \in Int, lp \in Int :
            (q * x) * (lp - lu) - (r * x) * (lv - lu) = (-x) * ((q - r) * lu + r * lv - q * lp)
      BY <1>2
    <3>2. err = (q * x) * (Latitude[p[2]] - Latitude[u[2]])
                  - (r * x) * (Latitude[v[2]] - Latitude[u[2]])
      BY <1>6, <2>4
    <3> HIDE DEF err
    <3> QED
      BY <2>3, <3>1, <3>2
  <2>6. gap \in Int
    BY <2>3
  <2>7. Magnitude(err) = Magnitude(x) * Magnitude(gap) /\ Magnitude(width) = q * Magnitude(x)
    <3> HIDE DEF gap, err, width
    <3>1. Magnitude((-x) * gap) = Magnitude(-x) * Magnitude(gap) /\ Magnitude(-x) = Magnitude(x)
      <4>1. -x \in Int
        BY <1>2
      <4> QED
        BY <1>2, <2>6, <4>1, MagnitudeOfProduct
    <3>2. Magnitude(q * x) = Magnitude(q) * Magnitude(x) /\ Magnitude(q) = q
      BY <1>2, MagnitudeOfProduct DEF Magnitude
    <3> QED
      BY <2>4, <2>5, <3>1, <3>2
  <2>8. Magnitude(err) <= Magnitude(width) * Metre
    <3> DEFINE m == Magnitude(x)
               g == Magnitude(gap)
    <3>1. m \in Nat /\ g \in Nat /\ g <= q * Metre
      <4> HIDE DEF gap
      <4> QED
        BY <1>2, <2>2, <2>6, MagnitudeOfProduct
    <3> HIDE DEF m, g
    <3>2. m * g <= m * (q * Metre)
      <4>1. q * Metre \in Int
        BY <2>3
      <4> QED
        BY <3>1, <4>1, ProductGrows
    <3>3. m * (q * Metre) = (q * m) * Metre
      BY <2>3, <3>1
    <3> QED
      BY <2>7, <3>2, <3>3 DEF m, g
  <2>9. width # 0
    <3>1. q * x # 0
      <4>1. (q * x < 0 <=> x < 0) /\ (q * x > 0 <=> x > 0)
        BY <1>2, SignOfProduct
      <4>2. x < 0 \/ x > 0
        BY <1>2, <1>10
      <4> QED
        BY <1>7, <4>1, <4>2
    <3> QED
      BY <2>4, <3>1
  <2>10. RunsPast(f, p)
    BY <1>8, <2>8, <2>9 DEF RunsPast
  <2> QED
    BY <2>10 DEF f, u, v, p
<1> QED
  BY <1>9, <1>10

-----------------------------------------------------------------------------
(* Each item of the payload has the rings of the area it was published with. *)

RingsFit(f, rings) ==
    /\ IsEsri(f) =>
         /\ Readable(f)
         /\ rings = [n \in DOMAIN f.area |->
                      IF IsMercator(f) THEN Converted(f.area[n][1]) ELSE Degrees(f.area[n][1])]
    /\ ~IsMercator(f) => \A n \in DOMAIN rings : rings[n].projected = FALSE

RingsKept == \A i \in DOMAIN features :
                RingsFit(response.features[features[i].index], features[i].rings)

LEMMA NoRings ==
  ASSUME NEW left
  PROVE  DOMAIN Rings(<<>>, left).rings = {}
BY DEF Rings

LEMMA GeoJsonIsDegrees ==
  ASSUME NEW g, NEW left
  PROVE  \A n \in DOMAIN ReadGeoJson(g, left).rings :
           ReadGeoJson(g, left).rings[n].projected = FALSE
<1> DEFINE outer == NonEmpty(g.polygons)
           rings == [i \in DOMAIN outer |-> Degrees(GoodPoints(outer[i][1]))]
           read == ReadGeoJson(g, left)
<1>1. read = Rings(rings, left)
  BY DEF ReadGeoJson
<1>2. \A n \in DOMAIN rings : rings[n].projected = FALSE
  BY ProjectedOrNot
<1> HIDE DEF rings, read
<1>3. read.rings = rings
  BY <1>1, RingsAreRead
<1> QED
  BY <1>2, <1>3 DEF read

LEMMA OthersAreDegrees ==
  ASSUME NEW f, ~IsEsri(f)
  PROVE  \A n \in DOMAIN ReadRings(f).rings : ReadRings(f).rings[n].projected = FALSE
<1> DEFINE g == f.geometry
           kind == response.product.kind
<1>1. CASE g.shape = "geojson" /\ kind # "storm_reports"
  <2>1. ReadRings(f) = ReadGeoJson(g, remaining)
    BY <1>1 DEF ReadRings, Read
  <2> DEFINE read == ReadGeoJson(g, remaining)
  <2>2. \A n \in DOMAIN read.rings : read.rings[n].projected = FALSE
    <3> HIDE DEF g
    <3> QED
      BY GeoJsonIsDegrees
  <2> HIDE DEF read
  <2> QED
    BY <2>1, <2>2 DEF read
<1>2. CASE ~(g.shape = "geojson" /\ kind # "storm_reports")
  <2>1. ReadRings(f) = Rings(<<>>, remaining)
    BY <1>2 DEF ReadRings, Read, IsEsri
  <2> QED
    BY <2>1, NoRings
<1> QED
  BY <1>1, <1>2

LEMMA ReadRingsFit ==
  ASSUME response \in Responses, remaining \in Nat, NEW f \in ToSet(response.features),
         ReadRings(f).ok
  PROVE  RingsFit(f, ReadRings(f).rings)
<1>1. CASE ~IsEsri(f)
  BY <1>1, OthersAreDegrees DEF RingsFit
<1>2. CASE IsEsri(f)
  <2> DEFINE g == f.geometry
             reference == response.reference
             read == ReadEsri(g, reference, remaining)
             outer == OuterRings(g.rings)
             all == [i \in DOMAIN outer |-> AsRead(g, reference, outer[i])]
  <2>1. ReadRings(f) = read /\ read.ok
    BY <1>2, EsriIsRead
  <2>2. ~Refused(g, reference) /\ read.rings = all
    <3> DEFINE cost == IF IsMercatorIn(g, reference) THEN Cost(g.rings) ELSE 0
    <3>1. g.rings \in Seq(Seq(Points))
      BY <1>2, EsriRingsType
    <3>2. /\ Refused(g, reference) => read.ok = FALSE
          /\ ~Refused(g, reference) =>
               /\ g.rings \in Seq(Seq(Plane))
               /\ cost \in Nat
               /\ cost > remaining => read.ok = FALSE
               /\ cost <= remaining =>
                    /\ read.ok = TRUE
                    /\ read.left = remaining - cost
                    /\ read.rings = all
      <4> HIDE DEF g, reference
      <4> QED
        BY <3>1, EsriReads
    <3> HIDE DEF cost, read, all
    <3>3. ~Refused(g, reference)
      BY <2>1, <3>2
    <3>4. cost \in Nat /\ ~(cost > remaining)
      BY <2>1, <3>2, <3>3
    <3>5. cost <= remaining
      BY <3>4
    <3> QED
      BY <3>2, <3>3, <3>5
  <2>3. IsMercator(f) <=> IsMercatorIn(g, reference)
    BY <1>2 DEF IsMercator, IsMercatorIn
  <2>4. /\ Readable(f)
        /\ all = [n \in DOMAIN f.area |->
                    IF IsMercator(f) THEN Converted(f.area[n][1]) ELSE Degrees(f.area[n][1])]
    <3>1. Readable(f)
      BY <1>2, <2>2, ReadableIsNotRefused
    <3>2. outer = FirstRings(f.area)
      BY <1>2, <3>1, ReadableArea
    <3>3. all = [i \in DOMAIN outer |->
                   IF IsMercator(f) THEN Converted(outer[i]) ELSE Degrees(outer[i])]
      BY <2>3 DEF AsRead
    <3> QED
      BY <3>1, <3>2, <3>3 DEF FirstRings
  <2>5. ASSUME ~IsMercator(f)
        PROVE  \A n \in DOMAIN all : all[n].projected = FALSE
    BY <2>3, <2>5, ProjectedOrNot DEF AsRead
  <2> HIDE DEF all
  <2> QED
    BY <2>1, <2>2, <2>4, <2>5 DEF RingsFit
<1> QED
  BY <1>1, <1>2

LEMMA SameRingsFit ==
  ASSUME response' = response
  PROVE  \A f, rings : RingsFit(f, rings)' <=> RingsFit(f, rings)
BY SameJudgement DEF RingsFit

LEMMA RingsStart == Init => RingsKept
BY DEF Init, RingsKept

LEMMA RingsAreKept == Reading /\ RingsKept /\ [Next]_vars => RingsKept'
<1> SUFFICES ASSUME Reading, RingsKept, [Next]_vars PROVE RingsKept'
  OBVIOUS
<1>1. /\ response \in Responses /\ remaining \in Nat /\ IsSequence(features)
      /\ next \in 1 .. Len(response.features) + 1 /\ Len(response.features) \in Nat
  BY FeatureType, GeometryAssumption DEF Reading, TypeOK
<1>2. CASE response' = response /\ features' = features
  BY <1>2, SameRingsFit DEF RingsKept
<1>3. CASE FailFeature
  BY <1>3 DEF FailFeature, RingsKept
<1>4. CASE ReadFeature
  <2> DEFINE rings == ReadRings(Feature).rings
             new == [index |-> next, item |-> Item(response.product, Feature), rings |-> rings]
  <2>1. /\ More /\ ReadRings(Feature).ok /\ response' = response /\ features' = WithItem(rings)
    BY <1>4 DEF ReadFeature
  <2>2. Feature = response.features[next] /\ Feature \in ToSet(response.features)
    <3>1. next \in 1 .. Len(response.features)
      BY <1>1, <2>1 DEF More
    <3> QED
      BY <1>1, <3>1, FeatureType DEF Feature
  <2>3. RingsFit(Feature, rings)
    BY <1>1, <2>1, <2>2, ReadRingsFit
  <2>4. new.index = next /\ new.rings = rings
    OBVIOUS
  <2>5. /\ Len(features) \in Nat /\ DOMAIN features = 1 .. Len(features)
        /\ \/ WithItem(rings) = features
           \/ /\ DOMAIN WithItem(rings) = 1 .. Len(features) + 1
              /\ \A i \in 1 .. Len(features) : WithItem(rings)[i] = features[i]
              /\ WithItem(rings)[Len(features) + 1] = new
    <3> HIDE DEF rings
    <3> QED
      BY <1>1, WithItemType
  <2> HIDE DEF rings, new
  <2>6. CASE features' = features
    BY <1>2, <2>1, <2>6
  <2>7. CASE features' # features
    <3>1. ASSUME NEW i \in DOMAIN features'
          PROVE  RingsFit(response.features[features'[i].index], features'[i].rings)
      <4>1. i \in DOMAIN features \/ i = Len(features) + 1
        BY <2>1, <2>5, <2>7
      <4>2. CASE i \in DOMAIN features
        BY <2>1, <2>5, <2>7, <4>2 DEF RingsKept
      <4>3. CASE i = Len(features) + 1
        BY <2>1, <2>2, <2>3, <2>4, <2>5, <2>7, <4>3
      <4> QED
        BY <4>1, <4>2, <4>3
    <3> QED
      BY <2>1, <3>1, SameRingsFit DEF RingsKept
  <2> QED
    BY <2>6, <2>7
<1>5. CASE SkipFeature
  BY <1>2, <1>5 DEF SkipFeature
<1>6. CASE Finish
  BY <1>2, <1>6 DEF Finish
<1>7. CASE UNCHANGED vars
  BY <1>2, <1>7 DEF vars
<1> QED
  BY <1>3, <1>4, <1>5, <1>6, <1>7 DEF Next

(* The corners of a readable area lie on the map. *)
LEMMA CornersOnMap ==
  ASSUME response \in Responses, NEW f \in ToSet(response.features),
         IsMercator(f), Readable(f), NEW n \in DOMAIN f.area
  PROVE  /\ f.area[n][1] \in Seq(Plane) /\ f.area[n][1] # <<>>
         /\ \A k \in DOMAIN f.area[n][1] : OnMap(f.area[n][1][k])
<1> DEFINE ring == f.area[n][1]
<1>1. IsEsri(f)
  BY DEF IsMercator
<1>2. ring \in Seq(Plane) /\ Wound(f.area)
  BY <1>1, ReadableArea
<1>3. f.area[n] # <<>> /\ ring # <<>>
  BY <1>2 DEF Wound
<1>4. ring \in ToSet(f.area[n])
  <2> DEFINE S == Seq(Points)
             T == Seq(S)
  <2>1. f.area \in Seq(T)
    BY <1>1, PublishedArea
  <2> HIDE DEF T
  <2>2. f.area[n] \in T
    BY <2>1, MembersOfSeq
  <2> USE DEF T
  <2> HIDE DEF S, ring
  <2>3. Len(f.area[n]) \in Nat /\ DOMAIN f.area[n] = 1 .. Len(f.area[n]) /\ Len(f.area[n]) # 0
    BY <1>3, <2>2, LenProperties, EmptySeq
  <2>4. 1 \in DOMAIN f.area[n]
    BY <2>3
  <2> QED
    BY <2>4 DEF ToSet, ring
<1>5. \A pt \in ToSet(ring) : \A c \in {1, 2} : Magnitude(pt[c]) <= Extent
  <2> HIDE DEF ring
  <2> QED
    BY <1>1, <1>4 DEF Readable
<1> HIDE DEF ring
<1>6. \A k \in DOMAIN ring : OnMap(ring[k])
  BY <1>5 DEF OnMap, ToSet
<1> QED
  BY <1>2, <1>3, <1>6 DEF ring

(* A feature of the payload is a record of the response with the rings it had. *)
LEMMA KeptFeature ==
  ASSUME Reading, RingsKept, NEW i \in DOMAIN features
  PROVE  /\ response.features[features[i].index] \in ToSet(response.features)
         /\ RingsFit(response.features[features[i].index], features[i].rings)
<1>1. /\ response \in Responses /\ features[i].index \in 1 .. next - 1
      /\ next \in 1 .. Len(response.features) + 1
  BY DEF Reading, TypeOK
<1>2. Len(response.features) \in Nat
  BY <1>1, FeatureType
<1>3. features[i].index \in 1 .. Len(response.features)
  BY <1>1, <1>2
<1> QED
  BY <1>1, <1>3, FeatureType DEF RingsKept

LEMMA KeptRingsKeepBoundary == Reading /\ RingsKept => BoundaryKept
<1> SUFFICES ASSUME Reading, RingsKept,
                    NEW i \in DOMAIN features, NEW n \in DOMAIN features[i].rings
             PROVE  LET f == response.features[features[i].index]
                        ring == features[i].rings[n]
                        edges == ToSet(Edges(ring.points))
                    IN  /\ ring.projected <=> IsMercator(f)
                        /\ ring.projected =>
                             \A e \in ToSet(Edges(f.area[n][1])) :
                               /\ InverseMercator(OnEdge(e, 0)) \in ToSet(ring.points)
                               /\ \A t \in 0 .. Scale : \E d \in edges : RunsPast(d, OnEdge(e, t))
  BY DEF BoundaryKept
<1> DEFINE f == response.features[features[i].index]
           rings == features[i].rings
<1>1. response \in Responses /\ f \in ToSet(response.features)
  BY KeptFeature DEF Reading
<1>2. RingsFit(f, rings)
  BY KeptFeature
<1> HIDE DEF f, rings
<1>3. CASE IsMercator(f)
  <2> DEFINE corners == f.area[n][1]
  <2>1. Readable(f) /\ rings = [k \in DOMAIN f.area |-> Converted(f.area[k][1])]
    <3>1. IsEsri(f)
      BY <1>3 DEF IsMercator
    <3> QED
      BY <1>2, <1>3, <3>1 DEF RingsFit
  <2>2. n \in DOMAIN f.area
    BY <2>1 DEF rings
  <2>3. rings[n] = Converted(corners)
    BY <2>1, <2>2
  <2>4. /\ corners \in Seq(Plane) /\ corners # <<>>
        /\ \A k \in DOMAIN corners : OnMap(corners[k])
    BY <1>1, <1>3, <2>1, <2>2, CornersOnMap
  <2> HIDE DEF corners
  <2>5. rings[n].projected = TRUE /\ rings[n].points = Projected(corners)
    BY <2>3, ProjectedOrNot
  <2>6. ASSUME NEW e \in ToSet(Edges(corners))
        PROVE  /\ InverseMercator(OnEdge(e, 0)) \in ToSet(Projected(corners))
               /\ \A t \in 0 .. Scale :
                    \E d \in ToSet(Edges(Projected(corners))) : RunsPast(d, OnEdge(e, t))
    <3>1. /\ IsEdge(e) /\ OnMap(e.a) /\ OnMap(e.b)
          /\ \A j \in 1 .. Steps(e) :
               InDegrees(Stop(e, j), Stop(e, j + 1)) \in ToSet(Edges(Projected(corners)))
          /\ InverseMercator(Scaled(e.a)) \in ToSet(Projected(corners))
      BY <2>4, StepsAreConverted
    <3>2. OnEdge(e, 0) = Scaled(e.a)
      <4>1. /\ e.a[1] \in Int /\ e.a[2] \in Int /\ e.b[1] \in Int /\ e.b[2] \in Int
            /\ Scale \in Int
        BY <3>1, HeightOfEdge, GeometryAssumption
      <4>2. /\ Scale * e.a[1] + 0 * (e.b[1] - e.a[1]) = Scale * e.a[1]
            /\ Scale * e.a[2] + 0 * (e.b[2] - e.a[2]) = Scale * e.a[2]
        BY <4>1
      <4> QED
        BY <4>2 DEF OnEdge, Scaled
    <3>3. ASSUME NEW t \in 0 .. Scale
          PROVE  \E d \in ToSet(Edges(Projected(corners))) : RunsPast(d, OnEdge(e, t))
      BY <3>1, StepRunsPast
    <3> QED
      BY <3>1, <3>2, <3>3
  <2> QED
    BY <1>3, <2>5, <2>6 DEF f, rings, corners
<1>4. CASE ~IsMercator(f)
  <2>1. rings[n].projected = FALSE
    BY <1>2, <1>4 DEF RingsFit, rings
  <2> QED
    BY <1>4, <2>1 DEF f, rings
<1> QED
  BY <1>3, <1>4

(* For every area, extent, height of a step and increasing latitude that is  *)
(* almost straight over such a height: a ring that is converted keeps its    *)
(* corners, and wherever one looks on a published edge, the closing one      *)
(* included, an edge in degrees runs past within one metre of latitude       *)
(* (project_mercator_ring()); and what is in degrees is never converted.     *)
THEOREM BoundaryIsKept == Spec => []BoundaryKept
<1>1. Init => Reading /\ RingsKept
  BY ReadingStarts, RingsStart
<1>2. Reading /\ RingsKept /\ [Next]_vars => (Reading /\ RingsKept)'
  BY ReadingGoesOn, RingsAreKept
<1>3. Spec => [](Reading /\ RingsKept)
  BY <1>1, <1>2, PTL DEF Spec
<1> QED
  BY <1>3, KeptRingsKeepBoundary, PTL

-----------------------------------------------------------------------------
(* How often the boundary of an area passes a ray: odd or even. *)

(* The ray of point_in_polygon() from w is crossed between p and q. *)
Passes(w, p, q) == Crosses(w[1], w[2], [a |-> p, b |-> q])

(* Where a path that goes on to z crosses the ray from w. *)
Turns(s, z, w) == {j \in 1 .. Len(s) : Passes(w, s[j], IF j = Len(s) THEN z ELSE s[j + 1])}

LEMMA JoinedTurns ==
  ASSUME NEW S, NEW s \in Seq(S), NEW t \in Seq(S), t # <<>>, NEW z, NEW w
  PROVE  IsOdd(Turns(s \o t, z, w)) <=> ~(IsOdd(Turns(s, t[1], w)) <=> IsOdd(Turns(t, z, w)))
<1> DEFINE u == s \o t
           n == Len(s)
           m == Len(t)
           A == Turns(s, t[1], w)
           B == Turns(t, z, w)
           C == {n + j : j \in B}
<1>1. n \in Nat /\ m \in Nat \ {0}
  BY EmptySeq, LenProperties
<1>2. Len(u) = n + m /\ \A i \in 1 .. n + m : u[i] = IF i <= n THEN s[i] ELSE t[i - n]
  BY ConcatProperties
<1>3. A \in SUBSET (1 .. n) /\ B \in SUBSET (1 .. m)
  BY DEF Turns
<1>4. ASSUME NEW j \in 1 .. n
      PROVE  j \in Turns(u, z, w) <=> j \in A
  <2>1. /\ j \in 1 .. n + m /\ j <= n /\ j # n + m
        /\ j + 1 \in 1 .. n + m /\ (j # n => j + 1 <= n) /\ (j = n => ~(j + 1 <= n) /\ (j + 1) - n = 1)
    BY <1>1
  <2>2. u[j] = s[j] /\ u[j + 1] = IF j = n THEN t[1] ELSE s[j + 1]
    <3> HIDE DEF u, n, m
    <3> QED
      BY <1>2, <2>1
  <2>3. j \in Turns(u, z, w) <=> Passes(w, u[j], u[j + 1])
    <3> HIDE DEF u, n, m
    <3> QED
      BY <1>2, <2>1 DEF Turns
  <2>4. j \in A <=> Passes(w, s[j], IF j = n THEN t[1] ELSE s[j + 1])
    BY DEF Turns
  <2> HIDE DEF u, n, m, A
  <2> QED
    BY <2>2, <2>3, <2>4
<1>5. ASSUME NEW j \in 1 .. m
      PROVE  n + j \in Turns(u, z, w) <=> j \in B
  <2>1. /\ n + j \in 1 .. n + m /\ ~(n + j <= n) /\ (n + j) - n = j
        /\ (n + j = n + m <=> j = m)
        /\ j # m => /\ (n + j) + 1 \in 1 .. n + m /\ ~((n + j) + 1 <= n)
                    /\ ((n + j) + 1) - n = j + 1
    BY <1>1
  <2>2. u[n + j] = t[j] /\ (j # m => u[(n + j) + 1] = t[j + 1])
    <3> HIDE DEF u, n, m
    <3> QED
      BY <1>2, <2>1
  <2>3. n + j \in Turns(u, z, w)
          <=> Passes(w, u[n + j], IF j = m THEN z ELSE u[(n + j) + 1])
    <3> HIDE DEF u, n, m
    <3> QED
      BY <1>2, <2>1 DEF Turns
  <2>4. j \in B <=> Passes(w, t[j], IF j = m THEN z ELSE t[j + 1])
    BY DEF Turns
  <2> HIDE DEF u, n, m, B
  <2> QED
    BY <2>2, <2>3, <2>4
<1>6. Turns(u, z, w) \in SUBSET (1 .. n + m)
  <2> HIDE DEF u, n, m
  <2> QED
    BY <1>2 DEF Turns
<1> HIDE DEF u, n, m, A, B
<1>7. Turns(u, z, w) = A \cup C
  <2>1. \A i \in 1 .. n + m : i \in 1 .. n \/ (i - n \in 1 .. m /\ i = n + (i - n))
    BY <1>1
  <2>2. \A j \in 1 .. m : n + j \in 1 .. n + m
    BY <1>1
  <2>3. ASSUME NEW i \in Turns(u, z, w) PROVE i \in A \cup C
    <3>1. CASE i \in 1 .. n
      BY <1>4, <3>1
    <3>2. CASE i - n \in 1 .. m /\ i = n + (i - n)
      <4>1. i - n \in B
        BY <1>5, <3>2
      <4> QED
        BY <3>2, <4>1
    <3> QED
      BY <1>6, <2>1, <3>1, <3>2
  <2>4. ASSUME NEW i \in C PROVE i \in Turns(u, z, w)
    <3>1. PICK j \in B : i = n + j
      OBVIOUS
    <3> QED
      BY <1>3, <1>5, <3>1
  <2> HIDE DEF C
  <2> QED
    BY <1>3, <1>4, <2>3, <2>4
<1>8. A \cap C = {}
  BY <1>1, <1>3
<1>9. IsFiniteSet(A) /\ IsFiniteSet(C) /\ (IsOdd(C) <=> IsOdd(B))
  BY <1>1, <1>3, NumbersAreFinite, OddShift
<1> HIDE DEF C
<1>10. IsOdd(A \cup C) <=> ~(IsOdd(A) <=> IsOdd(C))
  BY <1>8, <1>9, OddUnion
<1>11. IsOdd(Turns(u, z, w)) <=> ~(IsOdd(A) <=> IsOdd(B))
  BY <1>7, <1>9, <1>10
<1> QED
  BY <1>11 DEF u, A, B

(* The segments of a path, each going on to the next, that cross it an odd number of times. *)
OddSegments(ss, z, w) ==
    {i \in 1 .. Len(ss) : IsOdd(Turns(ss[i], IF i = Len(ss) THEN z ELSE ss[i + 1][1], w))}

LEMMA OddSegmentsOfFlat ==
  ASSUME NEW S, NEW ss \in Seq(Seq(S)), \A i \in 1 .. Len(ss) : ss[i] # <<>>, NEW z, NEW w
  PROVE  IsOdd(Turns(FlattenSeq(ss), z, w)) <=> IsOdd(OddSegments(ss, z, w))
<1> DEFINE T == Seq(S)
           Full(tt) == \A i \in 1 .. Len(tt) : tt[i] # <<>>
           Good(tt) == \A x : IsOdd(Turns(FlattenSeq(tt), x, w)) <=> IsOdd(OddSegments(tt, x, w))
           Holds == {k \in Nat : \A tt \in Seq(T) : Len(tt) = k /\ Full(tt) => Good(tt)}
<1>1. 0 \in Holds
  <2>1. ASSUME NEW tt \in Seq(T), Len(tt) = 0 PROVE Good(tt)
    <3>1. FlattenSeq(tt) = <<>>
      <4>1. tt = <<>>
        BY <2>1, EmptySeq
      <4> QED
        BY <4>1, FlattenNothing
    <3>2. \A x : Turns(<<>>, x, w) = {}
      BY DEF Turns
    <3>3. \A x : OddSegments(tt, x, w) = {}
      BY <2>1 DEF OddSegments
    <3> QED
      BY <3>1, <3>2, <3>3
  <2> HIDE DEF Good, T, Full
  <2> QED
    BY <2>1
<1>2. ASSUME NEW k \in Holds PROVE k + 1 \in Holds
  <2>1. k \in Nat /\ \A tt \in Seq(T) : Len(tt) = k /\ Full(tt) => Good(tt)
    OBVIOUS
  <2>2. ASSUME NEW tt \in Seq(T), Len(tt) = k + 1, Full(tt), NEW x
        PROVE  IsOdd(Turns(FlattenSeq(tt), x, w)) <=> IsOdd(OddSegments(tt, x, w))
    <3>1. PICK ff \in Seq(T), s \in T : tt = Append(ff, s)
      <4>1. tt # <<>>
        BY <2>1, <2>2
      <4> HIDE DEF T
      <4> QED
        BY <4>1, SequenceEmptyOrAppend
    <3>2. FlattenSeq(tt) = FlattenSeq(ff) \o s
      BY <3>1, FlattenAppend
    <3>3. FlattenSeq(ff) \in Seq(S) /\ s \in Seq(S)
      BY FlattenType
    <3> HIDE DEF T, Holds
    <3>4. /\ Len(ff) \in Nat /\ Len(tt) = Len(ff) + 1
          /\ \A i \in 1 .. Len(ff) : tt[i] = ff[i]
          /\ tt[Len(ff) + 1] = s
      BY <3>1, AppendProperties, LenProperties
    <3>5. Len(ff) = k
      <4>1. Len(ff) + 1 = k + 1 /\ Len(ff) \in Nat /\ k \in Nat
        BY <2>1, <2>2, <3>4
      <4> QED
        BY ONLY <4>1
    <3>6. Full(ff) /\ s # <<>>
      <4>1. \A i \in 1 .. k : i \in 1 .. k + 1
        BY <2>1
      <4>2. k + 1 \in 1 .. k + 1
        BY <2>1
      <4> QED
        BY <2>2, <3>4, <3>5, <4>1, <4>2
    <3>7. IsOdd(Turns(FlattenSeq(ff), s[1], w)) <=> IsOdd(OddSegments(ff, s[1], w))
      <4>1. Good(ff)
        <5> HIDE DEF Good, Full
        <5> QED
          BY <2>1, <3>5, <3>6
      <4> QED
        BY <4>1
    <3>8. IsOdd(Turns(FlattenSeq(tt), x, w))
            <=> ~(IsOdd(Turns(FlattenSeq(ff), s[1], w)) <=> IsOdd(Turns(s, x, w)))
      BY <3>2, <3>3, <3>6, JoinedTurns
    <3> DEFINE A == OddSegments(ff, s[1], w)
               B == OddSegments(tt, x, w)
               last == IsOdd(Turns(s, x, w))
    <3>9. ASSUME NEW i \in 1 .. k PROVE i \in B <=> i \in A
      <4>1. i \in 1 .. k + 1 /\ i # k + 1 /\ (i # k => i + 1 \in 1 .. k)
        BY <2>1
      <4>2. tt[i] = ff[i] /\ tt[i + 1] = IF i = k THEN s ELSE ff[i + 1]
        BY <3>4, <3>5, <4>1
      <4>3. i \in B <=> IsOdd(Turns(tt[i], tt[i + 1][1], w))
        BY <2>2, <4>1 DEF OddSegments
      <4>4. i \in A <=> IsOdd(Turns(ff[i], IF i = k THEN s[1] ELSE ff[i + 1][1], w))
        BY <3>5 DEF OddSegments
      <4> HIDE DEF A, B
      <4> QED
        BY <4>2, <4>3, <4>4
    <3>10. k + 1 \in B <=> last
      <4>1. k + 1 \in 1 .. k + 1
        BY <2>1
      <4>2. tt[k + 1] = s
        BY <3>4, <3>5
      <4> QED
        BY <2>2, <4>1, <4>2 DEF OddSegments
    <3>11. A \in SUBSET (1 .. k) /\ B \in SUBSET (1 .. k + 1)
      BY <2>2, <3>5 DEF OddSegments
    <3> HIDE DEF A, B, last
    <3>12. B = A \cup (IF last THEN {k + 1} ELSE {})
      <4>1. \A i \in 1 .. k + 1 : i \in 1 .. k \/ i = k + 1
        BY <2>1
      <4>2. k + 1 \notin 1 .. k
        BY <2>1
      <4> QED
        BY <3>9, <3>10, <3>11, <4>1, <4>2
    <3>13. IsOdd(B) <=> ~(IsOdd(A) <=> last)
      <4>1. CASE last
        <5>1. IsFiniteSet(A) /\ IsFiniteSet({k + 1}) /\ A \cap {k + 1} = {}
          <6>1. k + 1 \notin 1 .. k
            BY <2>1
          <6> QED
            BY <2>1, <3>11, <6>1, NumbersAreFinite, FS_Singleton
        <5>2. IsOdd(A \cup {k + 1}) <=> ~(IsOdd(A) <=> IsOdd({k + 1}))
          BY <5>1, OddUnion
        <5> QED
          BY <3>12, <4>1, <5>2, OddOne
      <4>2. CASE ~last
        BY <3>12, <4>2
      <4> QED
        BY <4>1, <4>2
    <3> QED
      BY <3>7, <3>8, <3>13 DEF A, B, last
  <2>3. \A tt \in Seq(T) : Len(tt) = k + 1 /\ Full(tt) => Good(tt)
    <3> HIDE DEF T, Full, Holds
    <3> QED
      BY <2>2
  <2> HIDE DEF Good, T, Full
  <2> QED
    BY <2>1, <2>3
<1> HIDE DEF Holds
<1>3. Nat \subseteq Holds
  <2>1. Holds \in SUBSET Nat
    BY DEF Holds
  <2> QED
    BY <1>1, <1>2, <2>1, AllNaturals
<1>4. Good(ss)
  <2>1. Len(ss) \in Nat /\ Full(ss) /\ ss \in Seq(T)
    BY LenProperties
  <2>2. Len(ss) \in Holds
    BY <1>3, <2>1
  <2> HIDE DEF Good, T, Full
  <2> QED
    BY <2>1, <2>2 DEF Holds
<1> QED
  BY <1>4

(* Above the ray from w, and on which side of a slanted edge w lies. *)
Above(w, p) == p[2] > w[2]

Beside(w, e) == (w[1] - e.a[1]) * (e.b[2] - e.a[2]) - (e.b[1] - e.a[1]) * (w[2] - e.a[2])

OnLeft(w, e) == IF e.b[2] > e.a[2] THEN Beside(w, e) < 0 ELSE Beside(w, e) > 0

LEMMA CrossingAnEdge ==
  ASSUME NEW e, IsEdge(e), NEW w \in Plane
  PROVE  /\ Beside(w, e) \in Int
         /\ Crosses(w[1], w[2], e) <=> ~(Above(w, e.a) <=> Above(w, e.b)) /\ OnLeft(w, e)
<1> DEFINE left == (w[1] - e.a[1]) * (e.b[2] - e.a[2])
           right == (e.b[1] - e.a[1]) * (w[2] - e.a[2])
           up == e.b[2] - e.a[2]
<1>1. /\ e.a[1] \in Int /\ e.a[2] \in Int /\ e.b[1] \in Int /\ e.b[2] \in Int
      /\ w[1] \in Int /\ w[2] \in Int
  BY HeightOfEdge, PlaneType
<1>2. left \in Int /\ right \in Int
  BY <1>1
<1>3. Beside(w, e) = left - right
  BY DEF Beside
<1>4. Crosses(w[1], w[2], e)
        <=> Straddles(w[2], e) /\ (IF up > 0 THEN left < right ELSE left > right)
  BY DEF Crosses
<1>5. Straddles(w[2], e) <=> ~(Above(w, e.a) <=> Above(w, e.b))
  BY DEF Straddles, Above
<1>6. up > 0 <=> e.b[2] > e.a[2]
  BY <1>1
<1> HIDE DEF left, right, up
<1>7. OnLeft(w, e) <=> (IF up > 0 THEN left < right ELSE left > right)
  BY <1>2, <1>3, <1>6 DEF OnLeft
<1> QED
  BY <1>2, <1>3, <1>4, <1>5, <1>7

(* Whole numbers on either side of a quotient. *)
LEMMA FloorOf ==
  ASSUME NEW c \in Nat \ {0}, NEW x \in Nat
  PROVE  \E t \in Nat : t * c <= x /\ x < t * c + c
<1> DEFINE t == x \div c
<1>1. t \in Nat /\ c * t <= x /\ x < c * t + c
  <2>1. t \in Int
    OBVIOUS
  <2>2. c * t <= x /\ x < c * t + c
    OBVIOUS
  <2>3. t \in Nat
    OBVIOUS
  <2> QED
    BY <2>2, <2>3
<1> HIDE DEF t
<1>2. t * c = c * t
  BY <1>1
<1> QED
  BY <1>1, <1>2

LEMMA CeilingOf ==
  ASSUME NEW c \in Nat \ {0}, NEW x \in Nat
  PROVE  \E t \in Nat : t * c - c < x /\ x <= t * c
<1>1. PICK t \in Nat : t * c <= x /\ x < t * c + c
  BY FloorOf
<1>2. t * c \in Nat /\ (t + 1) * c = t * c + c /\ t + 1 \in Nat
  OBVIOUS
<1>3. CASE x = t * c
  BY <1>1, <1>2, <1>3
<1>4. CASE x # t * c
  <2>1. (t + 1) * c - c < x /\ x <= (t + 1) * c
    BY <1>1, <1>2, <1>4
  <2> QED
    BY <1>2, <2>1
<1> QED
  BY <1>3, <1>4

(* A line rises by d over a width c, and by dd in degrees; k and kk are one    *)
(* height on it.  Where the two disagree whether the line is above that height *)
(* at n, it is next to a whole height t there, on one side of k in both.       *)
Sizes(c, d, dd, n, k, kk) ==
    /\ c \in Nat \ {0} /\ d \in Nat \ {0} /\ dd \in Nat \ {0}
    /\ n \in Int /\ k \in Nat /\ kk \in Nat /\ k <= d /\ kk <= dd

LowerOnMap(c, d, dd, n, k, kk) == n * d <= c * k /\ c * kk <= n * dd

HigherOnMap(c, d, dd, n, k, kk) == c * k <= n * d /\ n * dd <= c * kk

Meets(t, c, d, dd, n, k, kk) ==
    /\ t <= d /\ t * c - c < n * d /\ n * d < t * c + c
    /\ (t <= k /\ d * kk <= t * dd) \/ (k <= t /\ t * dd <= d * kk)

LEMMA LowerMeets ==
  ASSUME NEW c, NEW d, NEW dd, NEW n, NEW k, NEW kk,
         Sizes(c, d, dd, n, k, kk), LowerOnMap(c, d, dd, n, k, kk)
  PROVE  /\ n \in Nat /\ n <= c
         /\ \E t \in Nat : Meets(t, c, d, dd, n, k, kk)
<1> USE DEF Sizes, LowerOnMap
<1>1. n \in Nat
  <2>1. c * kk \in Nat /\ dd * n = n * dd /\ dd * n \in Int
    OBVIOUS
  <2>2. dd * n < 0 <=> n < 0
    BY SignOfProduct
  <2> QED
    BY <2>1, <2>2
<1>2. c * k <= c * d
  BY ProductGrows
<1>3. n <= c
  <2>1. d * n = n * d /\ d * c = c * d /\ n * d \in Int /\ c * k \in Int /\ c * d \in Int
    OBVIOUS
  <2>2. d * n <= d * c
    BY <1>2, <2>1
  <2> QED
    BY <2>2, CancelFactor
<1>4. n * d \in Nat
  BY <1>1
<1>5. PICK t \in Nat : t * c - c < n * d /\ n * d <= t * c
  BY <1>4, CeilingOf
<1>6. t <= k
  <2>1. ASSUME k + 1 <= t PROVE FALSE
    <3>1. c * (k + 1) <= c * t
      BY <2>1, ProductGrows
    <3>2. c * (k + 1) = c * k + c /\ c * t = t * c /\ c * k \in Int /\ t * c \in Int
      OBVIOUS
    <3> QED
      BY <1>4, <1>5, <3>1, <3>2
  <2> QED
    BY <2>1
<1>7. d * kk <= t * dd
  <2>1. d * (c * kk) <= d * (n * dd) /\ dd * (n * d) <= dd * (t * c)
    <3>1. c * kk \in Int /\ n * dd \in Int /\ n * d \in Int /\ t * c \in Int /\ d \in Nat /\ dd \in Nat
      OBVIOUS
    <3> QED
      BY <1>5, <3>1, ProductGrows
  <2>2. /\ d * (c * kk) = c * (d * kk) /\ d * (n * dd) = dd * (n * d)
        /\ dd * (t * c) = c * (t * dd)
    OBVIOUS
  <2>3. /\ c * (d * kk) \in Int /\ dd * (n * d) \in Int /\ c * (t * dd) \in Int
        /\ d * kk \in Int /\ t * dd \in Int
    OBVIOUS
  <2>4. c * (d * kk) <= c * (t * dd)
    BY <2>1, <2>2, <2>3
  <2> QED
    BY <2>3, <2>4, CancelFactor
<1>8. Meets(t, c, d, dd, n, k, kk)
  <2>1. n * d \in Int /\ t * c \in Int
    OBVIOUS
  <2> QED
    BY <1>5, <1>6, <1>7, <2>1 DEF Meets
<1> QED
  BY <1>1, <1>3, <1>8

LEMMA HigherMeets ==
  ASSUME NEW c, NEW d, NEW dd, NEW n, NEW k, NEW kk,
         Sizes(c, d, dd, n, k, kk), HigherOnMap(c, d, dd, n, k, kk)
  PROVE  /\ n \in Nat /\ n <= c
         /\ \E t \in Nat : Meets(t, c, d, dd, n, k, kk)
<1> USE DEF Sizes, HigherOnMap
<1>1. n \in Nat
  <2>1. c * k \in Nat /\ d * n = n * d /\ d * n \in Int
    OBVIOUS
  <2>2. d * n < 0 <=> n < 0
    BY SignOfProduct
  <2> QED
    BY <2>1, <2>2
<1>2. n <= c
  <2>1. dd * n = n * dd /\ dd * c = c * dd /\ n * dd \in Int /\ c * kk \in Int /\ c * dd \in Int
    OBVIOUS
  <2>2. c * kk <= c * dd
    BY ProductGrows
  <2>3. dd * n <= dd * c
    BY <2>1, <2>2
  <2> QED
    BY <2>3, CancelFactor
<1>3. n * d \in Nat
  BY <1>1
<1>4. PICK t \in Nat : t * c <= n * d /\ n * d < t * c + c
  BY <1>3, FloorOf
<1>5. k <= t
  <2>1. ASSUME t + 1 <= k PROVE FALSE
    <3>1. c * (t + 1) <= c * k
      BY <2>1, ProductGrows
    <3>2. c * (t + 1) = t * c + c /\ c * k \in Int /\ t * c \in Int
      OBVIOUS
    <3> QED
      BY <1>3, <1>4, <3>1, <3>2
  <2> QED
    BY <2>1
<1>6. t <= d
  <2>1. d * n <= d * c
    BY <1>2, ProductGrows
  <2>2. d * n = n * d /\ d * c = c * d /\ c * t = t * c
        /\ n * d \in Int /\ t * c \in Int /\ c * d \in Int
    OBVIOUS
  <2>3. c * t <= c * d
    BY <1>4, <2>1, <2>2
  <2> QED
    BY <2>3, CancelFactor
<1>7. t * dd <= d * kk
  <2>1. d * (n * dd) <= d * (c * kk) /\ dd * (t * c) <= dd * (n * d)
    <3>1. c * kk \in Int /\ n * dd \in Int /\ n * d \in Int /\ t * c \in Int /\ d \in Nat /\ dd \in Nat
      OBVIOUS
    <3> QED
      BY <1>4, <3>1, ProductGrows
  <2>2. /\ d * (c * kk) = c * (d * kk) /\ d * (n * dd) = dd * (n * d)
        /\ dd * (t * c) = c * (t * dd)
    OBVIOUS
  <2>3. /\ c * (d * kk) \in Int /\ dd * (n * d) \in Int /\ c * (t * dd) \in Int
        /\ d * kk \in Int /\ t * dd \in Int
    OBVIOUS
  <2>4. c * (t * dd) <= c * (d * kk)
    BY <2>1, <2>2, <2>3
  <2> QED
    BY <2>3, <2>4, CancelFactor
<1>8. Meets(t, c, d, dd, n, k, kk)
  <2>1. n * d \in Int /\ t * c \in Int
    OBVIOUS
  <2> QED
    BY <1>4, <1>5, <1>6, <1>7, <2>1 DEF Meets
<1> QED
  BY <1>1, <1>2, <1>8

(* Two heights on a line that is almost straight in degrees. *)
LEMMA HeightsNearby ==
  ASSUME NEW y \in Heights, NEW d \in Nat \ {0}, y + d \in Heights, d <= Scale * StepHeight,
         NEW t \in 0 .. d, NEW k \in 0 .. d,
         \/ t <= k /\ d * (Latitude[y + k] - Latitude[y]) <= t * (Latitude[y + d] - Latitude[y])
         \/ k <= t /\ t * (Latitude[y + d] - Latitude[y]) <= d * (Latitude[y + k] - Latitude[y])
  PROVE  y + t \in Heights /\ y + k \in Heights
         /\ Magnitude(Latitude[y + t] - Latitude[y + k]) <= Metre
<1>1. /\ y \in Int /\ y + t \in Heights /\ y + k \in Heights
      /\ y + t \in Int /\ y + k \in Int /\ y + d \in Int
  <2>1. Scale * Extent \in Int
    BY GeometryAssumption
  <2> QED
    BY <2>1 DEF Heights
<1> DEFINE base == Latitude[y]
           top == Latitude[y + d] - base
           at == Latitude[y + t] - base
           by == Latitude[y + k] - base
<1>2. base \in Int /\ top \in Int /\ at \in Int /\ by \in Int /\ Metre \in Nat
  BY <1>1, LatitudeGrows, LatitudeAssumption
<1>3. Magnitude((d - t) * Latitude[y] + t * Latitude[y + d] - d * Latitude[y + t]) <= d * Metre
  <2>1. Scale * StepHeight \in Nat
    BY GeometryAssumption
  <2>2. d \in 1 .. Scale * StepHeight
    BY <2>1
  <2> QED
    BY <2>2, LatitudeAssumption
<1>4. (t <= k <=> at <= by) /\ (k <= t <=> by <= at)
  <2>1. (y + t <= y + k <=> t <= k) /\ (y + k <= y + t <=> k <= t)
    BY <1>1
  <2>2. /\ y + t <= y + k <=> Latitude[y + t] <= Latitude[y + k]
        /\ y + k <= y + t <=> Latitude[y + k] <= Latitude[y + t]
    BY <1>1, LatitudeGrows
  <2>3. Latitude[y + t] \in Int /\ Latitude[y + k] \in Int
    BY <1>1, LatitudeGrows
  <2> QED
    BY <1>2, <2>1, <2>2, <2>3
<1>5. (d - t) * Latitude[y] + t * Latitude[y + d] - d * Latitude[y + t] = t * top - d * at
  <2>1. Latitude[y + d] = base + top /\ Latitude[y + t] = base + at
    <3>1. Latitude[y + d] \in Int /\ Latitude[y + t] \in Int
      BY <1>1, LatitudeGrows
    <3> QED
      BY <1>2, <3>1
  <2> HIDE DEF base, top, at
  <2>2. (d - t) * base + t * (base + top) - d * (base + at) = t * top - d * at
    BY <1>2
  <2> QED
    BY <2>1, <2>2 DEF base
<1>6. Latitude[y + t] - Latitude[y + k] = at - by
  <2>1. Latitude[y + k] \in Int /\ Latitude[y + t] \in Int
    BY <1>1, LatitudeGrows
  <2> QED
    BY <1>2, <2>1
<1>7. (t <= k /\ d * by <= t * top) \/ (k <= t /\ t * top <= d * by)
  OBVIOUS
<1> HIDE DEF base, top, at, by
<1>8. t * top \in Int /\ d * at \in Int /\ d * by \in Int /\ d * Metre \in Int
  BY <1>2
<1>9. -(d * Metre) <= t * top - d * at /\ t * top - d * at <= d * Metre
  <2>1. Magnitude(t * top - d * at) <= d * Metre
    BY <1>3, <1>5
  <2> QED
    BY <1>8, <2>1 DEF Magnitude
<1>10. CASE t <= k /\ d * by <= t * top
  <2>1. d * (by - at) = d * by - d * at
    BY <1>2
  <2>2. d * (by - at) <= d * Metre
    BY <1>8, <1>9, <1>10, <2>1
  <2>3. by - at <= Metre
    BY <1>2, <2>2, CancelFactor
  <2> QED
    BY <1>1, <1>2, <1>4, <1>6, <1>10, <2>3 DEF Magnitude
<1>11. CASE k <= t /\ t * top <= d * by
  <2>1. d * (at - by) = d * at - d * by
    BY <1>2
  <2>2. d * (at - by) <= d * Metre
    BY <1>8, <1>9, <1>11, <2>1
  <2>3. at - by <= Metre
    BY <1>2, <2>2, CancelFactor
  <2> QED
    BY <1>1, <1>2, <1>4, <1>6, <1>11, <2>3 DEF Magnitude
<1> QED
  BY <1>7, <1>10, <1>11

(* An edge up from u to v passes w at the right of it. *)
LEMMA PassesUp ==
  ASSUME NEW u \in Plane, NEW v \in Plane, NEW w \in Plane, u[2] < v[2]
  PROVE  Passes(w, u, v) <=> /\ u[2] <= w[2] /\ w[2] < v[2]
                             /\ (w[1] - u[1]) * (v[2] - u[2]) < (v[1] - u[1]) * (w[2] - u[2])
<1> DEFINE left == (w[1] - u[1]) * (v[2] - u[2])
           right == (v[1] - u[1]) * (w[2] - u[2])
<1>1. u[2] \in Int /\ v[2] \in Int /\ w[2] \in Int
  BY PlaneType
<1>2. Passes(w, u, v) <=> /\ (u[2] > w[2]) # (v[2] > w[2])
                          /\ IF v[2] - u[2] > 0 THEN left < right ELSE left > right
  BY DEF Passes, Crosses, Straddles
<1>3. v[2] - u[2] > 0
  BY <1>1
<1>4. (u[2] > w[2]) # (v[2] > w[2]) <=> u[2] <= w[2] /\ w[2] < v[2]
  BY <1>1
<1> HIDE DEF left, right
<1>5. Passes(w, u, v) <=> /\ u[2] <= w[2] /\ w[2] < v[2]
                          /\ left < right
  BY <1>2, <1>3, <1>4
<1> QED
  BY <1>5 DEF left, right

LEMMA PassesBackwards ==
  ASSUME NEW u \in Plane, NEW v \in Plane, NEW w \in Plane, u[2] < v[2]
  PROVE  Passes(w, v, u) <=> Passes(w, u, v)
<1> DEFINE left == (w[1] - u[1]) * (v[2] - u[2])
           right == (v[1] - u[1]) * (w[2] - u[2])
           back == (w[1] - v[1]) * (u[2] - v[2])
           forth == (u[1] - v[1]) * (w[2] - v[2])
<1>1. /\ u[1] \in Int /\ v[1] \in Int /\ w[1] \in Int
      /\ u[2] \in Int /\ v[2] \in Int /\ w[2] \in Int
  BY PlaneType
<1>2. Passes(w, v, u) <=> /\ (v[2] > w[2]) # (u[2] > w[2])
                          /\ IF u[2] - v[2] > 0 THEN back < forth ELSE back > forth
  BY DEF Passes, Crosses, Straddles
<1>3. ~(u[2] - v[2] > 0)
  BY <1>1
<1>4. (v[2] > w[2]) # (u[2] > w[2]) <=> u[2] <= w[2] /\ w[2] < v[2]
  BY <1>1
<1>5. back - forth = right - left
  BY <1>1
<1>6. left \in Int /\ right \in Int /\ back \in Int /\ forth \in Int
  BY <1>1
<1>7. Passes(w, u, v) <=> u[2] <= w[2] /\ w[2] < v[2] /\ left < right
  BY PassesUp
<1> HIDE DEF left, right, back, forth
<1>8. back > forth <=> left < right
  BY <1>5, <1>6
<1> QED
  BY <1>2, <1>3, <1>4, <1>7, <1>8

MapPlace == Int \X Heights

LEMMA PlaceOnMap ==
  ASSUME NEW p \in MapPlace
  PROVE  p \in Plane /\ p[1] \in Int /\ p[2] \in Heights /\ p[2] \in Int
<1>1. Heights \subseteq Int
  BY GeometryAssumption DEF Heights
<1> QED
  BY <1>1 DEF MapPlace, Plane

LEMMA MetreBackwards ==
  ASSUME NEW u \in MapPlace, NEW v \in MapPlace, NEW w \in MapPlace,
         WithinMetre(w, [a |-> v, b |-> u])
  PROVE  WithinMetre(w, [a |-> u, b |-> v])
<1> DEFINE e == [a |-> u, b |-> v]
           f == [a |-> v, b |-> u]
<1>1. /\ u[1] \in Int /\ v[1] \in Int /\ w[1] \in Int
      /\ u[2] \in Int /\ v[2] \in Int /\ w[2] \in Int
  BY PlaceOnMap
<1>2. ~AxisAligned(f) /\ Between(w[1], v[1], u[1])
  BY DEF WithinMetre
<1>3. ~AxisAligned(e) /\ Between(w[1], u[1], v[1])
  BY <1>2 DEF AxisAligned, Between
<1>4. PICK h \in Heights : NextTo(w, h, f) /\ Magnitude(Latitude[h] - Latitude[w[2]]) <= Metre
  BY DEF WithinMetre
<1>5. NextTo(w, h, e)
  <2> DEFINE x == (h - v[2]) * (u[1] - v[1]) - (w[1] - v[1]) * (u[2] - v[2])
             y == (h - u[2]) * (v[1] - u[1]) - (w[1] - u[1]) * (v[2] - u[2])
  <2>1. h \in Int
    BY GeometryAssumption DEF Heights
  <2>2. x \in Int /\ y = -x
    BY <1>1, <2>1
  <2>3. v[1] - u[1] = -(u[1] - v[1]) /\ u[1] - v[1] \in Int
    BY <1>1
  <2>4. Magnitude(x) < Magnitude(u[1] - v[1])
    BY <1>4 DEF NextTo
  <2>5. NextTo(w, h, e) <=> Magnitude(y) < Magnitude(v[1] - u[1])
    BY DEF NextTo
  <2> HIDE DEF x, y
  <2>6. Magnitude(y) = Magnitude(x) /\ Magnitude(v[1] - u[1]) = Magnitude(u[1] - v[1])
    BY <2>2, <2>3, MagnitudeOfProduct
  <2> QED
    BY <2>4, <2>5, <2>6
<1> QED
  BY <1>3, <1>4, <1>5 DEF WithinMetre

(* The line from u up to v is next to height t above u at n along its width c. *)
LEMMA AtHeight ==
  ASSUME NEW u \in MapPlace, NEW v \in MapPlace, NEW w \in MapPlace, u[2] < v[2],
         NEW c \in Nat \ {0}, NEW n \in Nat, n <= c, NEW t \in Nat, u[2] + t \in Heights,
         \/ c = v[1] - u[1] /\ n = w[1] - u[1]
         \/ c = -(v[1] - u[1]) /\ n = -(w[1] - u[1]),
         t * c - c < n * (v[2] - u[2]), n * (v[2] - u[2]) < t * c + c,
         Magnitude(Latitude[u[2] + t] - Latitude[w[2]]) <= Metre
  PROVE  WithinMetre(w, [a |-> u, b |-> v])
<1> DEFINE e == [a |-> u, b |-> v]
           cc == v[1] - u[1]
           nn == w[1] - u[1]
           d == v[2] - u[2]
<1>1. /\ u[1] \in Int /\ v[1] \in Int /\ w[1] \in Int
      /\ u[2] \in Int /\ v[2] \in Int /\ w[2] \in Int
      /\ cc \in Int /\ nn \in Int /\ d \in Int
  BY PlaceOnMap
<1>2. ~AxisAligned(e)
  BY <1>1 DEF AxisAligned
<1>3. Between(w[1], u[1], v[1])
  BY <1>1 DEF Between
<1>4. Magnitude(cc) = c
  BY <1>1 DEF Magnitude
<1>5. (c = cc /\ n = nn) \/ (c = -cc /\ n = -nn)
  OBVIOUS
<1>6. t * c - c < n * d /\ n * d < t * c + c
  OBVIOUS
<1>7. NextTo(w, u[2] + t, e) <=> Magnitude(t * cc - nn * d) < Magnitude(cc)
  <2>1. (u[2] + t) - u[2] = t
    BY <1>1
  <2> QED
    BY <2>1 DEF NextTo
<1> HIDE DEF cc, nn, d
<1>8. Magnitude(t * c - n * d) < c
  <2>1. t * c \in Int /\ n * d \in Int
    BY <1>1
  <2> QED
    BY <1>6, <2>1 DEF Magnitude
<1>9. Magnitude(t * cc - nn * d) = Magnitude(t * c - n * d)
  <2>1. CASE c = cc /\ n = nn
    BY <2>1
  <2>2. CASE c = -cc /\ n = -nn
    <3>1. t * c - n * d = -(t * cc - nn * d) /\ t * cc - nn * d \in Int
      BY <1>1, <2>2
    <3> QED
      BY <3>1, MagnitudeOfProduct
  <2> QED
    BY <1>5, <2>1, <2>2
<1>10. NextTo(w, u[2] + t, e)
  BY <1>4, <1>7, <1>8, <1>9
<1>11. e.a[1] = u[1] /\ e.b[1] = v[1]
  OBVIOUS
<1> HIDE DEF e
<1>12. WithinMetre(w, e)
  BY <1>2, <1>3, <1>10, <1>11 DEF WithinMetre
<1> QED
  BY <1>12 DEF e

(* Where the map and its degrees disagree, the place is within a metre. *)
LEMMA BlurredWhereTheyDiffer ==
  ASSUME NEW u \in MapPlace, NEW v \in MapPlace, NEW w \in MapPlace,
         u[2] <= w[2], w[2] < v[2], v[2] - u[2] <= Scale * StepHeight, u[1] # v[1],
         ~((w[1] - u[1]) * (v[2] - u[2]) < (v[1] - u[1]) * (w[2] - u[2])
          <=> (w[1] - u[1]) * (Latitude[v[2]] - Latitude[u[2]])
                 < (v[1] - u[1]) * (Latitude[w[2]] - Latitude[u[2]]))
  PROVE  WithinMetre(w, [a |-> u, b |-> v])
<1> DEFINE cc == v[1] - u[1]
           nn == w[1] - u[1]
           d == v[2] - u[2]
           k == w[2] - u[2]
           dd == Latitude[v[2]] - Latitude[u[2]]
           kk == Latitude[w[2]] - Latitude[u[2]]
           Below(c, n) == LowerOnMap(c, d, dd, n, k, kk)
           Beyond(c, n) == HigherOnMap(c, d, dd, n, k, kk)
           Turned(c, n) == (c = cc /\ n = nn) \/ (c = -cc /\ n = -nn)
<1>1. /\ u[1] \in Int /\ v[1] \in Int /\ w[1] \in Int
      /\ u[2] \in Int /\ v[2] \in Int /\ w[2] \in Int
      /\ u[2] \in Heights /\ v[2] \in Heights /\ w[2] \in Heights
  BY PlaceOnMap
<1>2. cc \in Int /\ nn \in Int /\ d \in Nat \ {0} /\ k \in Nat /\ k <= d /\ cc # 0
  <2>1. u[2] <= w[2] /\ w[2] < v[2] /\ u[1] # v[1]
    OBVIOUS
  <2> QED
    BY ONLY <1>1, <2>1
<1>3. dd \in Nat \ {0} /\ kk \in Nat /\ kk <= dd
  <2>1. Latitude[u[2]] \in Int /\ Latitude[v[2]] \in Int /\ Latitude[w[2]] \in Int
    BY <1>1, LatitudeGrows
  <2>2. Latitude[u[2]] <= Latitude[w[2]] /\ Latitude[w[2]] < Latitude[v[2]]
    BY <1>1, LatitudeGrows
  <2> QED
    BY <2>1, <2>2
<1>4. ~(nn * d < cc * k <=> nn * dd < cc * kk)
  OBVIOUS
<1>5. u[2] + d = v[2] /\ u[2] + k = w[2]
  BY <1>1
<1>6. u[2] < v[2] /\ d <= Scale * StepHeight
  BY <1>1
<1> HIDE DEF cc, nn, d, k, dd, kk
<1>7. \E c \in Nat \ {0}, n \in Int : Turned(c, n) /\ (Below(c, n) \/ Beyond(c, n))
  <2>1. nn * d \in Int /\ cc * k \in Int /\ nn * dd \in Int /\ cc * kk \in Int
    BY <1>2, <1>3
  <2>2. CASE cc > 0
    <3>1. Below(cc, nn) \/ Beyond(cc, nn)
      BY <1>4, <2>1 DEF LowerOnMap, HigherOnMap
    <3>2. cc \in Nat \ {0} /\ nn \in Int /\ Turned(cc, nn)
      BY <1>2, <2>2
    <3> HIDE DEF Below, Beyond, Turned
    <3> QED
      BY <3>1, <3>2
  <2>3. CASE cc < 0
    <3> DEFINE c == -cc
               n == -nn
    <3>1. c \in Nat \ {0} /\ n \in Int /\ Turned(c, n)
      BY <1>2, <2>3
    <3>2. /\ n * d = -(nn * d) /\ c * k = -(cc * k)
          /\ n * dd = -(nn * dd) /\ c * kk = -(cc * kk)
      BY <1>2, <1>3
    <3> HIDE DEF c, n
    <3>3. Below(c, n) \/ Beyond(c, n)
      BY <1>4, <2>1, <3>2 DEF LowerOnMap, HigherOnMap
    <3> HIDE DEF Below, Beyond, Turned
    <3> QED
      BY <3>1, <3>3
  <2> HIDE DEF Below, Beyond, Turned
  <2> QED
    BY <1>2, <2>2, <2>3
<1>8. PICK c \in Nat \ {0}, n \in Int : Turned(c, n) /\ (Below(c, n) \/ Beyond(c, n))
  BY <1>7
<1>9. n \in Nat /\ n <= c /\ \E t \in Nat : Meets(t, c, d, dd, n, k, kk)
  <2>1. Sizes(c, d, dd, n, k, kk)
    BY <1>2, <1>3 DEF Sizes
  <2>2. LowerOnMap(c, d, dd, n, k, kk) \/ HigherOnMap(c, d, dd, n, k, kk)
    BY <1>8
  <2> QED
    BY ONLY <2>1, <2>2, LowerMeets, HigherMeets
<1>10. PICK t \in Nat : /\ t \in 0 .. d /\ t * c - c < n * d /\ n * d < t * c + c
                        /\ (t <= k /\ d * kk <= t * dd) \/ (k <= t /\ t * dd <= d * kk)
  BY <1>2, <1>9 DEF Meets
<1>11. u[2] + t \in Heights /\ Magnitude(Latitude[u[2] + t] - Latitude[w[2]]) <= Metre
  <2>1. k \in 0 .. d
    BY <1>2
  <2>2. dd = Latitude[u[2] + d] - Latitude[u[2]] /\ kk = Latitude[u[2] + k] - Latitude[u[2]]
    BY <1>5 DEF dd, kk
  <2>3. /\ u[2] + t \in Heights
        /\ Magnitude(Latitude[u[2] + t] - Latitude[u[2] + k]) <= Metre
    BY <1>1, <1>2, <1>5, <1>6, <1>10, <2>1, <2>2, HeightsNearby
  <2> QED
    BY <1>5, <2>3
<1> QED
  BY <1>6, <1>8, <1>9, <1>10, <1>11, AtHeight DEF cc, nn, d

(* inverse_mercator() of an edge and a place that are not within a metre *)
(* changes nothing about the ray from the place.                         *)
LEMMA CrossingUpwards ==
  ASSUME NEW u \in MapPlace, NEW v \in MapPlace, NEW w \in MapPlace, u[2] < v[2], Near(u, v),
         ~WithinMetre(w, [a |-> u, b |-> v])
  PROVE  Passes(InverseMercator(w), InverseMercator(u), InverseMercator(v)) <=> Passes(w, u, v)
<1> DEFINE c == v[1] - u[1]
           n == w[1] - u[1]
           d == v[2] - u[2]
           k == w[2] - u[2]
           dd == Latitude[v[2]] - Latitude[u[2]]
           kk == Latitude[w[2]] - Latitude[u[2]]
<1>1. /\ u[1] \in Int /\ v[1] \in Int /\ w[1] \in Int
      /\ u[2] \in Int /\ v[2] \in Int /\ w[2] \in Int
      /\ u \in Plane /\ v \in Plane /\ w \in Plane
  BY PlaceOnMap
<1>2. /\ u[2] \in Heights /\ v[2] \in Heights /\ w[2] \in Heights
  BY PlaceOnMap
<1>3. /\ Latitude[u[2]] \in Int /\ Latitude[v[2]] \in Int /\ Latitude[w[2]] \in Int
      /\ Latitude[u[2]] < Latitude[v[2]]
      /\ Latitude[u[2]] <= Latitude[w[2]] <=> u[2] <= w[2]
      /\ Latitude[w[2]] < Latitude[v[2]] <=> w[2] < v[2]
  BY <1>2, LatitudeGrows
<1>4. Passes(w, u, v) <=> u[2] <= w[2] /\ w[2] < v[2] /\ n * d < c * k
  BY <1>1, PassesUp
<1>5. Passes(InverseMercator(w), InverseMercator(u), InverseMercator(v))
        <=> Latitude[u[2]] <= Latitude[w[2]] /\ Latitude[w[2]] < Latitude[v[2]] /\ n * dd < c * kk
  <2> DEFINE iu == InverseMercator(u)
             iv == InverseMercator(v)
             iw == InverseMercator(w)
  <2>1. /\ iu[1] = u[1] /\ iv[1] = v[1] /\ iw[1] = w[1]
        /\ iu[2] = Latitude[u[2]] /\ iv[2] = Latitude[v[2]] /\ iw[2] = Latitude[w[2]]
    BY DEF InverseMercator
  <2>2. iu \in Plane /\ iv \in Plane /\ iw \in Plane
    BY <1>1, <1>3 DEF InverseMercator, Plane
  <2> HIDE DEF iu, iv, iw
  <2>3. Passes(iw, iu, iv) <=> /\ iu[2] <= iw[2] /\ iw[2] < iv[2]
                               /\ (iw[1] - iu[1]) * (iv[2] - iu[2]) < (iv[1] - iu[1]) * (iw[2] - iu[2])
    BY <1>3, <2>1, <2>2, PassesUp
  <2> QED
    BY <2>1, <2>3 DEF iu, iv, iw
<1>6. ASSUME u[2] <= w[2], w[2] < v[2]
      PROVE  n * d < c * k <=> n * dd < c * kk
  <2>1. CASE u[1] # v[1]
    <3>1. v[2] - u[2] <= Scale * StepHeight
      <4>1. Scale * StepHeight \in Int
        BY GeometryAssumption
      <4> QED
        BY <1>1, <2>1, <4>1 DEF Near, Magnitude
    <3> QED
      BY <1>6, <2>1, <3>1, BlurredWhereTheyDiffer
  <2>2. CASE u[1] = v[1]
    <3>1. d \in Nat \ {0} /\ dd \in Nat \ {0} /\ k \in Int /\ kk \in Int /\ n \in Int /\ c = 0
      BY <1>1, <1>3, <2>2
    <3> HIDE DEF c, n, d, k, dd, kk
    <3>2. c * k = 0 /\ c * kk = 0
      BY <3>1
    <3>3. n * d = d * n /\ n * dd = dd * n /\ (d * n < 0 <=> n < 0) /\ (dd * n < 0 <=> n < 0)
      BY <3>1, SignOfProduct
    <3> QED
      BY <3>2, <3>3
  <2> QED
    BY <2>1, <2>2
<1> HIDE DEF c, n, d, k, dd, kk
<1> QED
  BY <1>3, <1>4, <1>5, <1>6

LEMMA CrossingInDegrees ==
  ASSUME NEW u \in MapPlace, NEW v \in MapPlace, NEW w \in MapPlace, Near(u, v),
         ~WithinMetre(w, [a |-> u, b |-> v])
  PROVE  Passes(InverseMercator(w), InverseMercator(u), InverseMercator(v)) <=> Passes(w, u, v)
<1>1. /\ u[1] \in Int /\ v[1] \in Int /\ w[1] \in Int
      /\ u[2] \in Int /\ v[2] \in Int /\ w[2] \in Int
      /\ u \in Plane /\ v \in Plane /\ w \in Plane
      /\ u[2] \in Heights /\ v[2] \in Heights /\ w[2] \in Heights
  BY PlaceOnMap
<1>2. CASE u[2] < v[2]
  BY <1>2, CrossingUpwards
<1>3. CASE v[2] < u[2]
  <2>1. Near(v, u)
    <3>1. u[2] - v[2] = -(v[2] - u[2]) /\ v[2] - u[2] \in Int
      BY <1>1
    <3>2. Magnitude(u[2] - v[2]) = Magnitude(v[2] - u[2])
      BY <3>1, MagnitudeOfProduct
    <3> QED
      BY <3>2 DEF Near
  <2>2. ~WithinMetre(w, [a |-> v, b |-> u])
    BY MetreBackwards
  <2>3. Passes(InverseMercator(w), InverseMercator(v), InverseMercator(u)) <=> Passes(w, v, u)
    BY <1>3, <2>1, <2>2, CrossingUpwards
  <2>4. Passes(w, v, u) <=> Passes(w, u, v)
    BY <1>1, <1>3, PassesBackwards
  <2>5. Passes(InverseMercator(w), InverseMercator(v), InverseMercator(u))
          <=> Passes(InverseMercator(w), InverseMercator(u), InverseMercator(v))
    <3>1. Latitude[u[2]] \in Int /\ Latitude[v[2]] \in Int /\ Latitude[w[2]] \in Int
          /\ Latitude[v[2]] < Latitude[u[2]]
      BY <1>1, <1>3, LatitudeGrows
    <3>2. /\ InverseMercator(u) \in Plane /\ InverseMercator(v) \in Plane
          /\ InverseMercator(w) \in Plane
          /\ InverseMercator(v)[2] < InverseMercator(u)[2]
      BY <1>1, <3>1 DEF InverseMercator, Plane
    <3> QED
      BY <3>2, PassesBackwards
  <2> QED
    BY <2>3, <2>4, <2>5
<1>4. CASE u[2] = v[2]
  <2>1. ~Passes(w, u, v)
    BY <1>4 DEF Passes, Crosses, Straddles
  <2>2. ~Passes(InverseMercator(w), InverseMercator(u), InverseMercator(v))
    BY <1>4 DEF Passes, Crosses, Straddles, InverseMercator
  <2> QED
    BY <2>1, <2>2
<1> QED
  BY <1>1, <1>2, <1>3, <1>4

(* The edge of the published ring in 1/Scale units. *)
ScaledEdge(e) == [a |-> Scaled(e.a), b |-> Scaled(e.b)]

LEMMA EvenSpacing ==
  ASSUME NEW e, IsEdge(e), OnMap(e.a), OnMap(e.b), NEW j \in 1 .. Steps(e)
  PROVE  \E q \in Nat \ {0} : \A c \in {1, 2} :
           /\ Scale * e.a[c] \in Int /\ q * (e.b[c] - e.a[c]) \in Int
           /\ Stop(e, j)[c] = Scale * e.a[c] + (j - 1) * (q * (e.b[c] - e.a[c]))
           /\ Stop(e, j + 1)[c] = Scale * e.a[c] + j * (q * (e.b[c] - e.a[c]))
           /\ Scale * e.b[c] = Scale * e.a[c] + Steps(e) * (q * (e.b[c] - e.a[c]))
<1> DEFINE q == Scale \div Steps(e)
<1>1. Steps(e) \in Nat \ {0} /\ q \in Nat /\ Scale = Steps(e) * q /\ Scale \in Nat \ {0}
  BY StepsDivide, GeometryAssumption
<1>2. q \in Nat \ {0}
  <2>1. q # 0
    <3> HIDE DEF q
    <3> QED
      BY <1>1
  <2> QED
    BY <1>1, <2>1
<1>3. ASSUME NEW c \in {1, 2}
      PROVE  /\ Scale * e.a[c] \in Int /\ q * (e.b[c] - e.a[c]) \in Int
             /\ Stop(e, j)[c] = Scale * e.a[c] + (j - 1) * (q * (e.b[c] - e.a[c]))
             /\ Stop(e, j + 1)[c] = Scale * e.a[c] + j * (q * (e.b[c] - e.a[c]))
             /\ Scale * e.b[c] = Scale * e.a[c] + Steps(e) * (q * (e.b[c] - e.a[c]))
  <2> DEFINE d == q * (e.b[c] - e.a[c])
  <2>1. /\ e.a[c] \in Int /\ e.b[c] \in Int
        /\ \A i \in Int : Along(e, c, i) = Scale * e.a[c] + (i - 1) * d
        /\ Along(e, c, Steps(e) + 1) = Scale * e.b[c]
    BY StopsOfEdge
  <2>2. Scale * e.a[c] \in Int /\ d \in Int
    <3>1. Scale \in Int /\ q \in Int
      BY <1>1
    <3>2. e.a[c] \in Int /\ e.b[c] - e.a[c] \in Int
      BY <2>1
    <3> HIDE DEF q
    <3> QED
      BY ONLY <3>1, <3>2
  <2>3. Stop(e, j)[c] = Along(e, c, j) /\ Stop(e, j + 1)[c] = Along(e, c, j + 1)
    BY DEF Stop
  <2>4. /\ j \in Int /\ j + 1 \in Int /\ (j + 1) - 1 = j
        /\ Steps(e) + 1 \in Int /\ (Steps(e) + 1) - 1 = Steps(e)
    BY <1>1
  <2> HIDE DEF d, q
  <2>5. /\ Along(e, c, j) = Scale * e.a[c] + (j - 1) * d
        /\ Along(e, c, j + 1) = Scale * e.a[c] + j * d
        /\ Along(e, c, Steps(e) + 1) = Scale * e.a[c] + Steps(e) * d
    <3>1. /\ Along(e, c, j) = Scale * e.a[c] + (j - 1) * d
          /\ Along(e, c, j + 1) = Scale * e.a[c] + ((j + 1) - 1) * d
          /\ Along(e, c, Steps(e) + 1) = Scale * e.a[c] + ((Steps(e) + 1) - 1) * d
      BY <2>1, <2>4
    <3> QED
      BY <2>4, <3>1
  <2> QED
    BY <2>1, <2>2, <2>3, <2>5 DEF d
<1> HIDE DEF q
<1> QED
  BY <1>2, <1>3

(* A step of an edge, if the ray passes it at all, has v on the edge's side. *)
LEMMA StepPasses ==
  ASSUME NEW e, IsEdge(e), OnMap(e.a), OnMap(e.b), NEW v \in Plane, NEW j \in 1 .. Steps(e)
  PROVE  Passes(v, Stop(e, j), Stop(e, j + 1))
           <=> /\ ~(Above(v, Stop(e, j)) <=> Above(v, Stop(e, j + 1)))
               /\ OnLeft(v, ScaledEdge(e))
<1> DEFINE s == [a |-> Stop(e, j), b |-> Stop(e, j + 1)]
           l == ScaledEdge(e)
           k == Steps(e)
           t == j - 1
<1>1. PICK q \in Nat \ {0} : \A c \in {1, 2} :
           /\ Scale * e.a[c] \in Int /\ q * (e.b[c] - e.a[c]) \in Int
           /\ Stop(e, j)[c] = Scale * e.a[c] + (j - 1) * (q * (e.b[c] - e.a[c]))
           /\ Stop(e, j + 1)[c] = Scale * e.a[c] + j * (q * (e.b[c] - e.a[c]))
           /\ Scale * e.b[c] = Scale * e.a[c] + Steps(e) * (q * (e.b[c] - e.a[c]))
  BY EvenSpacing
<1> DEFINE x == Scale * e.a[1]
           y == Scale * e.a[2]
           c == q * (e.b[1] - e.a[1])
           d == q * (e.b[2] - e.a[2])
           side == (v[1] - x) * d - c * (v[2] - y)
<1>2. k \in Nat \ {0} /\ t \in Int /\ j \in Int /\ v[1] \in Int /\ v[2] \in Int
  BY StepsOfEdge, PlaneType
<1>3. /\ s.a[1] = x + t * c /\ s.a[2] = y + t * d
      /\ s.b[1] = x + j * c /\ s.b[2] = y + j * d
      /\ l.a[1] = x /\ l.a[2] = y /\ l.b[1] = x + k * c /\ l.b[2] = y + k * d
      /\ x \in Int /\ y \in Int /\ c \in Int /\ d \in Int
  <2>1. l.a[1] = x /\ l.a[2] = y /\ l.b[1] = Scale * e.b[1] /\ l.b[2] = Scale * e.b[2]
    BY DEF ScaledEdge, Scaled
  <2> QED
    BY <1>1, <2>1
<1>4. s.a = Stop(e, j) /\ s.b = Stop(e, j + 1) /\ IsEdge(s)
  <2>1. j \in 1 .. k + 1 /\ j + 1 \in 1 .. k + 1
    BY <1>2
  <2>2. Stop(e, j) \in Plane /\ Stop(e, j + 1) \in Plane
    BY <2>1, StopsAreNear
  <2> QED
    BY <2>2 DEF IsEdge
<1>5. j = t + 1
  BY <1>2
<1> HIDE DEF s, l, x, y, c, d, k, t
<1>6. side \in Int
  BY <1>2, <1>3
<1>7. Beside(v, s) = side /\ Beside(v, l) = k * side
  <2>1. s.b[2] - s.a[2] = d /\ s.b[1] - s.a[1] = c
    BY <1>2, <1>3, <1>5
  <2>2. l.b[2] - l.a[2] = k * d /\ l.b[1] - l.a[1] = k * c
    BY <1>2, <1>3
  <2>3. Beside(v, s) = (v[1] - (x + t * c)) * d - c * (v[2] - (y + t * d))
    BY <1>3, <2>1 DEF Beside
  <2>4. Beside(v, l) = (v[1] - x) * (k * d) - (k * c) * (v[2] - y)
    BY <1>3, <2>2 DEF Beside
  <2>5. (v[1] - (x + t * c)) * d - c * (v[2] - (y + t * d)) = side
    BY <1>2, <1>3
  <2>6. (v[1] - x) * (k * d) - (k * c) * (v[2] - y) = k * side
    BY <1>2, <1>3
  <2> QED
    BY <2>3, <2>4, <2>5, <2>6
<1>8. s.b[2] > s.a[2] <=> l.b[2] > l.a[2]
  <2>1. (k * d > 0 <=> d > 0) /\ k * d \in Int
    BY <1>2, <1>3, SignOfProduct
  <2>2. s.b[2] - s.a[2] = d /\ t * d \in Int /\ j * d \in Int
    BY <1>2, <1>3, <1>5
  <2> QED
    BY <1>3, <2>1, <2>2
<1> HIDE DEF side
<1>9. (k * side < 0 <=> side < 0) /\ (k * side > 0 <=> side > 0)
  BY <1>2, <1>6, SignOfProduct
<1>10. OnLeft(v, s) <=> OnLeft(v, l)
  BY <1>7, <1>8, <1>9 DEF OnLeft
<1>11. Passes(v, Stop(e, j), Stop(e, j + 1)) <=> Crosses(v[1], v[2], s)
  BY DEF Passes, s
<1>12. Crosses(v[1], v[2], s) <=> ~(Above(v, s.a) <=> Above(v, s.b)) /\ OnLeft(v, s)
  BY <1>4, CrossingAnEdge
<1> QED
  BY <1>4, <1>10, <1>11, <1>12 DEF l

(* What is within a metre of a step is within a metre of its edge. *)
LEMMA MetreOfStep ==
  ASSUME NEW e, IsEdge(e), OnMap(e.a), OnMap(e.b), NEW j \in 1 .. Steps(e), NEW w \in MapPlace,
         WithinMetre(w, [a |-> Stop(e, j), b |-> Stop(e, j + 1)])
  PROVE  WithinMetre(w, ScaledEdge(e))
<1> DEFINE s == [a |-> Stop(e, j), b |-> Stop(e, j + 1)]
           l == ScaledEdge(e)
           k == Steps(e)
           t == j - 1
<1>1. PICK q \in Nat \ {0} : \A c \in {1, 2} :
           /\ Scale * e.a[c] \in Int /\ q * (e.b[c] - e.a[c]) \in Int
           /\ Stop(e, j)[c] = Scale * e.a[c] + (j - 1) * (q * (e.b[c] - e.a[c]))
           /\ Stop(e, j + 1)[c] = Scale * e.a[c] + j * (q * (e.b[c] - e.a[c]))
           /\ Scale * e.b[c] = Scale * e.a[c] + Steps(e) * (q * (e.b[c] - e.a[c]))
  BY EvenSpacing
<1> DEFINE x == Scale * e.a[1]
           y == Scale * e.a[2]
           c == q * (e.b[1] - e.a[1])
           d == q * (e.b[2] - e.a[2])
<1>2. k \in Nat \ {0} /\ t \in 0 .. k /\ j \in 0 .. k /\ w[1] \in Int
  BY StepsOfEdge, PlaceOnMap
<1>3. /\ s.a[1] = x + t * c /\ s.a[2] = y + t * d
      /\ s.b[1] = x + j * c /\ s.b[2] = y + j * d
      /\ l.a[1] = x /\ l.a[2] = y /\ l.b[1] = x + k * c /\ l.b[2] = y + k * d
      /\ x \in Int /\ y \in Int /\ c \in Int /\ d \in Int
  <2>1. l.a[1] = x /\ l.a[2] = y /\ l.b[1] = Scale * e.b[1] /\ l.b[2] = Scale * e.b[2]
    BY DEF ScaledEdge, Scaled
  <2> QED
    BY <1>1, <2>1
<1>4. j = t + 1
  BY <1>2
<1>5. WithinMetre(w, s)
  OBVIOUS
<1> HIDE DEF s, l, x, y, c, d, k, t
<1>6. /\ s.b[2] - s.a[2] = d /\ s.b[1] - s.a[1] = c
      /\ l.b[2] - l.a[2] = k * d /\ l.b[1] - l.a[1] = k * c
  <2>1. /\ (x + j * c) - (x + t * c) = c /\ (y + j * d) - (y + t * d) = d
        /\ (x + k * c) - x = k * c /\ (y + k * d) - y = k * d
    BY <1>2, <1>3, <1>4
  <2> QED
    BY <1>3, <2>1
<1>7. k * c \in Int /\ k * d \in Int /\ t * c \in Int /\ t * d \in Int /\ j * c \in Int /\ j * d \in Int
  BY <1>2, <1>3
<1>8. ~AxisAligned(l)
  <2>1. s.a[1] # s.b[1] /\ s.a[2] # s.b[2]
    BY <1>5 DEF WithinMetre, AxisAligned
  <2>2. c # 0 /\ d # 0
    <3>1. s.a[1] \in Int /\ s.b[1] \in Int /\ s.a[2] \in Int /\ s.b[2] \in Int
      BY <1>3, <1>7
    <3> QED
      BY ONLY <1>6, <2>1, <3>1
  <2>3. k * c # 0 /\ k * d # 0
    <3>1. (k * c < 0 <=> c < 0) /\ (k * c > 0 <=> c > 0)
      BY <1>2, <1>3, SignOfProduct
    <3>2. (k * d < 0 <=> d < 0) /\ (k * d > 0 <=> d > 0)
      BY <1>2, <1>3, SignOfProduct
    <3> QED
      BY <1>3, <1>7, <2>2, <3>1, <3>2
  <2> QED
    BY <1>3, <1>7, <2>3 DEF AxisAligned
<1>9. Between(w[1], l.a[1], l.b[1])
  <2>1. Between(w[1], x + t * c, x + j * c)
    BY <1>3, <1>5 DEF WithinMetre
  <2>2. /\ c >= 0 => 0 <= t * c /\ t * c <= k * c /\ 0 <= j * c /\ j * c <= k * c
        /\ c <= 0 => k * c <= t * c /\ t * c <= 0 /\ k * c <= j * c /\ j * c <= 0
    BY <1>2, <1>3, PartOfProduct
  <2> QED
    BY <1>2, <1>3, <1>7, <2>1, <2>2 DEF Between
<1>10. PICK h \in Heights : NextTo(w, h, s) /\ Magnitude(Latitude[h] - Latitude[w[2]]) <= Metre
  BY <1>5 DEF WithinMetre
<1>11. NextTo(w, h, l)
  <2> DEFINE g == (h - y) * c - (w[1] - x) * d
  <2>1. h \in Int
    BY GeometryAssumption DEF Heights
  <2>2. (h - (y + t * d)) * c - (w[1] - (x + t * c)) * d = g
    BY <1>2, <1>3, <2>1
  <2>3. (h - y) * (k * c) - (w[1] - x) * (k * d) = k * g
    BY <1>2, <1>3, <2>1
  <2>4. g \in Int
    BY <1>2, <1>3, <2>1
  <2>5. Magnitude((h - s.a[2]) * (s.b[1] - s.a[1]) - (w[1] - s.a[1]) * (s.b[2] - s.a[2]))
          < Magnitude(s.b[1] - s.a[1])
    BY <1>10 DEF NextTo
  <2>6. Magnitude(g) < Magnitude(c)
    BY <1>3, <1>6, <2>2, <2>5
  <2> HIDE DEF g
  <2>7. Magnitude(k * g) < Magnitude(k * c)
    <3>1. /\ Magnitude(k * g) = Magnitude(k) * Magnitude(g)
          /\ Magnitude(k * c) = Magnitude(k) * Magnitude(c)
          /\ Magnitude(g) \in Nat /\ Magnitude(c) \in Nat
      <4>1. k \in Int /\ g \in Int /\ c \in Int
        BY <1>2, <1>3, <2>4
      <4> QED
        BY ONLY <4>1, MagnitudeOfProduct
    <3>2. Magnitude(k) = k
      BY <1>2 DEF Magnitude
    <3>3. k * Magnitude(g) < k * Magnitude(c)
      <4>1. ASSUME NEW m \in Nat, NEW mm \in Nat, m < mm PROVE k * m < k * mm
        <5>1. m + 1 <= mm /\ m + 1 \in Int
          BY <4>1
        <5>2. k * (m + 1) <= k * mm
          BY <1>2, <5>1, ProductGrows
        <5>3. k * (m + 1) = k * m + k /\ k * m \in Int /\ k * mm \in Int
          BY <1>2
        <5> QED
          BY <1>2, <5>2, <5>3
      <4> QED
        BY <2>6, <3>1, <4>1
    <3> QED
      BY ONLY <3>1, <3>2, <3>3
  <2>8. NextTo(w, h, l)
          <=> Magnitude((h - y) * (k * c) - (w[1] - x) * (k * d)) < Magnitude(k * c)
    BY <1>3, <1>6 DEF NextTo
  <2> QED
    BY <2>3, <2>7, <2>8
<1>12. WithinMetre(w, l)
  BY <1>8, <1>9, <1>10, <1>11 DEF WithinMetre
<1> QED
  BY <1>12 DEF l

(* The steps of an edge cross the ray an odd number of times if the edge does. *)
LEMMA StepsPassAsEdge ==
  ASSUME NEW e, IsEdge(e), OnMap(e.a), OnMap(e.b), NEW v \in Plane
  PROVE  IsOdd(Turns(Stops(e), Scaled(e.b), v)) <=> Crosses(v[1], v[2], ScaledEdge(e))
<1> DEFINE k == Steps(e)
           P(j) == Passes(v, Stop(e, j), Stop(e, j + 1))
           UpTo(m) == {j \in 1 .. m : P(j)}
           A(j) == Above(v, Stop(e, j))
           side == OnLeft(v, ScaledEdge(e))
           Good(m) == m <= k => (IsOdd(UpTo(m)) <=> ~(A(1) <=> A(m + 1)) /\ side)
           Holds == {m \in Nat : Good(m)}
<1>1. k \in Nat \ {0}
  BY StepsOfEdge
<1>2. /\ Stop(e, 1) = Scaled(e.a) /\ Stop(e, k + 1) = Scaled(e.b)
  BY StopsAreNear
<1>3. ASSUME NEW j \in 1 .. k PROVE P(j) <=> ~(A(j) <=> A(j + 1)) /\ side
  BY StepPasses
<1>4. Turns(Stops(e), Scaled(e.b), v) = UpTo(k)
  <2> DEFINE s == Stops(e)
  <2>1. s = [j \in 1 .. k |-> Stop(e, j)]
    BY DEF Stops
  <2> HIDE DEF k, s
  <2>2. Len(s) = k /\ \A j \in 1 .. k : s[j] = Stop(e, j)
    BY <1>1, <2>1
  <2>3. \A j \in 1 .. k : j # k => j + 1 \in 1 .. k
    BY <1>1
  <2>4. \A j \in 1 .. k : (IF j = k THEN Scaled(e.b) ELSE s[j + 1]) = Stop(e, j + 1)
    BY <1>2, <2>2, <2>3
  <2>5. Turns(s, Scaled(e.b), v) = UpTo(k)
    BY <2>2, <2>4 DEF Turns
  <2> QED
    BY <2>5 DEF s
<1> HIDE DEF P, A, side, k
<1>5. 0 \in Holds
  <2>1. UpTo(0) = {}
    OBVIOUS
  <2> HIDE DEF UpTo
  <2> QED
    BY <2>1, OddNothing
<1>6. ASSUME NEW m \in Holds PROVE m + 1 \in Holds
  <2>1. m \in Nat /\ Good(m)
    OBVIOUS
  <2>2. ASSUME m + 1 <= k
        PROVE  IsOdd(UpTo(m + 1)) <=> ~(A(1) <=> A((m + 1) + 1)) /\ side
    <3>1. m <= k /\ m + 1 \in 1 .. k /\ m + 1 \notin 1 .. m
      BY <1>1, <2>1, <2>2
    <3>2. IsOdd(UpTo(m)) <=> ~(A(1) <=> A(m + 1)) /\ side
      BY <2>1, <3>1
    <3>3. UpTo(m + 1) = UpTo(m) \cup (IF P(m + 1) THEN {m + 1} ELSE {})
      <4>1. \A j : j \in 1 .. m + 1 <=> j \in 1 .. m \/ j = m + 1
        BY <2>1
      <4> QED
        BY <4>1
    <3>4. IsFiniteSet(UpTo(m)) /\ UpTo(m) \cap {m + 1} = {}
      BY <2>1, <3>1, NumbersAreFinite
    <3> HIDE DEF UpTo
    <3>5. IsOdd(UpTo(m + 1)) <=> ~(IsOdd(UpTo(m)) <=> P(m + 1))
      <4>1. CASE P(m + 1)
        <5>1. IsOdd(UpTo(m) \cup {m + 1}) <=> ~(IsOdd(UpTo(m)) <=> IsOdd({m + 1}))
          BY <3>4, FS_Singleton, OddUnion
        <5> QED
          BY <3>3, <4>1, <5>1, OddOne
      <4>2. CASE ~P(m + 1)
        BY <3>3, <4>2
      <4> QED
        BY <4>1, <4>2
    <3>6. P(m + 1) <=> ~(A(m + 1) <=> A((m + 1) + 1)) /\ side
      BY <1>3, <3>1
    <3> QED
      BY ONLY <3>2, <3>5, <3>6
  <2> HIDE DEF UpTo
  <2> QED
    BY <2>1, <2>2
<1> HIDE DEF Holds
<1>7. Nat \subseteq Holds
  <2>1. Holds \in SUBSET Nat
    BY DEF Holds
  <2> QED
    BY <1>5, <1>6, <2>1, AllNaturals
<1>8. IsOdd(UpTo(k)) <=> ~(A(1) <=> A(k + 1)) /\ side
  <2>1. k \in Holds
    BY <1>1, <1>7
  <2>2. Good(k)
    BY <2>1 DEF Holds
  <2> HIDE DEF UpTo
  <2> QED
    BY <1>1, <2>2
<1>9. IsEdge(ScaledEdge(e)) /\ ScaledEdge(e).a = Scaled(e.a) /\ ScaledEdge(e).b = Scaled(e.b)
  <2>1. e.a[1] \in Int /\ e.a[2] \in Int /\ e.b[1] \in Int /\ e.b[2] \in Int /\ Scale \in Int
    BY HeightOfEdge, GeometryAssumption
  <2> QED
    BY <2>1 DEF ScaledEdge, Scaled, IsEdge, Plane
<1>10. (A(1) <=> Above(v, Scaled(e.a))) /\ (A(k + 1) <=> Above(v, Scaled(e.b)))
  BY <1>2 DEF A, k
<1>11. Crosses(v[1], v[2], ScaledEdge(e))
         <=> ~(Above(v, Scaled(e.a)) <=> Above(v, Scaled(e.b))) /\ side
  BY <1>9, CrossingAnEdge DEF side
<1> HIDE DEF UpTo
<1> QED
  BY <1>4, <1>8, <1>10, <1>11

(* point_in_polygon() counts the turns of the closed ring. *)
LEMMA InsideByTurns ==
  ASSUME NEW ring \in Seq(Plane), ring # <<>>, NEW w
  PROVE  PointInPolygon(w[1], w[2], ring) <=> IsOdd(Turns(ring, ring[1], w))
<1> DEFINE crossed == {i \in DOMAIN ring : Crosses(w[1], w[2], Edges(ring)[i])}
<1>1. PointInPolygon(w[1], w[2], ring) <=> Cardinality(crossed) % 2 = 1
  BY DEF PointInPolygon, Quantify
<1>2. DOMAIN ring = 1 .. Len(ring)
  BY LenProperties
<1>3. ASSUME NEW i \in DOMAIN ring
      PROVE  Crosses(w[1], w[2], Edges(ring)[i])
               <=> Passes(w, ring[i], IF i = Len(ring) THEN ring[1] ELSE ring[i + 1])
  <2>1. Edges(ring)[i] = [a |-> ring[i], b |-> Following(ring, i)]
    BY DEF Edges
  <2>2. Following(ring, i) = IF i = Len(ring) THEN ring[1] ELSE ring[i + 1]
    BY EdgesOfRing
  <2> QED
    BY <2>1, <2>2 DEF Passes
<1>4. crossed = Turns(ring, ring[1], w)
  BY <1>2, <1>3 DEF Turns
<1> HIDE DEF crossed
<1> QED
  BY <1>1, <1>4 DEF IsOdd

LEMMA EdgesOfFiner ==
  ASSUME NEW ring \in Seq(Plane), ring # <<>>
  PROVE  /\ DOMAIN Finer(ring) = DOMAIN ring /\ DOMAIN Edges(Finer(ring)) = DOMAIN ring
         /\ \A i \in DOMAIN ring : Edges(Finer(ring))[i] = ScaledEdge(Edges(ring)[i])
<1> DEFINE n == Len(ring)
           fine == Finer(ring)
<1>1. n \in Nat \ {0} /\ DOMAIN ring = 1 .. n
  BY EmptySeq, LenProperties
<1> HIDE DEF n
<1>2. fine = [i \in 1 .. n |-> Scaled(ring[i])]
  BY <1>1 DEF Finer, Scaled
<1>3. Len(fine) = n
  <2> DEFINE S == {Scaled(ring[i]) : i \in 1 .. n}
  <2>1. fine \in [1 .. n -> S]
    BY <1>2
  <2> HIDE DEF fine, S
  <2>2. fine \in Seq(S)
    BY <1>1, <2>1, SeqDef
  <2> QED
    BY <1>1, <2>1, <2>2, LenProperties
<1> HIDE DEF fine
<1>4. ASSUME NEW i \in 1 .. n
      PROVE  Edges(fine)[i] = ScaledEdge(Edges(ring)[i])
  <2>1. (i % n) + 1 \in 1 .. n
    <3>1. n \in Nat \ {0} /\ i \in 1 .. n
      BY <1>1
    <3>2. (i % n) + 1 = IF i = n THEN 1 ELSE i + 1
      BY ONLY <3>1, Wraps
    <3> QED
      BY ONLY <3>1, <3>2
  <2>2. Following(fine, i) = Scaled(Following(ring, i))
    BY <1>2, <1>3, <2>1 DEF Following, n
  <2>3. /\ Edges(fine)[i] = [a |-> fine[i], b |-> Following(fine, i)]
        /\ Edges(ring)[i] = [a |-> ring[i], b |-> Following(ring, i)]
    BY <1>1, <1>2 DEF Edges
  <2>4. fine[i] = Scaled(ring[i])
    BY <1>2
  <2> QED
    BY <2>2, <2>3, <2>4 DEF ScaledEdge
<1>5. DOMAIN fine = 1 .. n /\ DOMAIN Edges(fine) = 1 .. n
  BY <1>2 DEF Edges
<1> QED
  BY <1>1, <1>4, <1>5 DEF fine

(* The points that project_mercator_ring() adds change no answer about the    *)
(* ring as it is on the map.                                                  *)
LEMMA DividedInside ==
  ASSUME NEW ring \in Seq(Plane), ring # <<>>, \A i \in DOMAIN ring : OnMap(ring[i]),
         NEW v \in Plane
  PROVE  PointInPolygon(v[1], v[2], Divided(ring)) <=> PointInPolygon(v[1], v[2], Finer(ring))
<1> DEFINE n == Len(ring)
           ss == Segments(ring)
           flat == FlattenSeq(ss)
           After(i) == IF i = n THEN ring[1] ELSE ring[i + 1]
           crossed == {i \in 1 .. n : Crosses(v[1], v[2], ScaledEdge(Edges(ring)[i]))}
<1>1. /\ n \in Nat \ {0} /\ DOMAIN ring = 1 .. n
      /\ ss \in Seq(Seq(Plane)) /\ Len(ss) = n
      /\ \A i \in 1 .. n : ss[i] # <<>> /\ ss[i][1] = Scaled(ring[i])
  <2>1. /\ n \in Nat \ {0} /\ DOMAIN ring = 1 .. n
        /\ ss \in Seq(Seq(Plane)) /\ Len(ss) = n
        /\ \A i \in 1 .. n : SegmentFits(ss[i], ring, i)
    BY SegmentsOfRing
  <2> HIDE DEF n, ss
  <2>2. ASSUME NEW i \in 1 .. n PROVE ss[i] # <<>> /\ ss[i][1] = Scaled(ring[i])
    BY <2>1 DEF SegmentFits
  <2> QED
    BY <2>1, <2>2
<1>2. Divided(ring) = flat
  BY DEF Divided, Segments
<1>3. ASSUME NEW i \in 1 .. n
      PROVE  IsOdd(Turns(ss[i], Scaled(After(i)), v))
               <=> Crosses(v[1], v[2], ScaledEdge(Edges(ring)[i]))
  <2> DEFINE e == Edges(ring)[i]
  <2>1. i \in DOMAIN ring
    BY <1>1
  <2>2. e.a = ring[i] /\ e.b = After(i) /\ IsEdge(e) /\ OnMap(e.a) /\ OnMap(e.b)
    BY <2>1, EdgeOnMap DEF Onward
  <2>3. ss[i] = Stops(e)
    BY <2>1 DEF Segments
  <2> HIDE DEF e, ss, After
  <2>4. IsOdd(Turns(Stops(e), Scaled(e.b), v)) <=> Crosses(v[1], v[2], ScaledEdge(e))
    BY <2>2, StepsPassAsEdge
  <2> QED
    BY <2>2, <2>3, <2>4 DEF e
<1> HIDE DEF ss
<1>4. flat \in Seq(Plane) /\ flat # <<>> /\ flat[1] = Scaled(ring[1])
  <2>1. /\ Divided(ring) \in Seq(Plane) /\ Divided(ring) # <<>>
        /\ Divided(ring)[1] = Scaled(ring[1])
    BY DividedRing
  <2> QED
    BY <1>2, <2>1
<1>5. IsOdd(Turns(flat, flat[1], v)) <=> IsOdd(OddSegments(ss, flat[1], v))
  <2> HIDE DEF flat
  <2>1. \A i \in 1 .. Len(ss) : ss[i] # <<>>
    BY <1>1
  <2> QED
    BY <1>1, <2>1, OddSegmentsOfFlat DEF flat
<1>6. OddSegments(ss, flat[1], v) = crossed
  <2>1. ASSUME NEW i \in 1 .. n
        PROVE  (IF i = n THEN flat[1] ELSE ss[i + 1][1]) = Scaled(After(i))
    <3>1. n \in Nat \ {0}
      BY <1>1
    <3> HIDE DEF flat, n
    <3>2. i # n => i + 1 \in 1 .. n
      BY ONLY <3>1, Indices
    <3> QED
      BY <1>1, <1>4, <3>2
  <2> HIDE DEF flat, After, n
  <2> QED
    BY <1>1, <1>3, <2>1 DEF OddSegments
<1>7. PointInPolygon(v[1], v[2], flat) <=> IsOdd(Turns(flat, flat[1], v))
  <2> HIDE DEF flat
  <2> QED
    BY <1>4, InsideByTurns
<1>8. PointInPolygon(v[1], v[2], Finer(ring)) <=> IsOdd(crossed)
  <2>1. PointInPolygon(v[1], v[2], Finer(ring))
          <=> Cardinality({i \in DOMAIN Finer(ring) : Crosses(v[1], v[2], Edges(Finer(ring))[i])}) % 2 = 1
    BY DEF PointInPolygon, Quantify
  <2>2. DOMAIN Finer(ring) = 1 .. n /\ \A i \in 1 .. n : Edges(Finer(ring))[i] = ScaledEdge(Edges(ring)[i])
    BY <1>1, EdgesOfFiner
  <2>3. {i \in DOMAIN Finer(ring) : Crosses(v[1], v[2], Edges(Finer(ring))[i])} = crossed
    BY <2>2
  <2> HIDE DEF crossed
  <2> QED
    BY <2>1, <2>3 DEF IsOdd
<1> HIDE DEF flat, crossed
<1> QED
  BY <1>2, <1>5, <1>6, <1>7, <1>8

(* inverse_mercator() changes no answer about a place that is not within a     *)
(* metre of a slanted edge.                                                    *)
LEMMA ProjectedInside ==
  ASSUME NEW ring \in Seq(Plane), ring # <<>>, \A i \in DOMAIN ring : OnMap(ring[i]),
         NEW w \in MapPlace, ~Blurs(ring, w)
  PROVE  InRing(w, Converted(ring)) <=> PointInPolygon(w[1], w[2], Finer(ring))
<1> DEFINE flat == Divided(ring)
           points == Projected(ring)
           n == Len(flat)
<1>1. /\ flat \in Seq(Plane) /\ flat # <<>>
      /\ Pairs(flat, flat[1]) = UNION {StepPairs(Edges(ring)[i]) : i \in DOMAIN ring}
  BY DividedRing
<1>2. /\ n \in Nat \ {0} /\ DOMAIN flat = 1 .. n
      /\ DOMAIN points = 1 .. n
      /\ \A k \in 1 .. n : Edges(points)[k] = InDegrees(flat[k], Onward(flat, k))
  <2> HIDE DEF flat
  <2> QED
    BY <1>1, ProjectedRing DEF flat
<1>3. Pairs(flat, flat[1]) = {<<flat[k], Onward(flat, k)>> : k \in 1 .. n}
  BY DEF Pairs, Onward
<1>4. InRing(w, Converted(ring)) <=> PointInPolygon(w[1], Latitude[w[2]], points)
  BY ProjectedOrNot DEF InRing
<1> HIDE DEF flat, points, n
<1>5. ASSUME NEW k \in 1 .. n
      PROVE  Crosses(w[1], Latitude[w[2]], Edges(points)[k])
               <=> Passes(w, flat[k], Onward(flat, k))
  <2>1. <<flat[k], Onward(flat, k)>> \in UNION {StepPairs(Edges(ring)[i]) : i \in DOMAIN ring}
    BY <1>1, <1>3
  <2>2. PICK i \in DOMAIN ring : <<flat[k], Onward(flat, k)>> \in StepPairs(Edges(ring)[i])
    BY <2>1
  <2> DEFINE e == Edges(ring)[i]
  <2>3. IsEdge(e) /\ OnMap(e.a) /\ OnMap(e.b)
    BY EdgeOnMap
  <2>4. PICK j \in 1 .. Steps(e) : <<flat[k], Onward(flat, k)>> = <<Stop(e, j), Stop(e, j + 1)>>
    BY <2>2 DEF StepPairs
  <2>5. flat[k] = Stop(e, j) /\ Onward(flat, k) = Stop(e, j + 1)
    BY <2>4
  <2>6. ~WithinMetre(w, ScaledEdge(e))
    <3>1. ScaledEdge(e) \in ToSet(Edges(Finer(ring)))
      BY EdgesOfFiner DEF ToSet
    <3> QED
      BY <3>1 DEF Blurs
  <2> HIDE DEF e
  <2> DEFINE u == Stop(e, j)
             v == Stop(e, j + 1)
  <2>7. u \in MapPlace /\ v \in MapPlace /\ Near(u, v)
    <3>1. j \in 1 .. Steps(e) + 1 /\ j + 1 \in 1 .. Steps(e) + 1
      <4>1. Steps(e) \in Nat
        BY <2>3, StepsOfEdge
      <4> QED
        BY <4>1
    <3>2. u[2] \in Heights /\ v[2] \in Heights
      BY <2>3, <3>1, HeightsOfStops
    <3>3. u \in Plane /\ v \in Plane /\ Near(u, v)
      BY <2>3, <3>1, StopsAreNear
    <3> HIDE DEF u, v
    <3> QED
      BY <3>2, <3>3 DEF MapPlace, Plane
  <2>8. ~WithinMetre(w, [a |-> u, b |-> v])
    BY <2>3, <2>6, MetreOfStep
  <2> HIDE DEF u, v
  <2>9. Passes(InverseMercator(w), InverseMercator(u), InverseMercator(v)) <=> Passes(w, u, v)
    BY <2>7, <2>8, CrossingInDegrees
  <2>10. Edges(points)[k] = [a |-> InverseMercator(u), b |-> InverseMercator(v)]
    BY <1>2, <2>5 DEF u, v, InDegrees
  <2>11. /\ InverseMercator(w)[1] = w[1] /\ InverseMercator(w)[2] = Latitude[w[2]]
    BY DEF InverseMercator
  <2>12. Passes(InverseMercator(w), InverseMercator(u), InverseMercator(v))
           <=> Crosses(w[1], Latitude[w[2]], Edges(points)[k])
    BY <2>10, <2>11 DEF Passes
  <2> QED
    BY <2>5, <2>9, <2>12 DEF u, v
<1>6. {k \in DOMAIN points : Crosses(w[1], Latitude[w[2]], Edges(points)[k])} = Turns(flat, flat[1], w)
  <2>1. Turns(flat, flat[1], w) = {k \in 1 .. n : Passes(w, flat[k], Onward(flat, k))}
    BY DEF Turns, Onward, n
  <2> QED
    BY <1>2, <1>5, <2>1
<1>7. PointInPolygon(w[1], Latitude[w[2]], points) <=> IsOdd(Turns(flat, flat[1], w))
  <2>1. PointInPolygon(w[1], Latitude[w[2]], points)
          <=> Cardinality({k \in DOMAIN points : Crosses(w[1], Latitude[w[2]], Edges(points)[k])}) % 2 = 1
    BY DEF PointInPolygon, Quantify
  <2> QED
    BY <1>6, <2>1 DEF IsOdd
<1>8. PointInPolygon(w[1], w[2], flat) <=> IsOdd(Turns(flat, flat[1], w))
  BY <1>1, InsideByTurns
<1>9. PointInPolygon(w[1], w[2], flat) <=> PointInPolygon(w[1], w[2], Finer(ring))
  <2>1. w \in Plane
    BY PlaceOnMap
  <2> QED
    BY <2>1, DividedInside DEF flat
<1> QED
  BY <1>4, <1>7, <1>8, <1>9

(* What is read of an Esri geometry is the area of the published outer rings:  *)
(* one ring for each polygon, in which point_in_feature() finds the places     *)
(* that are in the ring as it was published, but for those that converting it  *)
(* may blur.                                                                   *)
AreaIsPublished ==
    \A i \in DOMAIN features :
      LET f == response.features[features[i].index]
          rings == features[i].rings
      IN  IsEsri(f) =>
            /\ Len(rings) = Len(f.area)
            /\ \A w \in MapPlace :
                 (IsMercator(f) => \A n \in DOMAIN f.area : ~Blurs(f.area[n][1], w)) =>
                   (PointInFeature(w, rings)
                      <=> \E n \in DOMAIN f.area : PointInPolygon(w[1], w[2], Finer(f.area[n][1])))

LEMMA KeptRingsKeepArea == Reading /\ RingsKept => AreaIsPublished
<1> SUFFICES ASSUME Reading, RingsKept, NEW i \in DOMAIN features,
                    IsEsri(response.features[features[i].index])
             PROVE  LET f == response.features[features[i].index]
                        rings == features[i].rings
                    IN  /\ Len(rings) = Len(f.area)
                        /\ \A w \in MapPlace :
                             (IsMercator(f) => \A n \in DOMAIN f.area : ~Blurs(f.area[n][1], w)) =>
                               (PointInFeature(w, rings)
                                  <=> \E n \in DOMAIN f.area :
                                        PointInPolygon(w[1], w[2], Finer(f.area[n][1])))
  BY DEF AreaIsPublished
<1> DEFINE f == response.features[features[i].index]
           rings == features[i].rings
           Kept(ring) == IF IsMercator(f) THEN Converted(ring) ELSE Degrees(ring)
<1>1. response \in Responses /\ f \in ToSet(response.features) /\ RingsFit(f, rings) /\ IsEsri(f)
  BY KeptFeature DEF Reading
<1> HIDE DEF f, rings
<1>2. Readable(f) /\ rings = [n \in DOMAIN f.area |-> Kept(f.area[n][1])]
  BY <1>1 DEF RingsFit
<1>3. /\ Wound(f.area) /\ DOMAIN f.area = 1 .. Len(f.area) /\ Len(f.area) \in Nat
      /\ \A n \in DOMAIN f.area : f.area[n][1] \in Seq(Plane) /\ f.area[n][1] # <<>>
  BY <1>1, <1>2, ReadableArea DEF Wound
<1>4. Len(rings) = Len(f.area)
  <2> HIDE DEF Kept
  <2> QED
    BY <1>2, <1>3
<1>5. ASSUME NEW w \in MapPlace, NEW n \in DOMAIN f.area,
             IsMercator(f) => ~Blurs(f.area[n][1], w)
      PROVE  InRing(w, rings[n]) <=> PointInPolygon(w[1], w[2], Finer(f.area[n][1]))
  <2> DEFINE ring == f.area[n][1]
  <2>1. ring \in Seq(Plane) /\ ring # <<>> /\ rings[n] = Kept(ring)
    BY <1>2, <1>3
  <2>2. CASE IsMercator(f)
    <3>1. \A k \in DOMAIN ring : OnMap(ring[k])
      BY <1>1, <1>2, <2>2, CornersOnMap
    <3>2. rings[n] = Converted(ring) /\ ~Blurs(ring, w)
      BY <1>5, <2>1, <2>2
    <3> HIDE DEF ring
    <3>3. InRing(w, Converted(ring)) <=> PointInPolygon(w[1], w[2], Finer(ring))
      BY <2>1, <3>1, <3>2, ProjectedInside
    <3> QED
      BY <3>2, <3>3 DEF ring
  <2>3. CASE ~IsMercator(f)
    <3>1. rings[n] = Degrees(ring)
      BY <2>1, <2>3
    <3> HIDE DEF ring
    <3>2. rings[n].projected = FALSE /\ rings[n].points = ring
      BY <3>1, ProjectedOrNot
    <3> QED
      BY <3>2 DEF InRing, ring
  <2> QED
    BY <2>2, <2>3
<1>6. DOMAIN rings = DOMAIN f.area
  BY <1>2
<1>7. ASSUME NEW w \in MapPlace,
             IsMercator(f) => \A n \in DOMAIN f.area : ~Blurs(f.area[n][1], w)
      PROVE  PointInFeature(w, rings)
               <=> \E n \in DOMAIN f.area : PointInPolygon(w[1], w[2], Finer(f.area[n][1]))
  <2>1. \A n \in DOMAIN f.area :
          InRing(w, rings[n]) <=> PointInPolygon(w[1], w[2], Finer(f.area[n][1]))
    BY <1>5, <1>7
  <2> QED
    BY <1>6, <2>1 DEF PointInFeature
<1> QED
  BY <1>4, <1>7 DEF f, rings

(* For every area and every increasing latitude, however many points are added *)
(* to its edges: parse_esri_rings() gives one ring for each polygon, holes     *)
(* dropped, and together they hold exactly the places that the published outer *)
(* rings hold, but for places within one metre of latitude of an edge that     *)
(* runs slanted on the map and is converted (project_mercator_ring(),          *)
(* inverse_mercator() and point_in_polygon(); json.hpp:63-66).                 *)
THEOREM ConversionKeepsArea == Spec => []AreaIsPublished
<1>1. Init => Reading /\ RingsKept
  BY ReadingStarts, RingsStart
<1>2. Reading /\ RingsKept /\ [Next]_vars => (Reading /\ RingsKept)'
  BY ReadingGoesOn, RingsAreKept
<1>3. Spec => [](Reading /\ RingsKept)
  BY <1>1, <1>2, PTL DEF Spec
<1> QED
  BY <1>3, KeptRingsKeepArea, PTL

-----------------------------------------------------------------------------
(* The payload is what the records say on their own, in their order. *)

(* ReadRings(), of any response and budget. *)
ReadOf(r, f, left) ==
    LET g == f.geometry
    IN  CASE r.product.kind = "storm_reports" -> Rings(<<>>, left)
          [] r.product.kind \in {"categorical", "probabilistic"} /\ g.shape = "esri" ->
               Rings(<<>>, left)
          [] OTHER -> Read(g, r.reference, left)

(* The item of a record, or none, if it were the only one of its response. *)
Alone(r, f) ==
    LET item == Item(r.product, f)
    IN  IF Skips(r.product, f) \/ ~Keeps(r.product, item, ReadOf(r, f, MaxAdded).rings)
          THEN <<>> ELSE <<item>>

EachAlone(n) == [i \in 1 .. n |-> Alone(response, response.features[i])]

InOrder == status # "failed" => Payload = FlattenSeq(EachAlone(next - 1))

LEMMA GeoJsonRings ==
  ASSUME NEW g, NEW left, NEW more
  PROVE  ReadGeoJson(g, left).rings = ReadGeoJson(g, more).rings
<1> DEFINE outer == NonEmpty(g.polygons)
           rings == [i \in DOMAIN outer |-> Degrees(GoodPoints(outer[i][1]))]
<1>1. ReadGeoJson(g, left) = Rings(rings, left) /\ ReadGeoJson(g, more) = Rings(rings, more)
  BY DEF ReadGeoJson
<1> HIDE DEF rings
<1>2. Rings(rings, left).rings = rings /\ Rings(rings, more).rings = rings
  BY DEF Rings
<1>3. ReadGeoJson(g, left).rings = rings /\ ReadGeoJson(g, more).rings = rings
  BY ONLY <1>1, <1>2
<1> QED
  BY ONLY <1>3

LEMMA EsriRings ==
  ASSUME NEW g, NEW reference, NEW left \in Nat, NEW more \in Nat, left <= more,
         g.rings \in Seq(Seq(Points)), ReadEsri(g, reference, left).ok
  PROVE  ReadEsri(g, reference, left).rings = ReadEsri(g, reference, more).rings
<1> DEFINE cost == IF IsMercatorIn(g, reference) THEN Cost(g.rings) ELSE 0
           outer == OuterRings(g.rings)
           all == [i \in DOMAIN outer |-> AsRead(g, reference, outer[i])]
           Reads(read, l) ==
             /\ Refused(g, reference) => read.ok = FALSE
             /\ ~Refused(g, reference) =>
                  /\ g.rings \in Seq(Seq(Plane))
                  /\ cost \in Nat
                  /\ cost > l => read.ok = FALSE
                  /\ cost <= l => read.ok = TRUE /\ read.left = l - cost /\ read.rings = all
<1>1. Reads(ReadEsri(g, reference, left), left)
  BY EsriReads
<1>2. Reads(ReadEsri(g, reference, more), more)
  BY EsriReads
<1> HIDE DEF cost, all
<1>3. ~Refused(g, reference) /\ cost \in Nat /\ ~(cost > left)
  BY <1>1
<1>4. cost <= left /\ cost <= more
  BY <1>3
<1> QED
  BY <1>1, <1>2, <1>3, <1>4

(* The budget decides whether a geometry is read, not what is read. *)
LEMMA RingsWithinBudget ==
  ASSUME response \in Responses, remaining \in Nat, MaxAdded \in Nat, remaining <= MaxAdded,
         NEW f \in ToSet(response.features), ReadRings(f).ok
  PROVE  ReadRings(f).rings = ReadOf(response, f, MaxAdded).rings
<1> DEFINE g == f.geometry
           kind == response.product.kind
           reference == response.reference
<1>1. CASE IsEsri(f)
  <2>1. ReadRings(f) = ReadEsri(g, reference, remaining)
    BY <1>1, EsriIsRead
  <2>2. ReadOf(response, f, MaxAdded) = ReadEsri(g, reference, MaxAdded)
    BY <1>1 DEF ReadOf, Read, IsEsri
  <2>3. g.rings \in Seq(Seq(Points))
    BY <1>1, EsriRingsType
  <2>4. ReadEsri(g, reference, remaining).ok
    BY <2>1
  <2> HIDE DEF g, reference
  <2>5. ReadEsri(g, reference, remaining).rings = ReadEsri(g, reference, MaxAdded).rings
    BY <2>3, <2>4, EsriRings
  <2> QED
    BY <2>1, <2>2, <2>5
<1>2. CASE g.shape = "geojson" /\ kind # "storm_reports"
  <2>1. ReadRings(f) = ReadGeoJson(g, remaining)
    BY <1>2 DEF ReadRings, Read
  <2>2. ReadOf(response, f, MaxAdded) = ReadGeoJson(g, MaxAdded)
    BY <1>2 DEF ReadOf, Read
  <2>3. ReadGeoJson(g, remaining).rings = ReadGeoJson(g, MaxAdded).rings
    <3> HIDE DEF g
    <3> QED
      BY GeoJsonRings
  <2> QED
    BY <2>1, <2>2, <2>3
<1>3. CASE ~IsEsri(f) /\ ~(g.shape = "geojson" /\ kind # "storm_reports")
  <2>1. ReadRings(f) = Rings(<<>>, remaining)
    BY <1>3 DEF ReadRings, Read, IsEsri
  <2>2. ReadOf(response, f, MaxAdded) = Rings(<<>>, MaxAdded)
    BY <1>3 DEF ReadOf, Read, IsEsri
  <2> QED
    BY <2>1, <2>2 DEF Rings
<1> QED
  BY <1>1, <1>2, <1>3

LEMMA AloneType ==
  ASSUME response \in Responses
  PROVE  \E S : \A n \in 0 .. Len(response.features) :
                  /\ EachAlone(n) \in Seq(Seq(S))
                  /\ \A i \in 1 .. n : Alone(response, response.features[i]) \in Seq(S)
<1> DEFINE At(i) == response.features[i]
           S == {Item(response.product, f) : f \in ToSet(response.features)}
           T == Seq(S)
<1>1. Len(response.features) \in Nat
      /\ \A i \in 1 .. Len(response.features) : At(i) \in ToSet(response.features)
  BY FeatureType
<1>2. ASSUME NEW i \in 1 .. Len(response.features)
      PROVE  Alone(response, At(i)) \in Seq(S)
  <2> DEFINE item == Item(response.product, At(i))
  <2>1. item \in S
    BY <1>1
  <2>2. Alone(response, At(i)) = <<>> \/ Alone(response, At(i)) = <<item>>
    BY DEF Alone
  <2> HIDE DEF item, S
  <2>3. <<item>> \in Seq(S) /\ <<>> \in Seq(S)
    BY <2>1
  <2> QED
    BY <2>2, <2>3
<1>3. ASSUME NEW n \in 0 .. Len(response.features)
      PROVE  EachAlone(n) \in Seq(T) /\ \A i \in 1 .. n : Alone(response, At(i)) \in Seq(S)
  <2>1. \A i \in 1 .. n : i \in 1 .. Len(response.features)
    BY <1>1
  <2>2. \A i \in 1 .. n : Alone(response, At(i)) \in T
    BY <1>2, <2>1
  <2>3. EachAlone(n) \in [1 .. n -> T]
    BY <2>2 DEF EachAlone
  <2> HIDE DEF T
  <2>4. n \in Nat
    BY <1>1
  <2>5. EachAlone(n) \in Seq(T)
    BY <2>3, <2>4, SeqDef
  <2> QED
    BY <2>2, <2>5 DEF T
<1> HIDE DEF S
<1>4. \A n \in 0 .. Len(response.features) :
        EachAlone(n) \in Seq(Seq(S)) /\ \A i \in 1 .. n : Alone(response, At(i)) \in Seq(S)
  BY <1>3
<1> QED
  BY <1>4

(* One record more appends what it says alone. *)
LEMMA OneMoreAlone ==
  ASSUME response \in Responses, NEW n \in 1 .. Len(response.features)
  PROVE  FlattenSeq(EachAlone(n))
           = FlattenSeq(EachAlone(n - 1)) \o Alone(response, response.features[n])
<1> DEFINE a == Alone(response, response.features[n])
           u == EachAlone(n - 1)
           v == EachAlone(n)
<1>1. PICK S : \A k \in 0 .. Len(response.features) :
                 /\ EachAlone(k) \in Seq(Seq(S))
                 /\ \A i \in 1 .. k : Alone(response, response.features[i]) \in Seq(S)
  BY AloneType
<1>2. Len(response.features) \in Nat
  BY FeatureType
<1>3. n \in 0 .. Len(response.features) /\ n - 1 \in 0 .. Len(response.features) /\ n \in 1 .. n
      /\ n - 1 \in Nat /\ n \in Nat /\ n = (n - 1) + 1
  BY <1>2
<1>4. u \in Seq(Seq(S)) /\ v \in Seq(Seq(S)) /\ a \in Seq(S)
  BY <1>1, <1>3
<1>5. v = Append(u, a)
  <2> DEFINE T == Seq(S)
  <2>1. u \in Seq(T) /\ v \in Seq(T) /\ a \in T
    BY <1>4
  <2>2. DOMAIN u = 1 .. n - 1 /\ DOMAIN v = 1 .. n
        /\ (\A i \in 1 .. n - 1 : u[i] = Alone(response, response.features[i]))
        /\ \A i \in 1 .. n : v[i] = Alone(response, response.features[i])
    BY DEF EachAlone
  <2> HIDE DEF u, v, T, a
  <2>3. Len(u) = n - 1 /\ Len(v) = n
    BY <1>3, <2>1, <2>2, LenProperties
  <2>4. /\ Append(u, a) \in Seq(T) /\ Len(Append(u, a)) = Len(u) + 1
        /\ \A i \in 1 .. Len(u) : Append(u, a)[i] = u[i]
        /\ Append(u, a)[Len(u) + 1] = a
    BY <2>1, AppendProperties
  <2>5. ASSUME NEW i \in 1 .. Len(v) PROVE v[i] = Append(u, a)[i]
    <3>1. i \in 1 .. n /\ (i \in 1 .. n - 1 \/ i = n)
      BY <1>3, <2>3
    <3>2. CASE i \in 1 .. n - 1
      BY <2>2, <2>3, <2>4, <3>1, <3>2
    <3>3. CASE i = n
      BY <1>3, <2>2, <2>3, <2>4, <3>1, <3>3 DEF a
    <3> QED
      BY <3>1, <3>2, <3>3
  <2>6. Len(v) = Len(Append(u, a))
    BY <1>3, <2>3, <2>4
  <2> QED
    BY <2>1, <2>4, <2>5, <2>6, SeqEqual
<1>6. FlattenSeq(Append(u, a)) = FlattenSeq(u) \o a
  BY <1>4, FlattenAppend
<1> QED
  BY <1>5, <1>6

LEMMA PayloadType ==
  ASSUME IsSequence(features)
  PROVE  IsSequence(Payload) /\ Payload \o <<>> = Payload
<1>1. PICK S : features \in Seq(S)
  BY DEF IsSequence
<1> DEFINE T == {s.item : s \in S}
<1>2. Len(features) \in Nat /\ DOMAIN features = 1 .. Len(features)
  BY <1>1, LenProperties
<1>3. \A i \in 1 .. Len(features) : features[i].item \in T
  BY <1>1, <1>2
<1> HIDE DEF T
<1>4. Payload \in [1 .. Len(features) -> T]
  BY <1>2, <1>3 DEF Payload
<1>5. Payload \in Seq(T)
  BY <1>2, <1>4, SeqDef
<1> QED
  BY <1>5, ConcatEmptySeq DEF IsSequence

(* WithItem() adds to the payload the item it keeps, at its end. *)
LEMMA PayloadGrows ==
  ASSUME IsSequence(features), NEW rings, features' = WithItem(rings)
  PROVE  LET item == Item(response.product, Feature)
         IN  Payload' = Payload \o (IF Keeps(response.product, item, rings)
                                      THEN <<item>> ELSE <<>>)
<1> DEFINE item == Item(response.product, Feature)
           new == [index |-> next, item |-> item, rings |-> rings]
<1>1. CASE ~Keeps(response.product, item, rings)
  <2>1. features' = features
    BY <1>1 DEF WithItem
  <2>2. Payload' = Payload
    BY <2>1 DEF Payload
  <2> QED
    BY <1>1, <2>2, PayloadType
<1>2. CASE Keeps(response.product, item, rings)
  <2>1. features' = Append(features, new)
    BY <1>2 DEF WithItem
  <2>2. new.item = item
    OBVIOUS
  <2> HIDE DEF item, new
  <2>3. PICK S : features \in Seq(S)
    BY DEF IsSequence
  <2> DEFINE U == S \cup {new}
             n == Len(features)
             T == {s.item : s \in U}
  <2>4. features \in Seq(U) /\ new \in U
    BY <2>3, SeqMonotonic
  <2> HIDE DEF U
  <2>5. /\ features' \in Seq(U) /\ Len(features') = n + 1 /\ n \in Nat
        /\ DOMAIN features = 1 .. n /\ DOMAIN features' = 1 .. n + 1
        /\ \A i \in 1 .. n : features'[i] = features[i]
        /\ features'[n + 1] = new
    BY <2>1, <2>4, AppendProperties, LenProperties
  <2>6. /\ DOMAIN Payload = 1 .. n /\ DOMAIN Payload' = 1 .. n + 1
        /\ \A i \in 1 .. n : Payload[i] = features[i].item
        /\ \A i \in 1 .. n + 1 : Payload'[i] = features'[i].item
    BY <2>5 DEF Payload
  <2>7. /\ \A i \in 1 .. n : features[i].item \in T
        /\ \A i \in 1 .. n + 1 : features'[i].item \in T
        /\ item \in T
    BY <2>2, <2>4, <2>5
  <2> HIDE DEF n, T
  <2>8. Payload \in [1 .. n -> T] /\ Payload' \in [1 .. n + 1 -> T]
    BY <2>6, <2>7 DEF Payload
  <2>9. Payload \in Seq(T) /\ Payload' \in Seq(T) /\ Len(Payload) = n /\ Len(Payload') = n + 1
    BY <2>5, <2>6, <2>8, SeqDef, LenProperties
  <2>10. /\ Append(Payload, item) \in Seq(T) /\ Len(Append(Payload, item)) = n + 1
         /\ \A i \in 1 .. n : Append(Payload, item)[i] = Payload[i]
         /\ Append(Payload, item)[n + 1] = item
    BY <2>7, <2>9, AppendProperties
  <2>11. \A i \in 1 .. n + 1 : Payload'[i] = Append(Payload, item)[i]
    BY <2>2, <2>5, <2>6, <2>10
  <2>12. Payload' = Append(Payload, item)
    BY <2>9, <2>10, <2>11, SeqEqual
  <2>13. Append(Payload, item) = Payload \o <<item>>
    BY <2>7, <2>9, AppendIsConcat
  <2> QED
    BY <1>2, <2>12, <2>13 DEF item
<1> QED
  BY <1>1, <1>2

LEMMA OrderStarts == Init => InOrder
<1> SUFFICES ASSUME Init PROVE Payload = FlattenSeq(EachAlone(next - 1))
  BY DEF InOrder
<1>1. next = 1 /\ features = <<>>
  BY DEF Init
<1>2. EachAlone(next - 1) = <<>>
  BY <1>1 DEF EachAlone
<1>3. Payload = <<>>
  BY <1>1 DEF Payload
<1> QED
  BY <1>2, <1>3, FlattenNothing

LEMMA OrderIsKept == Reading /\ InOrder /\ [Next]_vars => InOrder'
<1> SUFFICES ASSUME Reading, InOrder, [Next]_vars PROVE InOrder'
  OBVIOUS
<1> DEFINE item == Item(response.product, Feature)
           alone == Alone(response, response.features[next])
<1>1. /\ response \in Responses /\ remaining \in Nat /\ MaxAdded \in Nat /\ remaining <= MaxAdded
      /\ IsSequence(features) /\ next \in 1 .. Len(response.features) + 1
      /\ Len(response.features) \in Nat
  BY FeatureType, GeometryAssumption DEF Reading, TypeOK
<1>2. ASSUME response' = response, features' = features, next' = next, status # "failed"
      PROVE  InOrder'
  <2>1. Payload' = Payload /\ Payload = FlattenSeq(EachAlone(next - 1))
    BY <1>2 DEF Payload, InOrder
  <2>2. EachAlone(next - 1)' = EachAlone(next - 1)
    BY <1>2 DEF EachAlone
  <2> QED
    BY <2>1, <2>2 DEF InOrder
<1>3. ASSUME More, response' = response, next' = next + 1, Payload' = Payload \o alone
      PROVE  InOrder'
  <2>1. next \in 1 .. Len(response.features) /\ status = "reading" /\ next' - 1 = next
    BY <1>1, <1>3 DEF More
  <2>2. Payload = FlattenSeq(EachAlone(next - 1))
    BY <2>1 DEF InOrder
  <2>3. FlattenSeq(EachAlone(next)) = FlattenSeq(EachAlone(next - 1)) \o alone
    BY <1>1, <2>1, OneMoreAlone
  <2>4. Payload' = FlattenSeq(EachAlone(next))
    BY <1>3, <2>2, <2>3
  <2>5. EachAlone(next - 1)' = EachAlone(next)
    BY <1>3, <2>1 DEF EachAlone
  <2> QED
    BY <2>4, <2>5 DEF InOrder
<1>4. CASE SkipFeature
  <2>1. /\ More /\ Skips(response.product, Feature) /\ response' = response
        /\ next' = next + 1 /\ features' = features
    BY <1>4 DEF SkipFeature
  <2>2. alone = <<>>
    BY <2>1 DEF Alone, Feature
  <2>3. Payload' = Payload
    BY <2>1 DEF Payload
  <2> HIDE DEF alone
  <2>4. Payload' = Payload \o alone
    BY <1>1, <2>2, <2>3, PayloadType
  <2> QED
    BY <1>3, <2>1, <2>4
<1>5. CASE ReadFeature
  <2> DEFINE rings == ReadRings(Feature).rings
  <2>1. /\ More /\ ~Skips(response.product, Feature) /\ ReadRings(Feature).ok
        /\ response' = response /\ next' = next + 1 /\ features' = WithItem(rings)
    BY <1>5 DEF ReadFeature
  <2>2. Feature = response.features[next] /\ Feature \in ToSet(response.features)
    <3>1. next \in 1 .. Len(response.features)
      BY <1>1, <2>1 DEF More
    <3> QED
      BY <1>1, <3>1, FeatureType DEF Feature
  <2>3. rings = ReadOf(response, Feature, MaxAdded).rings
    BY <1>1, <2>1, <2>2, RingsWithinBudget
  <2>4. alone = IF Keeps(response.product, item, rings) THEN <<item>> ELSE <<>>
    <3> HIDE DEF rings
    <3> QED
      BY <2>1, <2>2, <2>3 DEF Alone
  <2>5. Payload' = Payload \o (IF Keeps(response.product, item, rings) THEN <<item>> ELSE <<>>)
    <3> HIDE DEF rings
    <3> QED
      BY <1>1, <2>1, PayloadGrows
  <2>6. Payload' = Payload \o alone
    BY <2>4, <2>5
  <2> QED
    BY <1>3, <2>1, <2>6
<1>6. CASE FailFeature
  BY <1>6 DEF FailFeature, InOrder
<1>7. CASE Finish
  BY <1>2, <1>7 DEF Finish
<1>8. CASE UNCHANGED vars
  <2>1. CASE status = "failed"
    BY <1>8, <2>1 DEF InOrder, vars
  <2>2. CASE status # "failed"
    BY <1>2, <1>8, <2>2 DEF vars
  <2> QED
    BY <2>1, <2>2
<1> QED
  BY <1>4, <1>5, <1>6, <1>7, <1>8 DEF Next

LEMMA DoneInOrder ==
  Reading /\ Accounted /\ InOrder /\ status = "done"
    => Payload = FlattenSeq(EachAlone(Len(response.features)))
<1> SUFFICES ASSUME Reading, Accounted, InOrder, status = "done"
             PROVE  Payload = FlattenSeq(EachAlone(Len(response.features)))
  OBVIOUS
<1>1. next = Len(response.features) + 1 /\ Len(response.features) \in Nat
  BY FeatureType DEF Reading, Accounted
<1>2. next - 1 = Len(response.features)
  BY <1>1
<1> QED
  BY <1>2 DEF InOrder

LEMMA OrderAlways == Spec => [](Reading /\ Accounted /\ InOrder)
<1>1. Init => Reading /\ Accounted /\ InOrder
  BY ReadingStarts, AccountStarts, OrderStarts
<1>2. Reading /\ Accounted /\ InOrder /\ [Next]_vars => (Reading /\ Accounted /\ InOrder)'
  BY ReadingGoesOn, AccountIsKept, OrderIsKept
<1> QED
  BY <1>1, <1>2, PTL DEF Spec

(* A payload is made of what each record says on its own, in the order of the  *)
(* records: no item depends on the records around it, on the budget they left, *)
(* or on the point at which the loop was (json.cpp's parsers).                 *)
THEOREM PayloadInOrder ==
  Spec => [](status = "done" => Payload = FlattenSeq(EachAlone(Len(response.features))))
<1> QED
  BY OrderAlways, DoneInOrder, PTL

(* Each record of the responses of this kind, on its own, says what it should: *)
(* the parsers' reading of one record, which the run compares with what the    *)
(* feed means by it, however it writes it.                                     *)
EachSaysItsOwn(kind) ==
    \A r \in Responses : r.about = kind =>
      \A f \in ToSet(r.features) : Alone(r, f) = f.says

LEMMA SaysInOrder ==
  ASSUME NEW kind, EachSaysItsOwn(kind), response \in Responses, response.about = kind,
         Payload = FlattenSeq(EachAlone(Len(response.features)))
  PROVE  Payload = Says
<1> DEFINE n == Len(response.features)
<1>1. DOMAIN response.features = 1 .. n
      /\ \A i \in 1 .. n : response.features[i] \in ToSet(response.features)
  BY FeatureType
<1>2. \A i \in 1 .. n : Alone(response, response.features[i]) = response.features[i].says
  BY <1>1 DEF EachSaysItsOwn
<1>3. EachAlone(n) = [i \in DOMAIN response.features |-> response.features[i].says]
  BY <1>1, <1>2 DEF EachAlone
<1> QED
  BY <1>3 DEF Says

(* If one record alone is read as the risk it forecasts, or as none, then an   *)
(* outlook of any number of records holds exactly the risks forecast, in their *)
(* order: nothing that the loop carries from record to record disturbs them.   *)
THEOREM RisksFollowRecords ==
  ASSUME EachSaysItsOwn("risks")
  PROVE  Spec => []RisksAsForecast
<1>1. Reading /\ Accounted /\ InOrder => RisksAsForecast
  <2> SUFFICES ASSUME Reading, Accounted, InOrder, response.about = "risks", status = "done"
               PROVE  Payload = Says
    BY DEF RisksAsForecast
  <2>1. Payload = FlattenSeq(EachAlone(Len(response.features)))
    BY DoneInOrder
  <2>2. response \in Responses
    BY DEF Reading
  <2> QED
    BY <2>1, <2>2, SaysInOrder
<1> QED
  BY <1>1, OrderAlways, PTL

(* The same of watches, reports and discussions: if one alone is read as it    *)
(* was filed, then so is every payload, one item for each, in order.           *)
THEOREM ReportsFollowRecords ==
  ASSUME EachSaysItsOwn("reports")
  PROVE  Spec => []ReportsAsFiled
<1>1. Reading /\ Accounted /\ InOrder => ReportsAsFiled
  <2> SUFFICES ASSUME Reading, Accounted, InOrder, response.about = "reports", status = "done"
               PROVE  Payload = Says
    BY DEF ReportsAsFiled
  <2>1. Payload = FlattenSeq(EachAlone(Len(response.features)))
    BY DoneInOrder
  <2>2. response \in Responses
    BY DEF Reading
  <2> QED
    BY <2>1, <2>2, SaysInOrder
<1> QED
  BY <1>1, OrderAlways, PTL

=============================================================================
