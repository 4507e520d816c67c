---------------------------- MODULE MCForecasts ----------------------------
(***************************************************************************)
(* What SPC and IEM publish about a few risks and reports, in each of the  *)
(* ways that the feeds write them (tests/fixtures/README.md), and what it  *)
(* says.  Numbers are in hundredths.                                       *)
(***************************************************************************)
EXTENDS MCAreas, ProductFields

Product(kind, day, layer) == [kind |-> kind, day |-> day, layer |-> layer]

Products ==
    {Product(k, 1, "") : k \in {"categorical", "probabilistic", "day4_8",
       "conditional_intensity", "mesoscale", "watches", "storm_reports"}}
    \cup {Product("fire_weather", 2, "Outlook"), Product("fire_weather", 1, "DryThunderstorm"),
          Product("fire_weather", 3, "WindLowHumidity")}

(* A record that says something, and has an area; Esri's when in attributes. *)
Saying(container, fields, says) ==
    LET area == <<<<Triangle>>>>
    IN  Published(container, fields, area,
          IF container = "attributes" THEN EsriOf(area, "none") ELSE GeoJsonOf(area),
          FALSE, <<says>>)

(* A record whose geometry is not to be read, for it is broken. *)
Silent(container, fields) ==
    Published(container, fields, <<<<Square, BadHole>>>>,
      EsriOf(<<<<Square, BadHole>>>>, "none"), TRUE, <<>>)

Void(record) == [record EXCEPT !.says = <<>>]

WithoutArea(record) == [record EXCEPT !.area = <<>>, !.geometry = [shape |-> "missing"]]

-----------------------------------------------------------------------------
(* Three ways to write a risk: SPC's files, an ArcGIS layer, and one with dn alone. *)

Whole(n) == <<"whole", n>>
Stamp(x) == Text(<<"spc", x>>)

Upper(label, dn) ==
    [LABEL |-> Text(label), DN |-> dn,
     ISSUE |-> Stamp("issued"), VALID |-> Stamp("begins"), EXPIRE |-> Stamp("ends")]

Lower(label, dn) ==
    [label |-> Text(label), dn |-> dn,
     issue |-> Stamp("issued"), valid |-> Stamp("begins"), expire |-> Stamp("ends")]

Bare(dn) == [dn |-> dn, valid |-> Stamp("begins"), expire |-> Stamp("ends")]

AllTimes ==
    [issued_at |-> <<"iso", "issued">>, valid_from |-> <<"iso", "begins">>,
     valid_until |-> <<"iso", "ends">>]

TimesOf(fields) ==
    IF DOMAIN fields = DOMAIN Bare(Null) THEN [AllTimes EXCEPT !.issued_at = NoText]
    ELSE AllTimes

(* The containers that a product is published in. *)
Containers(p) == IF p.kind \in PropertiesOnly THEN {"properties"} ELSE {"properties", "attributes"}

Chance(fields, label, percent) == [fields |-> fields, label |-> label, percent |-> percent]

Chances ==
    {Chance(Upper(Whole(15), Number(1500)), Whole(15), 15),
     Chance(Lower(Whole(2), Number(200)), Whole(2), 2),
     Chance(Lower(Whole(100), Number(10000)), Whole(100), 100),
     Chance(Lower(<<"prefix", 1500>>, Number(1500)), <<"prefix", 1500>>, 15),
     Chance(Bare(Number(1500)), NoText, 15),
     Chance(Bare(Text(Whole(3000))), NoText, 30)}

NoChances == {Bare(Number(15000)), Bare(Number(-500)), Bare(Null), Upper(Word("NONE"), Null)}

Levels == {<<"TSTM", 1>>, <<"ENH", 3>>, <<"HIGH", 5>>}

(* The bands of fire weather, by the layer's dn. *)
Bands ==
    [Outlook |-> {<<5, "ELEV", 1>>, <<8, "CRIT", 2>>, <<10, "EXTM", 3>>},
     DryThunderstorm |-> {<<5, "IDRT", 0>>, <<8, "SDRT", 0>>}]

CategoricalRecords ==
    UNION {{Saying("properties", fields,
              [label |-> Word(l[1]), severity |-> l[2], times |-> TimesOf(fields)]) :
              fields \in {Upper(Word(l[1]), Number(300)), Lower(Word(l[1]), Number(300))}} :
           l \in Levels}
    \cup {Void(Saying("properties", Upper(Word("NONE"), Number(0)), <<>>))}

ChanceRecords(p, Says(_)) ==
    {Saying(container, c.fields, Says(c)) : c \in Chances, container \in Containers(p)}
    \cup {Void(Saying("properties", fields, <<>>)) : fields \in NoChances}
    \cup {Void(Saying("scalar", <<>>, <<>>))}

ProbabilisticSays(c) == [probability |-> c.percent, times |-> TimesOf(c.fields)]
Day48Says(c) == [label |-> c.label, probability |-> c.percent, times |-> TimesOf(c.fields)]
FireSays(c) ==
    [day |-> 3, layer |-> "WindLowHumidity", label |-> c.label,
     probability |-> c.percent, severity |-> 0, times |-> TimesOf(c.fields)]

(* Days 1 and 2 of fire weather *)
BandRecords(p) ==
    UNION {{Saying("attributes", fields,
              [day |-> p.day, layer |-> p.layer, label |-> Word(b[2]), probability |-> 0,
               severity |-> b[3], times |-> TimesOf(fields)]) :
              fields \in {Bare(Number(100 * b[1])), Bare(Text(Whole(100 * b[1]))),
                          Lower(Word(b[2]), Number(800))}} :
           b \in Bands[p.layer]}

NoFire ==
    {Silent("attributes", Bare(Number(0))), Silent("attributes", Bare(Text(Whole(0)))),
     Silent("properties", Lower(Word("Probability Too Low"), Number(100)))}

ConditionalRecords ==
    {Saying(container, Lower(Word(l[1]), Number(200)),
        [label |-> Word(l[1]), cig_level |-> l[2], times |-> AllTimes]) :
       l \in {<<"CIG1", 1>>, <<"CIG3", 3>>}, container \in {"properties", "attributes"}}

-----------------------------------------------------------------------------
(* Discussions, watches and reports. *)

MesoscaleRecords ==
    {Saying("attributes", name @@ [folderpath |-> Text(Word("active")), popupinfo |-> Null],
        [name |-> Word("MD 0746"), folder_path |-> Word("active"), url |-> NoText]) :
       name \in {[name |-> Text(Word("MD 0746"))], [NAME |-> Text(Word("MD 0746"))]}}
    \cup {Silent("attributes", [name |-> Text(Word("NoArea")), popupinfo |-> Null])}

WatchRecords ==
    {Saying("properties",
        [number |-> n[1], year |-> Number(202400), type |-> Text(Word("TOR")), is_pds |-> pds,
         max_hail_size |-> Text(Whole(250)), issue |-> Text(<<"iso", "i">>), expire |-> Null],
        [number |-> n[2], year |-> 2024, type |-> Word("TOR"), is_pds |-> pds = Flag(TRUE),
         max_hail_size |-> 250, issued_at |-> <<"iso", "i">>, expires_at |-> NoText]) :
       n \in {<<Number(13950), 139>>, <<Text(Whole(13900)), 139>>, <<Number(100 * IntMax + 1), 0>>},
       pds \in {Flag(TRUE), Flag(FALSE), Text(Word("true"))}}

Place == <<-9451, 3799>>

StormReportRecords ==
    LET size == {[magf |-> Number(175), magnitude |-> Null],
                 [magf |-> Null, magnitude |-> Text(Whole(175))]}
        coordinates == {[lon |-> Number(Place[1]), lat |-> Number(Place[2])],
                        [lon |-> Text(Whole(Place[1])), lat |-> Text(Whole(Place[2]))]}
        rest == [type |-> Text(Word("H")), unit |-> Text(Word("Inch")), valid |-> Text(<<"iso", "v">>)]
        Report(fields, geometry, at) ==
          Published("properties", fields @@ rest, <<>>, geometry, FALSE,
            <<[location |-> at, type |-> Word("H"), magnitude |-> 175, unit |-> Word("Inch"),
               valid_at |-> <<"iso", "v">>]>>)
    IN  {Report(s @@ c, g, Place) : s \in size, c \in coordinates,
           g \in {[shape |-> "missing"], [shape |-> "point", at |-> <<0, 0>>]}}
        \cup {Report(s, [shape |-> "point", at |-> at], at) : s \in size, at \in {Place, <<0, 5150>>}}

-----------------------------------------------------------------------------
Written(p) ==
    CASE p.kind = "categorical" -> CategoricalRecords
      [] p.kind = "probabilistic" -> ChanceRecords(p, ProbabilisticSays)
      [] p.kind = "day4_8" -> ChanceRecords(p, Day48Says)
      [] p.kind = "conditional_intensity" -> ConditionalRecords
      [] p.kind = "fire_weather" ->
           NoFire \cup IF p.day < 3 THEN BandRecords(p) ELSE ChanceRecords(p, FireSays)
      [] p.kind = "mesoscale" -> MesoscaleRecords
      [] p.kind = "watches" -> WatchRecords
      [] p.kind = "storm_reports" -> StormReportRecords

(* Any record may lack its area, which ends an outlook's; and one may lack its fields. *)
Records(p) ==
    Written(p)
    \cup (IF p.kind = "storm_reports" THEN {}
          ELSE LET some == CHOOSE r \in Written(p) : r.says # <<>>
               IN  {IF p.kind \in Outlooks THEN Void(WithoutArea(some)) ELSE WithoutArea(some)})
    \cup {Silent("none", <<>>)}
=============================================================================
