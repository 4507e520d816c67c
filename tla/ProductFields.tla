--------------------------- MODULE ProductFields ---------------------------
(***************************************************************************)
(* How the fields of one record become the item of a product.  Fields map  *)
(* keys to JSON values.  Numbers are in hundredths, so that 0.15 is 15 and *)
(* 15 is 1500.  A text is a pair: what it looks like, and what it says; of *)
(* a text that begins with a number, the number.                           *)
(***************************************************************************)
EXTENDS Integers, Sequences, SequencesExt

CONSTANT IntMax        \* the largest int32

ASSUME FieldsAssumption == IntMax \in Nat

One == 100

NoText == <<"", "">>
Word(w) == <<"word", w>>

Null == [type |-> "null"]
Text(text) == [type |-> "string", text |-> text]
Number(n) == [type |-> "number", number |-> n]
Flag(b) == [type |-> "boolean", flag |-> b]

-----------------------------------------------------------------------------
(* json.hpp: null-safe readers of one field, and of the first that is there. *)

(* lookup(), for whose nullptr every reader does what it does for null *)
Lookup(o, key) == IF key \in DOMAIN o THEN o[key] ELSE Null

JsonString(o, key) ==
    IF Lookup(o, key).type = "string" THEN Lookup(o, key).text ELSE NoText

(* parse_double(): of "15%" it reads the 15, and stops before the end *)
Parses(text) == text[1] \in {"whole", "prefix"}

(* json_number_or_numeric_string() *)
NumberIn(o, key) ==
    LET v == Lookup(o, key)
    IN  CASE v.type = "number" -> v.number
          [] v.type = "string" /\ Parses(v.text) -> v.text[2]
          [] OTHER -> 0

FirstString(o, keys) ==
    LET found == SelectSeq(keys, LAMBDA k : JsonString(o, k) # NoText)
    IN  IF found = <<>> THEN NoText ELSE JsonString(o, Head(found))

FirstNumber(o, keys) ==
    LET found == SelectSeq(keys, LAMBDA k : NumberIn(o, k) # 0)
    IN  IF found = <<>> THEN 0 ELSE NumberIn(o, Head(found))

(* normalized_probability(), of whole percentages *)
NormalizedProbability(o) ==
    LET value == FirstNumber(o, <<"LABEL", "label", "dn">>)
        normalized == IF value > One THEN value \div One ELSE value
    IN  IF normalized \in 0 .. One THEN normalized ELSE 0

(* spc_ts_to_iso8601(): anything but twelve digits is left as it is *)
ToIso8601(text) == IF text[1] = "spc" THEN <<"iso", text[2]>> ELSE text

FirstTimestamp(o, keys) == ToIso8601(FirstString(o, keys))

Times(o) ==
    [issued_at |-> FirstTimestamp(o, <<"ISSUE", "issue">>),
     valid_from |-> FirstTimestamp(o, <<"VALID", "valid">>),
     valid_until |-> FirstTimestamp(o, <<"EXPIRE", "expire">>)]

(* to_int32(), of a number in hundredths: a cast truncates toward zero. *)
IntField(o, key) ==
    LET n == NumberIn(o, key)
    IN  IF n < -One * (IntMax + 1) \/ n > One * IntMax THEN 0
        ELSE IF n < 0 THEN -((-n) \div One) ELSE n \div One

IsSet(o, key) == Lookup(o, key) = Flag(TRUE)

-----------------------------------------------------------------------------
(* Labels and severities. *)

OutlookSeverity == [TSTM |-> 1, MRGL |-> 1, SLGT |-> 2, ENH |-> 3, MDT |-> 4, HIGH |-> 5]
FireSeverity == [ELEV |-> 1, CRIT |-> 2, EXTM |-> 3]
CigLevel == [CIG1 |-> 1, CIG2 |-> 2, CIG3 |-> 3]

Ranked(ranks, label) ==
    IF label[1] = "word" /\ label[2] \in DOMAIN ranks THEN ranks[label[2]] ELSE 0

(* has_zero_dn(): here the whole text must be a number. *)
HasZeroDn(o) == Lookup(o, "dn") = Number(0) \/ JsonString(o, "dn") = <<"whole", 0>>

DnBands ==
    [Outlook |-> <<<<5, "ELEV">>, <<8, "CRIT">>, <<10, "EXTM">>>>,
     DryThunderstorm |-> <<<<5, "IDRT">>, <<8, "SDRT">>>>,
     WindLowHumidity |-> <<>>]

(* Mutant: the bands of the outlook are used for both layers. *)
LabelFromDnOfOutlook(o, layer) ==
    LET band == SelectSeq(DnBands["Outlook"], LAMBDA b : NumberIn(o, "dn") = One * b[1])
    IN  IF band = <<>> THEN NoText ELSE Word(Head(band)[2])

(* label_from_dn() *)
LabelFromDn(o, layer) ==
    LET band == SelectSeq(DnBands[layer], LAMBDA b : NumberIn(o, "dn") = One * b[1])
    IN  IF band = <<>> THEN NoText ELSE Word(Head(band)[2])

Label(o) == FirstString(o, <<"LABEL", "label">>)

ProbabilityTooLow == Word("Probability Too Low")

-----------------------------------------------------------------------------
(* One record.  p is the product: its kind, day and fire-weather layer. *)

(* These read `properties`; the others take Esri's `attributes` as well. *)
PropertiesOnly == {"categorical", "probabilistic", "watches", "storm_reports"}

(* For these a record without a geometry is nothing. *)
Outlooks == {"categorical", "probabilistic", "day4_8", "conditional_intensity", "fire_weather"}

(* A "scalar" is a field list that is no object, which outlooks read as empty. *)
HasFields(p, f) ==
    \/ f.container = "properties"
    \/ f.container = "attributes" /\ p.kind \notin PropertiesOnly
    \/ f.container = "scalar" /\ p.kind \in Outlooks

(* The records left out before their geometry is read. *)
Skips(p, f) ==
    \/ ~HasFields(p, f)
    \/ p.kind \in Outlooks /\ f.geometry.shape = "missing"
    \/ p.kind = "fire_weather" /\ (HasZeroDn(f.fields) \/ Label(f.fields) = ProbabilityTooLow)
    \/ p.kind = "mesoscale" /\ FirstString(f.fields, <<"name", "NAME">>) = Word("NoArea")

CategoricalItem(o) ==
    LET label == FirstString(o, <<"LABEL", "label", "dn">>)
    IN  [label |-> label, severity |-> Ranked(OutlookSeverity, label), times |-> Times(o)]

ProbabilisticItem(o) == [probability |-> NormalizedProbability(o), times |-> Times(o)]

Day48Item(o) ==
    [label |-> Label(o), probability |-> NormalizedProbability(o), times |-> Times(o)]

ConditionalIntensityItem(o) ==
    [label |-> Label(o), cig_level |-> Ranked(CigLevel, Label(o)), times |-> Times(o)]

FireWeatherItem(p, o) ==
    LET label == IF p.day < 3 /\ Label(o) = NoText THEN LabelFromDn(o, p.layer) ELSE Label(o)
    IN  [day |-> p.day, layer |-> p.layer, label |-> label,
         probability |-> IF p.day >= 3 THEN NormalizedProbability(o) ELSE 0,
         severity |-> Ranked(FireSeverity, label), times |-> Times(o)]

MesoscaleItem(o) ==
    [name |-> FirstString(o, <<"name", "NAME">>), folder_path |-> JsonString(o, "folderpath"),
     url |-> JsonString(o, "popupinfo")]

WatchItem(o) ==
    [number |-> IntField(o, "number"), year |-> IntField(o, "year"),
     type |-> JsonString(o, "type"), is_pds |-> IsSet(o, "is_pds"),
     max_hail_size |-> NumberIn(o, "max_hail_size"),
     issued_at |-> JsonString(o, "issue"), expires_at |-> JsonString(o, "expire")]

(* Mutant: the repeated coordinates are not looked at. *)
LocationFromPointOnly(f) == IF f.geometry.shape = "point" THEN f.geometry.at ELSE <<0, 0>>

(* IEM repeats the Point, if it is there and not at zero, in the properties. *)
Location(f) ==
    IF f.geometry.shape = "point" /\ f.geometry.at # <<0, 0>> THEN f.geometry.at
    ELSE <<NumberIn(f.fields, "lon"), NumberIn(f.fields, "lat")>>

StormReportItem(f) ==
    [location |-> Location(f), type |-> JsonString(f.fields, "type"),
     magnitude |-> FirstNumber(f.fields, <<"magf", "magnitude">>),
     unit |-> JsonString(f.fields, "unit"), valid_at |-> JsonString(f.fields, "valid")]

Item(p, f) ==
    CASE p.kind = "categorical" -> CategoricalItem(f.fields)
      [] p.kind = "probabilistic" -> ProbabilisticItem(f.fields)
      [] p.kind = "day4_8" -> Day48Item(f.fields)
      [] p.kind = "conditional_intensity" -> ConditionalIntensityItem(f.fields)
      [] p.kind = "fire_weather" -> FireWeatherItem(p, f.fields)
      [] p.kind = "mesoscale" -> MesoscaleItem(f.fields)
      [] p.kind = "watches" -> WatchItem(f.fields)
      [] p.kind = "storm_reports" -> StormReportItem(f)

(* The items that stay, once their rings are known. *)
Keeps(p, item, rings) ==
    CASE p.kind \notin Outlooks -> TRUE
      [] p.kind = "categorical" -> item.severity > 0 /\ rings # <<>>
      [] p.kind = "conditional_intensity" -> rings # <<>>
      [] p.kind = "fire_weather" -> rings # <<>> /\ (p.day <= 2 \/ item.probability > 0)
      [] OTHER -> item.probability > 0 /\ rings # <<>>
=============================================================================
