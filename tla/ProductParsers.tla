--------------------------- MODULE ProductParsers ---------------------------
(***************************************************************************)
(* The loop that every product parser is (categorical_from_tree() and the  *)
(* others): over the records of a response in order, reading fields and    *)
(* geometry, and keeping the items that say something.  An exception from a geometry *)
(* ends the loop and leaves no payload.                                    *)
(***************************************************************************)
EXTENDS PayloadGeometry, ProductFields

CONSTANT Responses      \* what may be parsed: the product, reference and features

ASSUME ResponsesAssumption ==
    \A r \in Responses :
      /\ r.features \in Seq(ToSet(r.features))
      /\ \A f \in ToSet(r.features) :
           f.geometry.shape = "esri" => f.geometry.rings \in Seq(Seq(Points))

VARIABLES
    response,     \* what is being parsed
    status,       \* "reading", "done", "failed"
    next,         \* the index of the feature to read next
    remaining,    \* remaining_added_points_
    features      \* the payload: of each item its index, its fields and its rings

vars == <<response, status, next, remaining, features>>

TypeOK ==
    /\ status \in {"reading", "done", "failed"}
    /\ next \in 1 .. Len(response.features) + 1
    /\ remaining \in 0 .. MaxAdded
    /\ \A i \in DOMAIN features : features[i].index < next

Init ==
    /\ response \in Responses
    /\ status = "reading"
    /\ next = 1
    /\ remaining = MaxAdded
    /\ features = <<>>

More == status = "reading" /\ next <= Len(response.features)

Feature == response.features[next]

(* The outlooks of days 1 to 3 take GeoJSON alone; a report is a point. *)
ReadRings(f) ==
    LET g == f.geometry
    IN  CASE response.product.kind = "storm_reports" -> Rings(<<>>, remaining)
          [] response.product.kind \in {"categorical", "probabilistic"} /\ g.shape = "esri" ->
               Rings(<<>>, remaining)
          [] OTHER -> Read(g, response.reference, remaining)

WithItem(rings) ==
    LET item == Item(response.product, Feature)
    IN  IF Keeps(response.product, item, rings)
          THEN Append(features, [index |-> next, item |-> item, rings |-> rings])
          ELSE features

(* The geometry of such a record is not read. *)
SkipFeature ==
    /\ More
    /\ Skips(response.product, Feature)
    /\ next' = next + 1
    /\ UNCHANGED <<response, status, remaining, features>>

(* Mutant: the budget starts anew with every geometry. *)
ReadFeatureWithFreshBudget ==
    /\ More
    /\ ~Skips(response.product, Feature)
    /\ ReadRings(Feature).ok
    /\ features' = WithItem(ReadRings(Feature).rings)
    /\ next' = next + 1
    /\ UNCHANGED <<response, status, remaining>>

ReadFeature ==
    /\ More
    /\ ~Skips(response.product, Feature)
    /\ ReadRings(Feature).ok
    /\ remaining' = ReadRings(Feature).left
    /\ features' = WithItem(ReadRings(Feature).rings)
    /\ next' = next + 1
    /\ UNCHANGED <<response, status>>

(* The exception leaves no payload, not even the features already read. *)
FailFeature ==
    /\ More
    /\ ~Skips(response.product, Feature)
    /\ ~ReadRings(Feature).ok
    /\ status' = "failed"
    /\ features' = <<>>
    /\ UNCHANGED <<response, next, remaining>>

Finish ==
    /\ status = "reading"
    /\ next > Len(response.features)
    /\ status' = "done"
    /\ UNCHANGED <<response, next, remaining, features>>

Next ==
    \/ SkipFeature
    \/ ReadFeature
    \/ FailFeature
    \/ Finish

Spec == Init /\ [][Next]_vars
=============================================================================
