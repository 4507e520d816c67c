-------------------------- MODULE MCLayerCatalogue --------------------------
(* Every request a caller can make, one after another. *)
EXTENDS LayerCatalogue

VARIABLE request

DaysAround == -1 .. 10

AnyRequest == request \in Requests

AnotherRequest == \E r \in Requests : request' = r

Requesting == AnyRequest /\ [][AnotherRequest]_request

LayersOf(r) == {LayersRead(r)[i] : i \in DOMAIN LayersRead(r)}

(***************************************************************************)
(* No layer is read as two products or for two days: requests that share a *)
(* layer are the same request, but for arguments the method does not look  *)
(* at and the two spellings of day 3's hazard (api.hpp:95-114).            *)
(***************************************************************************)
LayersAreNotShared ==
    \A r \in Requests :
      LayersOf(r) \cap LayersOf(request) # {} =>
        /\ r.method = request.method
        /\ r.method # "active_md" => r.day = request.day
        /\ LayersRead(r) = LayersRead(request)
        /\ r.method \in {"probabilistic", "conditional_intensity"} =>
             \/ r.hazard = request.hazard
             \/ r.day = 3 /\ {r.hazard, request.hazard} = {"severe", "any"}

(***************************************************************************)
(* The two sources of a product take the same days and hazards, although   *)
(* StaticFeedClient tests ranges where ArcGISClient looks into kLayers,    *)
(* and conditional intensity takes those of the probabilities              *)
(* (api.hpp:103-106).  Requests that read one file read one layer.         *)
(***************************************************************************)
SourcesAgree ==
    /\ request.method \in StaticMethods =>
         /\ StaticFeedAccepts(request) <=> LayersRead(request) # <<>>
         /\ \A r \in Requests :
              (r.method \in StaticMethods /\ StaticFile(request) # <<>>
                 /\ StaticFile(r) = StaticFile(request))
              => LayersRead(r) = LayersRead(request)
    /\ request.method = "conditional_intensity" =>
         (LayersRead(request) = <<>>)
           <=> (LayersRead([request EXCEPT !.method = "probabilistic"]) = <<>>)
=============================================================================
