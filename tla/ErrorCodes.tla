----------------------------- MODULE ErrorCodes -----------------------------
(***************************************************************************)
(* How the clients turn an answer into an spc::ErrorCode.  An answer is    *)
(* what one HttpTransport::get() returns: an HTTP response (its status,    *)
(* the delay its Retry-After header asks for, and what parsing its body    *)
(* yields, "Ok" or "ParseError") or the transport's error.                 *)
(***************************************************************************)
EXTENDS Integers

Response(status, after) ==
    [kind |-> "response", status |-> status, after |-> after, code |-> "Ok"]

Garbled == [Response(200, 0) EXCEPT !.code = "ParseError"]

Failure(code) == [kind |-> "error", status |-> 0, after |-> 0, code |-> code]

(* Error::from_response(); notFound is what a 404 means for the feed. *)
FromResponse(status, notFound) ==
    CASE status = 404 -> notFound
      [] status = 400 -> "InvalidRequest"
      [] status \in {429, 503} -> "RateLimited"
      [] status >= 500 /\ status # 503 -> "ServerError"
      [] OTHER -> "Unknown"

(* Error::from_arcgis(): the code of an error object sent with HTTP 200. *)
FromArcGIS(code) ==
    CASE code = 404 -> "NotFound"
      [] code \in {429, 503} -> "RateLimited"
      [] code \in (500 .. 599) \ {503} -> "ServerError"
      [] OTHER -> "InvalidRequest"

(* Error::http_status of that error: "the ArcGIS code when it lies in 100..599" *)
ArcGISStatus(code) == IF code \in 100 .. 599 THEN code ELSE 0

(* body_or_error(): "Ok" stands for the body. *)
BodyOrError(answer, notFound) ==
    IF answer.kind = "error" THEN answer.code
    ELSE IF answer.status = 200 THEN "Ok"
    ELSE FromResponse(answer.status, notFound)

(* built_from(): the body is parsed once it is known to be one. *)
BuiltFrom(answer, notFound) ==
    IF BodyOrError(answer, notFound) = "Ok" THEN answer.code ELSE BodyOrError(answer, notFound)
=============================================================================
