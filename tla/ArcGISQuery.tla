---------------------------- MODULE ArcGISQuery ----------------------------
(***************************************************************************)
(* ArcGISClient: one query at a time, which reads one layer, or the two    *)
(* layers of a fire-weather day, page by page.  Every page is one          *)
(* with_retry() call (module Retry); ArcGISPager keeps the offset.  A      *)
(* product's pages are parsed and merged; query_layer() is raw: its pages  *)
(* are kept as they are.  The server is outside: it may return fewer       *)
(* records than it is asked for, report errors with HTTP 200, publish a    *)
(* layer anew between two pages, arrange an unordered layer anew for each  *)
(* page and, if it is Runaway, report truncation for ever.                 *)
(***************************************************************************)
EXTENDS Retry, Sequences, SequencesExt

CONSTANTS
    Client,           \* the one caller
    Products,         \* the queries: [layers, raw, ordered]
    Layers,           \* the layers of the service
    Contents,         \* what a layer may hold: sequences of records
    Malformed,        \* records a product's parser leaves out
    Unreadable,       \* records it throws at: a geometry that cannot be used
    ArcGISErrors,     \* the error codes sent with HTTP 200
    FailedAnswers,    \* the answers that are no page
    PageSize,         \* resultRecordCount
    MaxPages,         \* ArcGISPager::max_pages
    Republishes,      \* may a layer change while a query is read
    Runaway           \* may the server report truncation where there is none

ASSUME ArcGISAssumption ==
    /\ Callers = {Client}
    /\ PageSize \in Nat \ {0}
    /\ MaxPages \in Nat \ {0}
    /\ {Republishes, Runaway} \subseteq BOOLEAN

(* Layers hold sequences, only query_layer() goes without an order, and     *)
(* what is no page is told by its status or is the transport's error. *)
ASSUME ServiceAssumption ==
    /\ \A p \in Products :
          /\ p.layers \in Seq(Layers)
          /\ {p.raw, p.ordered} \subseteq BOOLEAN
          /\ p.ordered \/ p.raw
    /\ \A s \in Contents : s \in Seq(ToSet(s))
    /\ \A a \in FailedAnswers : IsAnswer(a) /\ BodyOrError(a, "NotFound") # "Ok"
    /\ ArcGISErrors \subseteq Int

VARIABLES
    layers,      \* the server: what each layer holds
    query,       \* "idle", "paging", "ok", "failed"
    todo,        \* the layers still to read, the one being read first
    offset,      \* offset_, reset with every layer
    pages,       \* pages_fetched_
    items,       \* the payload under construction
    error,       \* of a failed query: its code and http_status
    product,     \* the query
    ended,       \* history: how many of them ended with an untruncated page
    stable       \* history: no layer changed and no page lied since the start

pagerVars == <<offset, pages>>
queryVars == <<query, todo, pagerVars, items, error, product, ended>>
vars == <<retryVars, layers, queryVars, stable>>

Error(code, http_status) == [code |-> code, http_status |-> http_status]

NoError == Error("Ok", 0)

QueryTypeOK ==
    /\ RetryTypeOK
    /\ query \in {"idle", "paging", "ok", "failed"}
    /\ offset \in Nat
    /\ pages \in 0 .. MaxPages
    /\ ended \in 0 .. Len(product.layers)
    /\ error.http_status \in {0} \cup 100 .. 599 \cup {a.status : a \in FailedAnswers}
    /\ (query = "paging") => todo # <<>>

Init ==
    /\ RetryInit
    /\ layers \in [Layers -> Contents]
    /\ query = "idle"
    /\ todo = <<>>
    /\ offset = 0
    /\ pages = 0
    /\ items = <<>>
    /\ error = NoError
    /\ product = [layers |-> <<>>, raw |-> FALSE, ordered |-> TRUE]
    /\ ended = 0
    /\ stable = TRUE

-----------------------------------------------------------------------------
(* The server: the bodies that answer a page request with HTTP 200. *)

Body(what, features, more, code) ==
    [kind |-> "response", status |-> 200, after |-> 0, code |-> "Ok",
     body |-> [what |-> what, features |-> features, more |-> more, code |-> code]]

Layer == layers[Head(todo)]

(* Product queries ask for the order of objectid, "so pages stay stable". *)
Arrangements == IF product.ordered THEN {Layer} ELSE {Layer, Reverse(Layer)}

(* Any number of the records asked for, and truthfully whether more remain. *)
HonestPages ==
    {Body("page", SubSeq(l, offset + 1, n), n < Len(l), 0) :
       l \in Arrangements, n \in offset .. Least(offset + PageSize, Len(Layer))}

(* Past its end an honest server has an empty page. *)
LastPages == IF offset > Len(Layer) THEN {Body("page", <<>>, FALSE, 0)} ELSE {}

RunawayPages ==
    IF Runaway THEN {Body("page", SubSeq(Layer, 1, n), TRUE, 0) : n \in 0 .. Least(1, Len(Layer))} ELSE {}

ErrorBodies == {Body("error", <<>>, FALSE, code) : code \in ArcGISErrors}

Garbage == {Body("garbage", <<>>, FALSE, 0)}

ServerAnswers ==
    HonestPages \cup LastPages \cup RunawayPages \cup ErrorBodies \cup Garbage
      \cup FailedAnswers

Reply ==
    /\ query = "paging"
    /\ \E a \in ServerAnswers :
         /\ Answered(Client, a)
         /\ stable' = (stable /\ a \notin RunawayPages \ HonestPages)
    /\ UNCHANGED <<layers, queryVars>>

Republish ==
    /\ Republishes
    /\ query = "paging"
    /\ \E l \in Layers, s \in Contents : layers' = [layers EXCEPT ![l] = s]
    /\ layers' # layers
    /\ stable' = FALSE
    /\ UNCHANGED <<retryVars, queryVars>>

-----------------------------------------------------------------------------
(* The query. *)

(* Mutant: one pager for both layers. *)
NewPagerKeepsOffset == offset' = offset /\ pages' = 0

NewPager == offset' = 0 /\ pages' = 0

(* Refused arguments have no layers: no request is made. *)
StartQuery(p) ==
    /\ query # "paging"
    /\ phase[Client] # "operating"
    /\ query' = IF p.layers = <<>> THEN "failed" ELSE "paging"
    /\ error' = IF p.layers = <<>> THEN Error("InvalidRequest", 0) ELSE NoError
    /\ todo' = p.layers
    /\ product' = p
    /\ NewPager
    /\ items' = <<>>
    /\ ended' = 0
    /\ stable' = TRUE
    /\ phase' = [phase EXCEPT ![Client] = "idle"]
    /\ UNCHANGED <<layers, attempt, rest, last, tries, quiet>>

RequestPage ==
    /\ query = "paging"
    /\ phase[Client] = "idle"
    /\ StartCall(Client)
    /\ UNCHANGED <<layers, queryVars, stable>>

Resume ==
    /\ NextAttempt(Client)
    /\ UNCHANGED <<layers, queryVars, stable>>

(* The answer of the page's with_retry() call. *)
Answer == last[Client]

BodyCode == BodyOrError(Answer, "NotFound")

(* The code of an error object; one that cannot be read counts as 400. *)
ArcGISCode == IF Answer.body.code > 0 THEN Answer.body.code ELSE 400

(* body_or_error(), parse_arcgis_page(), the page that cannot advance, and *)
(* the parser that throws                                                  *)
PageError ==
    IF BodyCode # "Ok" THEN Error(BodyCode, Answer.status)
    ELSE IF Answer.body.what = "garbage" THEN Error("ParseError", 0)
    ELSE IF Answer.body.what = "error"
      THEN Error(FromArcGIS(ArcGISCode), ArcGISStatus(ArcGISCode))
    ELSE IF Answer.body.more /\ Answer.body.features = <<>> THEN Error("ServerError", 0)
    ELSE IF ~product.raw /\ ToSet(Answer.body.features) \cap Unreadable # {}
      THEN Error("ParseError", 0)
    ELSE NoError

Fail(reason) ==
    /\ query' = "failed"
    /\ error' = reason
    /\ items' = <<>>

PageReturned ==
    /\ query = "paging"
    /\ phase[Client] = "done"
    /\ phase' = [phase EXCEPT ![Client] = "idle"]
    /\ UNCHANGED <<attempt, rest, last, tries, quiet, layers, product, stable>>

PageFails ==
    /\ PageReturned
    /\ PageError # NoError
    /\ Fail(PageError)
    /\ UNCHANGED <<todo, pagerVars, ended>>

(* A parser leaves malformed records out; the pager counts them. *)
WellFormed(features) ==
    FlattenSeq([i \in DOMAIN features |->
                  IF features[i] \in Malformed THEN <<>> ELSE <<features[i]>>])

(* What on_page takes: the items of a product's page, or the page itself. *)
Taken(p, features) == IF p.raw THEN <<features>> ELSE WellFormed(features)

(* Mutant: the offset moves by the page size asked for. *)
AdvanceByPageSize ==
    /\ offset' = offset + PageSize
    /\ pages' = pages + 1

(* ArcGISPager::advance() *)
Advance ==
    /\ offset' = offset + Len(Answer.body.features)
    /\ pages' = pages + 1

(* Mutant: one page more than the limit. *)
HasMorePastLimit == Answer.body.more /\ pages < MaxPages

HasMore == Answer.body.more /\ pages + 1 < MaxPages

(* Mutant: the page limit is not looked at when paging stops. *)
PageLimitNeverReached == FALSE

PageLimitReached == Answer.body.more /\ pages + 1 >= MaxPages

PageAccepted ==
    /\ PageReturned
    /\ PageError = NoError
    /\ \/ /\ HasMore
          /\ Advance
          /\ items' = items \o Taken(product, Answer.body.features)
          /\ UNCHANGED <<query, todo, error, ended>>
       \/ /\ PageLimitReached
          /\ Advance
          /\ Fail(Error("ServerError", 0))
          /\ UNCHANGED <<todo, ended>>
       \/ /\ ~HasMore
          /\ ~PageLimitReached
          /\ items' = items \o Taken(product, Answer.body.features)
          /\ todo' = Tail(todo)
          /\ NewPager
          /\ ended' = IF Answer.body.more THEN ended ELSE ended + 1
          /\ query' = IF Len(todo) = 1 THEN "ok" ELSE "paging"
          /\ UNCHANGED error

Tick ==
    /\ RetryTick
    /\ UNCHANGED <<layers, queryVars, stable>>

Step == RequestPage \/ Reply \/ Resume \/ PageFails \/ PageAccepted

Next ==
    \/ Tick
    \/ Republish
    \/ \E p \in Products : StartQuery(p)
    \/ Step

(* Time passes, the client runs, and the transport answers or times out. *)
Fairness == WF_vars(Tick) /\ WF_vars(Step)

Spec == Init /\ [][Next]_vars

FairSpec == Spec /\ Fairness

-----------------------------------------------------------------------------
(* Properties. *)

Records == IF product.raw THEN FlattenSeq(items) ELSE items

Published ==
    FlattenSeq([i \in DOMAIN product.layers |->
      IF product.raw THEN layers[product.layers[i]] ELSE WellFormed(layers[product.layers[i]])])

(***************************************************************************)
(* A query that succeeds while its layers stay as they were returns every  *)
(* record of every layer it reads, once and in order, however short the    *)
(* server's pages are: the well-formed ones to a product, all of them to   *)
(* query_layer().  Without an order it returns as many.                    *)
(***************************************************************************)
StableResultIsComplete ==
    (query = "ok" /\ stable) =>
      IF product.ordered THEN Records = Published ELSE Len(Records) = Len(Published)

(***************************************************************************)
(* A query succeeds only if the last page of each of its layers said that  *)
(* nothing remains: neither the page limit nor the second layer of a       *)
(* fire-weather day can leave a truncated layer behind a success.          *)
(***************************************************************************)
NeverTruncatedSilently == query = "ok" => ended = Len(product.layers)

(* A page that paging will take, and the end of its layer. *)
Served == query = "paging" /\ phase[Client] = "done" /\ PageError = NoError

Complete == Served /\ ~Answer.body.more

Promise == INSTANCE PagedRead WITH
    state <- IF Complete /\ Len(todo) = 1 THEN "ok" ELSE query,
    todo <- IF Complete THEN Tail(todo) ELSE todo,
    position <- IF Complete THEN 0
                ELSE IF Served THEN offset + Len(Answer.body.features) ELSE offset,
    result <- IF Served THEN items \o Taken(product, Answer.body.features) ELSE items

(***************************************************************************)
(* Also while layers are published anew (client.cpp:401), every page taken *)
(* is what followed the records counted before, when it was served; pages  *)
(* that were retried, lost or refused, another layer's offset and a page   *)
(* that came too late for the limit leave no trace in a result.            *)
(***************************************************************************)
ImplementsPagedRead == Promise!Spec

(* A query ends, also against a server that reports truncation for ever. *)
QueryReturns == query = "paging" ~> query \in {"ok", "failed"}

(***************************************************************************)
(* README.md, error table: RateLimited is "HTTP 429 or 503 after retries"  *)
(* (an ArcGISClient has no limit of its own).                              *)
(***************************************************************************)
RateLimitedOnlyAfterRetries ==
    (query = "failed" /\ error.code = "RateLimited") => tries[Client] = Attempts
=============================================================================
