# TLA+ verification of spc-cpp

spc-cpp is a C++ client library for the products of NOAA's Storm Prediction
Center: outlooks from SPC's static files and from NOAA's ArcGIS MapServers,
watches and storm reports from the Iowa Environmental Mesonet (IEM). Little of
it keeps state, and what does is hard to test: a rate limiter that threads
share, a pool of libcurl handles, retries with sleeps, paging over a service
that changes while it is read, and parsers that accept one product in several
encodings. This directory models that part in TLA+,
checks it with TLC and proves its most important properties with TLAPS.

Paths below are those of the repository (`src/core/rate_limit.cpp`); in
`PROJECT.json` they have the prefix of the checkout (`src/`).

## 1. Inventory

| Component | State | Operations | Interacts with | Hard behaviour | What makes it correct |
| --- | --- | --- | --- | --- | --- |
| Rate limiter (`src/core/rate_limit.cpp`) | tokens, time of the last refill, grants and day of the quota, all under one mutex | `try_acquire`, `acquire`, `acquire_for`, `reset`, two observers | a steady clock, the wall clock, sleeping threads | interleaving of threads around sleeps, remainders of integer time, midnight, a wall clock set back | no window exceeds the rate, no day its quota; no wait is begun that cannot end by the deadline; waits pay off and end |
| Retry loop (`include/spc/retry.hpp`) | attempt number | `with_retry`, `should_retry`, `calculate_retry_delay`, `retry_after` | any operation, `sleep_for` | the last attempt, competing rules for one delay, two tables of statuses | the first conclusive answer is returned, spacing is as asked, the loop ends |
| Error codes (`src/core/error.cpp`, `body_or_error` in `src/api/client.cpp`) | none | `from_response`, `from_arcgis` | retry loop, all clients | agreement with the retry table and the README's error table, errors sent with HTTP 200 | transient codes only after retries |
| `ArchiveClient` (`src/api/client.cpp`) | its limiter | `watches`, `storm_reports` through `fetch` | retry loop around limiter and transport | retries against the limit, refusals inside the loop, a thread held up between token and GET | what IEM sees stays bounded, errors as documented, calls return |
| `ArcGISClient` and `ArcGISPager` (`src/api/client.cpp`, `include/spc/pagination.hpp`) | offset, pages, payload under construction | `query_*`, `query_layer` | retry loop, transport, the server's layers | short pages, truncation reported for ever, layers republished between pages, raw queries without an order, failures after partial results | a success is whole and in order, every page is taken once and at its place, a query ends |
| Layer table (`src/api/client.cpp`) | none | `find_layer` and the argument checks | `ArcGISClient`, `StaticFeedClient` | the same rule in several places | one product per layer, both sources take the same arguments |
| `StaticFeedClient` | none | `day_categorical`, `day_probabilistic`, `day4_8` | retry loop, transport | 404 as a normal answer | as for the retry loop and the layer table |
| `HttpClient` (`src/http/client.cpp`) | idle handles under a mutex, the shared libcurl runtime | `get`, construction, move, destruction | libcurl | concurrent checkout and checkin, failures in between, destruction order at exit, leftovers on a reused handle, size limits | one owner per handle, libcurl outlives handles, nothing leaks from call to call, oversize is final |
| Geometry (`src/models/json.cpp`, `src/core/geometry.cpp`) | a budget of added points for each payload | `parse_rings`, `PayloadGeometryParser::parse`, `point_in_feature` | product parsers | a budget spent over nested loops, two encodings of one area, a conversion that bends straight edges, corners on a ray | fails for documented causes only, boundaries kept within a metre, both shapes give the same area but for that metre |
| Product parsers (`src/models/*.cpp`, the readers of `src/models/json.cpp`) | the payload under construction | `parse_*` | geometry | failure after features were taken, features skipped, read and dropped; one value under several keys, types and scales | every risk and report is read as published, in order; otherwise as for geometry |
| Tools, benchmarks, examples, build | none | | | | not part of the library |

## 2. Modules

```
LeakyBucket            what a rate limiter promises
   ^  implemented by
RateLimiter            the limiter, its threads and both clocks
   |
ErrorCodes <- Retry    with_retry() around an open operation
                 ^        ^
                 |        +-- ArcGISQuery   one query, page by page
                 |               |  implements
                 |            PagedRead     what paging promises while layers change
                 +-- ArchiveFetch           with_retry() around RateLimiter and a GET
LayerCatalogue         the layers a request reads (feeds ArcGISQuery's instance)
HttpPool               HttpClient and libcurl's lifetime
PayloadGeometry <-+    the area of one record
ProductFields   <-+--- ProductParsers       the parsers' loop over a response
MCAreas <- MCForecasts what is published, for MCProductParsers
*_proofs               the theorems of the module they are named after;
Products_proofs        those of LayerCatalogue and ProductParsers
InductionFacts         the induction they use;  MC*  the instances for TLC
```

**LeakyBucket** is the abstract specification: a debt of which a tick pays one
unit, and an admission that adds `Interval` units and must leave no more than
`Burst` admissions' worth. `LBRateBound` is the promise to the world.

**RateLimiter** models every operation of the class. Time is a tick; the code's
`last_refill_` appears as `age`, the time since then. Each locked section is
one action (`RefuseByQuota`, `TakeToken`, `FindEmpty`, `TryAcquire`, `Reset`),
and what happens between the unlock and the sleep is not locked: `ReadWait` is
the second reading of the clock (`wait_time`), `GiveUp` and `KeepWaiting` the
comparison with the deadline, which reads the clock a third time, `StartSleep`
the start of the relative `sleep_for` after it, and `Wake` its end. The clock may
move between any two. `sanitized()` is `MaxTokens`, `RefillInterval` and
`InitialTokens`; `refill()` is `RefilledTokens` and `RefilledAge`;
`check_daily_reset()` is `RolledOver`, `UsedToday` and `CountedDay`. The token
type's width is `TokenModulus` (2^16 in the build, a constant so that proofs need
not compute with it; `limiter_rate` makes it so narrow that the sum in `refill()`
can pass it). The wall clock is `day`, which may also be set back. `recent`,
`grantedOn`, `granted`, `epochDay`, `setBack`, `contested` and `late` are history:
what was granted, whether a sleeper had rivals, and how long ago it compared its
wait with the deadline when it fell asleep.

**ErrorCodes** and **Retry** model `with_retry()` with its policy. An answer is
a status, the delay its `Retry-After` asks for and whether its body can be
parsed (`built_from()`, after the loop), or the transport's error.
The jitter is every delay in its range, on a scale of `JitterScale` steps.
`StartCall`, `Answered` and `NextAttempt` are open so that a composition can put
its own operation between them; alone, the operation answers from a set.

**ArchiveFetch** composes `Retry` with an instance of `RateLimiter` as
`ArchiveClient::Impl::fetch()` does. `wire` counts what has been sent.

**PagedRead** is the abstract specification of paging: layers that anyone may
publish at any time, a position, and a result that grows by what follows the
position at the moment a page is served. There are no requests, retries, offsets
or page limits in it, and no version either: pages of one result may come from
different editions, which the protocol cannot prevent.

**ArcGISQuery** composes `Retry` with `ArcGISPager` and a server. The server
holds layers, serves any honest page of what it holds, errors in HTTP 200
answers, garbage and HTTP failures; it may publish a layer anew between pages,
arrange an unordered one anew for each page and, if `Runaway`, claim truncation
for ever. A query is a product's (its pages are parsed and merged; a malformed
record is left out, an unreadable one fails the query) or raw, as
`query_layer()` makes it. `items` is what the caller would get. Under the
refinement mapping a page is read when its answer is served, if paging will take
it: until `PageAccepted` runs, the client's own variables lag behind (`Served`,
`Complete`).

**LayerCatalogue** is pure: `kLayers`, the lookups, and which layers or which
file each method reads for its arguments, `query_layer()` with its formats
included. `MCArcGISQuery` takes its products from it, and `MCLayerCatalogue` has
the only behaviour there is: one request after another (`Requesting`).

**HttpPool** models `HttpClient`: an `Impl` is constructed, used by threads and
destroyed member by member, while other clients live on and the static
reference to `CurlRuntime` may go first. A thread's call is checkout or create,
prepare (reset, options), the transfer with `write_body()` per chunk, the
classification, and checkin. `OutOfMemory` is the exception that leaves a call
early. A move hands over the `Impl` as it is, and a moved-from client refuses
every call without touching anything, so neither is an action.

**PayloadGeometry** models what happens to one geometry: both readers, with the
reference, the validation of holes too, the winding filter, the preflight of the
budget and the subdivision; and `point_in_polygon()`. Coordinates are integers
and the arithmetic exact. Points on the map are
written in units of 1/`Scale`, which every number of steps that an edge on the
map can take must divide (60 for the six steps of the instance), so that the
points at which `std::lerp` divides an edge are integers too. A ring that is
converted is divided (`Divided`) and each of its points goes through
`inverse_mercator()`: the longitude is linear and keeps its unit, the latitude is
`Latitude`, a function of the height. It is not linear, so that an edge that runs
slanted on the map is not the straight line between its corners in degrees. All
that is assumed of it is that it grows, and the bound that the code counts on
(`src/models/json.cpp:46-47`): over one step of 10 km a straight line errs by at
most one metre. `point_in_feature()` is asked for longitude and latitude.

**ProductFields** models what happens to one record's fields: the null-safe
readers of `json.cpp` (a number, a text that begins with one, null, another
type, a missing key), their fallbacks from key to key, the normalization of
probabilities, the time stamps, the conversion to `int32`, the labels,
severities and fire-weather bands, and for each of the eight products the item
it makes (`Item`), the records it skips (`Skips`) and the items it keeps
(`Keeps`). Numbers are in hundredths.

**ProductParsers** is the loop the eight parsers share: record by record, with
the budget of added points carried along and an exception that leaves no
payload. The budget is one response's: each page of a query has its own, as
`README.md:143-150` says of `parse_*`. `MCAreas` and `MCForecasts` say what is
published, each area and each forecast in the ways the feeds write it, and what
it means, without the readers; the properties in `MCProductParsers` compare.

Mutants (operators under a comment that begins "Mutant:") are never used by a
specification; each is a plausible bug that one property must catch.

## 3. Runs

| Run | Instance | Shows |
| --- | --- | --- |
| `limiter_rate` | two threads that may both reset, a bucket of 3, interval 2, a token type of 5 values, windows up to 7 | rate of every window, refinement of `LeakyBucket`, waits pay off; a sleep outlasts its deadline by no more than the delay between the comparison and its start |
| `limiter_quota` | daily limit 2, three days, wall clock set back, interval to sanitize | no day over its quota until the clock is set back, one quota per counted day after that; the observers foretell the next locked section |
| `limiter_live` | `max_tokens` configured as 0 | bounded calls return, a lone blocking call returns |
| `limiter_give_up` | | expected violation: see section 6 |
| `limiter_reset` | | expected violation: see section 6 |
| `retry` | 3 attempts, delays 2 to 5 with jitter, every kind of answer | section 1's properties of the loop |
| `archive_fetch` | two threads, 2 attempts | bound on the wire, one GET per attempt, errors as documented, every fetch returns |
| `arcgis_query` | a fire-weather day, a day that has no layers, raw queries in order and in none; layers of up to 4 records, pages of at most 2, page limit 3, republishing, truncation for ever | refinement of `PagedRead`; a success over unchanged layers is complete and in order; a query ends and never hides a truncation |
| `arcgis_rate_limited` | error object 429 | expected violation: see section 6 |
| `http_pool` | two threads, two clients, one idle handle kept, limit 1 of bodies up to 2 | ownership, lifetime, leftovers, oversize, and that handles never outnumber calls and idle places |
| `layer_catalogue` | all methods, days -1 to 10, all hazards | no shared layers, both sources agree |
| `product_parsers` | up to two records of each product, in every encoding; steps of 2, limit of 8 added points, a latitude that bends | failures for documented causes only, boundaries kept within a metre, the same area from either shape but for that metre; risks and reports are read as published |

**Bounds.** Two threads suffice for each race the code has: the limiter and the
pool treat threads alike, and what one does, a second sees through the shared
state only. Buckets of two or three, intervals of two ticks and waits of up to three
let a remainder, a partial wait and a full bucket occur. In `limiter_rate` the
windows, up to 7 ticks, are longer than the 6 in which the bucket fills; the other
runs of the limiter compare no windows. A thread is held up between the
comparison and its sleep for as long as it likes, counted up to `MaxLate`, and
`left` is kept down to one more than that past the deadline. One idle handle per client makes a second checkin
exceed the pool. Bodies longer than the limit arrive whole or in chunks. A layer
of four records ends within the page limit in pages of two, at the limit in
three pages, and beyond it in pages of one; the layers hold a malformed record
at either end and an unreadable one on the last page. Bounds are named where they are
declared (`MaxDay`, `MaxLate`, `Window`, `WireWindow`, `MaxBody`, `Impls`, `MaxFeatures`).
Two features reach the limit of added points exactly and pass it, and corners
that subdivision adds lie on the rays of the points tested, which form a grid of
half a unit. The latitude of the instance (`Bent`) makes a straight line over one
step err by a whole metre at its worst and by more over two, so that an edge
converted without added points passes some place on the wrong side; `Blurred`
are the places within a metre of a converted edge, and the others must come out
right.
Each forecast is alone and next to each other record of its product, so that an
item can also be lost, or kept, because of its neighbour. The
histories are capped just above the values the properties compare them with.

**Symmetry** is used in safety runs only, over threads and `Impl`s. Deadlock is
checked everywhere but in `http_pool`, where the program may end, and in
`product_parsers`, where the parser returns.

**Fairness.** Time passes (`Tick`), and a thread that can run does. The
mutex is fair in one sense only: a thread that asks for it again and again
gets it (strong fairness of the locked section); sections are short and never
sleep. The transport answers: `ClientConfig::timeout` is 15 s unless the caller
sets 0. No fairness is assumed of tokens: rivals may take every one, which is
why `acquire()` without `max_wait` is only shown to return when its rivals stop.

## 4. Proofs

All proofs hold for every (finite) number of threads, clients, callers, handles, layers
and records, and for every value of the constants that the named assumptions
admit. TLC evaluates each assumption on the runs.

| Assumption | Says |
| --- | --- |
| `LeakyBucketAssumption`, `RateLimiterAssumption` | any configuration the token type can hold, before `sanitized()`, any limit, waits and bounds of the model; the first is a hypothesis of `LeakyBucket`'s theorems and follows from the second |
| `RetryAssumption`, `AnswersAssumption` | the types of the policy; a response's `Retry-After` is not negative, a transport's error is `NetworkError` or `InvalidRequest` (all that `HttpClient::get` makes), a parser's is `ParseError` |
| `ArchiveAssumption` | finitely many threads, and a limiter whose values its token type can hold |
| `ArcGISAssumption`, `ServiceAssumption` | page size and limit are positive, layers hold sequences, only raw queries go without an order, and an answer that is no page is known by its status or is an error |
| `HttpPoolAssumption` | finitely many threads and clients, any limits |
| `DaysAssumption` | days are integers, in or out of range; hazards are anything |
| `GeometryAssumption` | the extent, the step and the scale are positive, any limit of added points, and the scale is the multiple that the units need |
| `LatitudeAssumption` | latitude grows with the height on the map, and over a step that is not subdivided a straight line errs by at most a metre (`src/models/json.cpp:46-47`) |
| `ResponsesAssumption` | a response is a finite sequence of records, and the rings of an Esri geometry are sequences of points, bad ones included |
| `PublishedAssumption` | what a record says of itself agrees with its geometry: an Esri area is its rings in order, each polygon a clockwise ring and then its holes, unless a point in it is bad |

`DefaultPolicy` is a hypothesis of the two theorems about documented errors: lost
connections and rate limits are retried, as in `RetryPolicy`'s defaults. With
either switched off the documents' "after retries" is not what the code does.

**LeakyBucket.** `LBTypeCorrect`, `LBRateBounded`. `LBRateBound` is not
inductive. `Owed` is: what a window of `a` ticks has admitted, less the `a`
ticks, is still part of the debt. The bound follows, since the debt of a full
bucket is the most an admission may leave.

**RateLimiter.**

* `TypeCorrect`: in particular `tokens` never leaves `0 .. MaxTokens` and never
  wraps.
* `Refinement`: `Spec => ImplementsLeakyBucket`, with the debt mapped to the
  missing tokens' worth of time less `age` (`Debt`). `refill()` is shown to leave
  the mapped debt alone, whatever it rounds, so that `TakeToken` maps to `Admit`,
  `Tick` to `Tick`, `Reset` to `Restart`, and every other action to a stutter.
* `RateLimited`: the limiter's own `RateBound`, carried over through the
  refinement from `LBRateBounded`, as an instance.
* `EmptyWhenInDebt`: the converse of the bound. A section that finds no token
  after `refill()` has a debt that leaves no room for one.
* `QuotaBudgeted` needs that the quota used today and the days counted add up
  (the grants are at most the limit times the days entered); it holds also when
  the wall clock steps back. `DailyAccounted` is for as long as it does not:
  no day after the one being counted has a grant yet.
* `ObserversAreRight`: what the observers compute from the state they may not
  change is what the next locked section computes and stores.
* `QuietSleepsPay`: while a sleeper has no rivals, the tokens and the age at its
  side and the time it has left add up to a token. `OverrunsAreBounded`: a wait that
  is begun fitted the deadline when the two were compared (`DecidedInTime`), and
  what is left to sleep exceeds what is left to wait by the delay since then and
  no more. That a call never sleeps past its deadline would not be true: the code
  compares first (`src/core/rate_limit.cpp:126`) and then begins a relative sleep
  (line 129), so the delay in between is added.

**Retry.** `RetryInvariant` is the induction: `RetryInv` adds to the types that
between two attempts a call has had as many answers as attempts, each one to be
retried, and that what a sleeper has slept and what it has left make up a delay
that the policy allows after its last answer. `RetryTypeCorrect` (no delay is
longer than `max_delay`), `FirstConclusiveWins`, `AttemptsAreSpaced` and, under
`DefaultPolicy`, `TransientAfterRetries` follow from it. The delay's rules are
lemmas (`DelaysObeyAllRules`); the recursive `Backoff` is first shown to exist
(`BackoffExists`) and then to be a number, both by induction. The lemmas about
the loop's steps hold for any answer, so that compositions use them too.

**ArchiveFetch.** `LimiterIsUsedAsSpecified`: every behaviour of `fetch()`'s
threads is one of `RateLimiter`, so that its theorems hold here, as instances.
`FetchInv` adds to `RetryInv` where each operation is between limiter and
transport (`OperationsInOrder`), and `WireOwed`: a GET on the wire, or held ready
by a thread with a token, is still owed by the limiter's debt, but for what the
ticks since have paid and one token for each thread. `WireIsBounded` follows, as
do `FetchTypeCorrect`, `AttemptsAreSentOrRefused` and, under `DefaultPolicy`,
`ErrorsAreAsDocumented`.

**ArcGISQuery.** `QueryInvariant`: `with_retry()` runs only while a page is read,
what it returns is the server's or the transport's (`FromServer`), and the layers
that have ended and those still to be read make up the query's
(`LayersInOrder`). `QueryTypeCorrect` and `NothingIsTruncatedSilently` follow.
`QueryIsPagedRead` is the refinement of `PagedRead`: `Reply` maps to the read of
the page it serves (`ServedPage` finds it among those the abstract server could
serve), or to a stutter if its answer will be refused or retried; `PageFails`,
and a page that comes at the limit, to `Fail`; a page that is accepted to a
stutter, since paging took it before; `StartQuery` and `Republish` to their
namesakes. `StableResultsAreComplete` needs a second invariant, `CompleteInv`:
while no layer changes and no page lies, the items are what the parser makes of
the layers that have ended followed by the first `offset` records of the one that
is read (`SoFar`), and an answer at hand is an honest page at that offset, or no
page. A page lengthens the part (`PageSoFar`), the last one closes the layer
(`LayerSoFar`); both rest on the parser's keeping of two pages what it keeps of
the pages in one (`WellFormedConcat`). Of an unordered query, whose pages may
each be arranged anew, the same is proved of the lengths.

**HttpPool.** `PoolInv` adds to the types that a handle is held by the thread
whose call is between checkout and checkin, or kept at one place of one pool, and
is open exactly then (`HandlesOwned`); that whoever has a handle, a kept one or a
call keeps libcurl up (`CurlHeld`); and what a sink and a result are at each stage
of a call (`CallsInOrder`). From `PoolInvariant` follow `PoolTypeCorrect`,
`EveryHandleHasOneOwner`, `LibcurlStaysUp`, `NothingIsLeftOver`,
`OversizeBodyIsFinal` and, by counting owners, `ConnectionsAreBounded`: there are
never more handles than calls and idle places.

**LayerCatalogue** (in `Products_proofs`). `NoSharedLayers` and
`SourcesTakeTheSame`, for all days and hazards. `kLayers` is a set of descriptors
whose ids are linear in the day, so the first is that a service and an id
determine product, day and subtype, then that the lookups find at most what they
were asked for. The static feed's ranges are the days for which the lookups find
something.

**ProductParsers** (in `Products_proofs`), for responses of any number of
records, rings and points:

* `LoopIsTyped`: the loop never reads past its response, and the budget never
  leaves `0 .. MaxAdded`, though `Preflight` takes the rings of a geometry from it
  one by one: what is left never grows, and a ring that needs more than is left
  fails. `Reading` adds to the types that the payload is a sequence, and that its
  items come from records already read.
* `RefusedForCause` says exactly when a payload fails. `Accounted` is the
  induction: every record read was skipped or readable, the budget is the limit
  less the sum of what these records' areas need, and a failure stopped at a record
  that is unreadable or needs more than is left. It rests on three facts about one
  geometry: the outer rings that the winding filter finds are the first rings of the
  published polygons (`OuterOfArea` and the lemmas before it), so `Preflight`
  charges exactly what the area needs (`NeededIsCost`), and a geometry is read
  exactly if it is readable and what it needs is left (`ReadsIfReadable`).
* `BoundaryIsKept`: a subdivided edge's stops, its far end included, lie at most
  `StepHeight` apart (`StepsDivide`, `StopsAreNear`); the pairs of neighbours in a
  divided ring are the steps of its edges and no others, where it closes too
  (`DividedRing`), and stay so when they are converted (`StepsAreConverted`).
  Between two stops the latitude is almost straight (`AlmostStraight`), so the
  converted step runs past every point of the edge within a metre
  (`StepRunsPast`). The payload keeps the rings as they were read (`RingsKept`).
* `ConversionKeepsArea`: what is read of an Esri area is one ring for each
  polygon, and `point_in_feature()` finds in them exactly the places that
  `point_in_polygon()` finds in the outer rings as published, on a boundary or off
  it, but for places within a metre of a converted edge. Two arguments meet. On
  the map, added points change no answer: the steps of an edge have the place on
  the same side as the edge (`StepPasses`), and as they go up or down by turns that
  cancel, the ray crosses them an odd number of times exactly if it crosses the
  edge (`StepsPassAsEdge`); parities add up along the ring (`OddSegmentsOfFlat`,
  `DividedInside`). In degrees, a step is crossed exactly if it is crossed on the
  map, unless the place is within a metre of it (`CrossingInDegrees`), and then it
  is within a metre of its edge (`MetreOfStep`, `ProjectedInside`). Degrees are not
  converted, and nothing is excused for them. This is what
  `SameAreaEitherShape` checks of Esri's shape on its grid, but for the fact that
  the odd places of a convex ring are those within it.
* `PayloadInOrder`: a payload is what each record says on its own, in order.
  `InOrder` says so of the records read so far. The lemma that matters is
  `RingsWithinBudget`: the budget decides whether a geometry is read, never what
  is read. `RisksFollowRecords` and `ReportsFollowRecords` carry this to
  `RisksAsForecast` and `ReportsAsFiled`. Their hypothesis `EachSaysItsOwn` is
  about one record: that `ProductFields` reads it as it was meant. The run
  `product_parsers` checks that on its responses of one record, for each encoding
  of each product; the theorems add that any number of such records are read as
  well together.

**InductionFacts** has induction over the natural numbers for a set
(`AllNaturals`), from the least member. The library's induction theorems take an
operator as a parameter, which the provers cannot instantiate; what a proof needs
by induction is therefore stated as a set of numbers. So are the laws of the
community modules' `FlattenSeq`: that its recursive function exists
(`FlatteningExists`), what it makes of a sequence that is appended to
(`FlattenAppend`) or concatenated (`FlattenConcat`), and what is in it
(`FlattenMembers`); and the parity of sets (`OddUnion`, `OddShift`).
`Sum` and `Preflight` are shown to exist in the same way.

**Only model-checked.**

* Liveness everywhere: beyond TLAPS.
* `EachSaysItsOwn`, the reading of one record's fields: a table of encodings, which
  TLC evaluates.
* `SameAreaEitherShape` as a whole: that the places for which a ray crosses a ring an
  odd number of times are those within it, whichever way the ring runs, is a fact of
  plane geometry and not of this code. `ConversionKeepsArea` proves the part that the
  code could get wrong for Esri's shape; GeoJSON's is read as it is.

## 5. Not modelled

* Rounding in floating point, the formula of `inverse_mercator()`'s latitude
  (`LatitudeAssumption` is what the models and proofs know of it) and the JSON
  grammar. A tree of fields is where the models begin.
* Where threads queue for the pool's mutex: checkout and checkin are single steps,
  as `get()` holds the lock over nothing else, and no property speaks of waiting
  for it.
* Fields that are copied as they are: of each product one text stands for all.
  The day and the hazard that a payload repeats from the arguments are left out.
* A percentage of exactly 1 written as "1" is read as certainty
  (`src/models/json.cpp:144`): the encodings overlap there, and `MCForecasts`
  has no such risk.
* URLs, percent-encoding, the texts of errors, and header spelling.
* Overflow of clock types: the deadline is clamped in the code, and no run comes
  near the clock's range.
* What callers must not do: destroy or move a client during a call.

## 6. Where the code and its documents differ

* `limiter_give_up`: `acquire_until()` computes the wait under the lock and
  compares it with a deadline it reads afterwards. A thread held up between the
  two gives up although the next token arrives by the deadline;
  `include/spc/rate_limit.hpp:32-33` says false means that no token can.
* `limiter_reset`: `reset()` sets the tokens to `initial_tokens`, which can be
  fewer than there were; `rate_limit.hpp:47` says it refills the bucket.
* `arcgis_rate_limited`: an ArcGIS error object with code 429 or 503 becomes
  `RateLimited` after a single attempt, as it comes with HTTP 200;
  `README.md:134` says "after retries".

## 7. Plan

Done, in this order: the limiter with its abstract specification and proofs;
the loop and the clients composed of it; the pool; geometry; product fields and
the parsers' loop; raw and unordered queries and the paged read that all of
them implement; the proofs of the pool, the loop, `fetch()`, the paged read and
its complete results; the proofs of the layer table, of the parsers' loop, its
budget, its boundaries and areas, and of the order of its payload.

What is left is the rest of `SameAreaEitherShape` as a theorem: that a ring
reversed, as GeoJSON writes it, is crossed at the same edges, and that the odd
places of a convex ring are those to the right of all its edges.

A composition of `HttpPool` with `Retry` is not planned: their interface is one
answer, and `OversizeIsFinal` and `FirstConclusiveAnswerWins` say what crosses it.
