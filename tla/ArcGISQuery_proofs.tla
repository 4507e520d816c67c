------------------------- MODULE ArcGISQuery_proofs -------------------------
(***************************************************************************)
(* Theorems about one query, for any layers, page size, page limit and     *)
(* whatever the server answers: it keeps its types, it never succeeds over *)
(* a truncated layer, and it is a paged read of layers that may change at  *)
(* any time (module PagedRead).                                            *)
(***************************************************************************)
EXTENDS ArcGISQuery, Retry_proofs, SequenceTheorems

(* What the server or the transport may have given back. *)
FromServer(a) ==
    \/ a \in FailedAnswers
    \/ /\ a.kind = "response" /\ a.status = 200 /\ a.after = 0
       /\ a.body.code \in Int
       /\ Len(a.body.features) \in Nat

(* with_retry() runs only while a query reads a page, and counts as in     *)
(* module Retry; the query forgets a finished call at once.                *)
PageCallInOrder ==
    /\ query # "paging" => phase[Client] = "idle"
    /\ phase[Client] = "operating" => attempt[Client] = tries[Client] + 1
    /\ phase[Client] = "sleeping" =>
          attempt[Client] = tries[Client] /\ tries[Client] < Attempts
    /\ phase[Client] = "done" => FromServer(Answer)

(* Of a query's layers each is either still to be read or has ended. *)
LayersInOrder ==
    /\ query = "paging" =>
          /\ todo # <<>>
          /\ ended + Len(todo) = Len(product.layers)
          /\ pages < MaxPages
    /\ query = "ok" => ended = Len(product.layers)

PagingTypeOK ==
    /\ query \in {"idle", "paging", "ok", "failed"}
    /\ offset \in Nat
    /\ pages \in 0 .. MaxPages
    /\ ended \in 0 .. Len(product.layers)
    /\ error.http_status \in {0} \cup 100 .. 599 \cup {a.status : a \in FailedAnswers}
    /\ todo \in Seq(Layers)
    /\ product.layers \in Seq(Layers)
    /\ layers \in [Layers -> Contents]

CallTypeOK == RetryTypeOK /\ AnswersKept

QueryInv == CallTypeOK /\ PagingTypeOK /\ PageCallInOrder /\ LayersInOrder

-----------------------------------------------------------------------------
(* The pages. *)

LEMMA ClientType == Client \in Callers
BY ArcGISAssumption

LEMMA LayerType ==
  ASSUME NEW s \in Contents
  PROVE  Len(s) \in Nat /\ s \in Seq(ToSet(s))
BY ServiceAssumption, LenProperties

LEMMA ReverseType ==
  ASSUME NEW S, NEW s \in Seq(S)
  PROVE  Reverse(s) \in Seq(S) /\ Len(Reverse(s)) = Len(s)
<1>1. Len(s) \in Nat /\ \A i \in 1 .. Len(s) : s[i] \in S
  BY LenProperties
<1>2. \A i \in 1 .. Len(s) : s[(Len(s) - i) + 1] \in S
  BY <1>1
<1> QED
  BY <1>1, <1>2 DEF Reverse

(* Whatever order an unordered layer has, it is as long. *)
LEMMA ArrangementType ==
  ASSUME NEW s \in Contents, NEW l \in {s, Reverse(s)}
  PROVE  Len(l) = Len(s) /\ l \in Seq(ToSet(s))
BY LayerType, ReverseType

LEMMA PageLength ==
  ASSUME NEW S, NEW l \in Seq(S), NEW m \in Nat, NEW n \in Nat, n <= Len(l)
  PROVE  Len(SubSeq(l, m + 1, n)) = IF m < n THEN n - m ELSE 0
<1>1. \A i \in m + 1 .. n : l[i] \in S
  BY LenProperties
<1>2. m + 1 \in Int /\ n \in Int
  OBVIOUS
<1>3. Len(SubSeq(l, m + 1, n)) = IF m + 1 <= n THEN n - (m + 1) + 1 ELSE 0
  BY <1>1, <1>2, SubSeqProperties
<1> QED
  BY <1>3
LEMMA LayerKnown ==
  ASSUME QueryInv, query = "paging"
  PROVE  /\ Layer \in Contents /\ Len(Layer) \in Nat
         /\ \A l \in Arrangements : Len(l) = Len(Layer) /\ l \in Seq(ToSet(Layer))
<1>1. Head(todo) \in Layers
  BY HeadTailProperties DEF QueryInv, PagingTypeOK, LayersInOrder
<1>2. Layer \in Contents
  BY <1>1 DEF QueryInv, PagingTypeOK, Layer
<1>3. \A l \in Arrangements : l \in {Layer, Reverse(Layer)}
  BY DEF Arrangements
<1> QED
  BY <1>2, <1>3, LayerType, ArrangementType

(* What a page with records of a layer may be. *)
LEMMA HonestPage ==
  ASSUME QueryInv, query = "paging", NEW a \in HonestPages
  PROVE  \E l \in Arrangements, n \in offset .. Len(Layer) :
           /\ a = Body("page", SubSeq(l, offset + 1, n), n < Len(l), 0)
           /\ Len(SubSeq(l, offset + 1, n)) = n - offset
<1>1. PICK l \in Arrangements, n \in offset .. Least(offset + PageSize, Len(Layer)) :
         a = Body("page", SubSeq(l, offset + 1, n), n < Len(l), 0)
  BY DEF HonestPages
<1>2. /\ offset \in Nat /\ PageSize \in Nat
      /\ Len(Layer) \in Nat /\ Len(l) = Len(Layer) /\ l \in Seq(ToSet(Layer))
  BY LayerKnown, ArcGISAssumption DEF QueryInv, PagingTypeOK
<1>3. n \in offset .. Len(Layer) /\ n \in Nat /\ n <= Len(l)
  BY <1>2 DEF Least
<1>4. Len(SubSeq(l, offset + 1, n)) = n - offset
  BY <1>2, <1>3, PageLength
<1> QED
  BY <1>1, <1>3, <1>4

LEMMA RunawayPage ==
  ASSUME QueryInv, query = "paging", NEW a \in RunawayPages
  PROVE  Runaway /\ \E n \in 0 .. Len(Layer) :
           /\ a = Body("page", SubSeq(Layer, 1, n), TRUE, 0)
           /\ Len(SubSeq(Layer, 1, n)) = n
<1>1. Runaway
  BY DEF RunawayPages
<1>2. PICK n \in 0 .. Least(1, Len(Layer)) : a = Body("page", SubSeq(Layer, 1, n), TRUE, 0)
  BY <1>1 DEF RunawayPages
<1>3. Len(Layer) \in Nat /\ Layer \in Seq(ToSet(Layer))
  BY LayerKnown, LayerType
<1>4. n \in 0 .. Len(Layer) /\ n \in Nat /\ n <= Len(Layer)
  BY <1>3 DEF Least
<1>5. Len(SubSeq(Layer, 0 + 1, n)) = IF 0 < n THEN n - 0 ELSE 0
  BY <1>3, <1>4, PageLength
<1>6. Len(SubSeq(Layer, 1, n)) = n
  BY <1>4, <1>5
<1> QED
  BY <1>1, <1>2, <1>4, <1>6

LEMMA AnswerKnown ==
  ASSUME QueryInv, query = "paging", NEW a \in ServerAnswers
  PROVE  FromServer(a) /\ IsAnswer(a)
<1>1. CASE a \in FailedAnswers
  BY <1>1, ServiceAssumption DEF FromServer
<1>2. ASSUME NEW what, NEW features, NEW more, NEW code \in Int,
             Len(features) \in Nat, a = Body(what, features, more, code)
      PROVE  FromServer(a) /\ IsAnswer(a)
  BY <1>2 DEF FromServer, IsAnswer, Body
<1>3. CASE a \in HonestPages
  <2>1. PICK l \in Arrangements, n \in offset .. Len(Layer) :
           /\ a = Body("page", SubSeq(l, offset + 1, n), n < Len(l), 0)
           /\ Len(SubSeq(l, offset + 1, n)) = n - offset
    BY <1>3, HonestPage
  <2>2. offset \in Nat /\ n - offset \in Nat
    BY LayerKnown DEF QueryInv, PagingTypeOK
  <2> QED
    BY <1>2, <2>1, <2>2
<1>4. CASE a \in RunawayPages
  <2>1. PICK n \in 0 .. Len(Layer) :
           /\ a = Body("page", SubSeq(Layer, 1, n), TRUE, 0)
           /\ Len(SubSeq(Layer, 1, n)) = n
    BY <1>4, RunawayPage
  <2>2. n \in Nat
    BY LayerKnown
  <2> QED
    BY <2>1, <2>2 DEF FromServer, IsAnswer, Body
<1>5. CASE a \in LastPages
  <2>1. Len(<<>>) \in Nat /\ a = Body("page", <<>>, FALSE, 0)
    BY <1>5 DEF LastPages
  <2>2. FromServer(a)
    BY <2>1 DEF FromServer, Body
  <2>3. IsAnswer(a)
    BY <2>1 DEF IsAnswer, Body
  <2> QED
    BY <2>2, <2>3
<1>6. CASE a \in Garbage
  <2>1. Len(<<>>) \in Nat /\ a = Body("garbage", <<>>, FALSE, 0)
    BY <1>6 DEF Garbage
  <2> QED
    BY <2>1 DEF FromServer, IsAnswer, Body
<1>7. CASE a \in ErrorBodies
  <2>1. PICK code \in ArcGISErrors : a = Body("error", <<>>, FALSE, code)
    BY <1>7 DEF ErrorBodies
  <2>2. Len(<<>>) \in Nat /\ code \in Int
    BY ServiceAssumption
  <2> QED
    BY <2>1, <2>2 DEF FromServer, IsAnswer, Body
<1> QED
  BY <1>1, <1>3, <1>4, <1>5, <1>6, <1>7 DEF ServerAnswers
-----------------------------------------------------------------------------
(* The steps. *)

LEMMA PolicyHolds ==
  /\ Attempts \in Nat \ {0} /\ Longest \in Nat /\ MaxPages \in Nat \ {0}
  /\ Callers = {Client}
BY PolicyType, ArcGISAssumption

LEMMA InitStep == Init => QueryInv
<1> SUFFICES ASSUME Init PROVE QueryInv
  OBVIOUS
<1>1. CallTypeOK
  BY RetryInitially DEF Init, RetryInv, CallTypeOK
<1>2. <<>> \in Seq(Layers) /\ Len(<<>>) = 0
  OBVIOUS
<1>3. PagingTypeOK
  BY <1>2, PolicyHolds DEF Init, PagingTypeOK, NoError, Error
<1>4. PageCallInOrder /\ LayersInOrder
  BY <1>2, ClientType DEF Init, RetryInit, PageCallInOrder, LayersInOrder
<1> QED
  BY <1>1, <1>3, <1>4 DEF QueryInv

LEMMA TickStep ==
  ASSUME QueryInv, Tick
  PROVE  QueryInv'
<1>1. /\ UNCHANGED <<phase, attempt, last, tries>>
      /\ UNCHANGED <<layers, query, todo, offset, pages, items, error, product, ended>>
  BY DEF Tick, RetryTick, queryVars, pagerVars
<1>2. CallTypeOK'
  BY <1>1, PolicyHolds
  DEF Tick, RetryTick, QueryInv, CallTypeOK, RetryTypeOK, AnswersKept, QuietCap, Most, Least
<1>3. PagingTypeOK'
  BY <1>1 DEF QueryInv, PagingTypeOK
<1>4. PageCallInOrder' /\ LayersInOrder'
  BY <1>1 DEF QueryInv, PageCallInOrder, LayersInOrder, Answer
<1> QED
  BY <1>2, <1>3, <1>4 DEF QueryInv

LEMMA RepublishStep ==
  ASSUME QueryInv, Republish
  PROVE  QueryInv'
<1>1. /\ UNCHANGED retryVars
      /\ UNCHANGED <<query, todo, offset, pages, items, error, product, ended>>
      /\ layers' \in [Layers -> Contents]
  BY DEF Republish, queryVars, pagerVars, QueryInv, PagingTypeOK
<1>2. CallTypeOK'
  BY <1>1 DEF QueryInv, CallTypeOK, RetryTypeOK, AnswersKept, retryVars
<1>3. PagingTypeOK'
  BY <1>1 DEF QueryInv, PagingTypeOK
<1>4. PageCallInOrder' /\ LayersInOrder'
  BY <1>1 DEF QueryInv, PageCallInOrder, LayersInOrder, Answer, retryVars
<1> QED
  BY <1>2, <1>3, <1>4 DEF QueryInv

LEMMA StartQueryStep ==
  ASSUME QueryInv, NEW p \in Products, StartQuery(p)
  PROVE  QueryInv'
<1>1. p.layers \in Seq(Layers)
  BY ServiceAssumption
<1>2. Len(p.layers) \in Nat
  BY <1>1, LenProperties
<1>3. /\ phase' = [phase EXCEPT ![Client] = "idle"]
      /\ UNCHANGED <<layers, attempt, rest, last, tries, quiet>>
      /\ todo' = p.layers /\ product' = p /\ offset' = 0 /\ pages' = 0 /\ ended' = 0
      /\ query' \in {"failed", "paging"}
      /\ query' = "paging" => p.layers # <<>>
      /\ error'.http_status = 0
  BY DEF StartQuery, NewPager, NoError, Error
<1>4. CallTypeOK'
  BY <1>3 DEF QueryInv, CallTypeOK, RetryTypeOK, AnswersKept, QuietCap
<1>5. PagingTypeOK'
  BY <1>1, <1>2, <1>3, PolicyHolds DEF QueryInv, PagingTypeOK
<1>6. PageCallInOrder'
  BY <1>3, ClientType DEF QueryInv, CallTypeOK, RetryTypeOK, PageCallInOrder
<1>7. LayersInOrder'
  BY <1>2, <1>3, PolicyHolds DEF LayersInOrder
<1> QED
  BY <1>4, <1>5, <1>6, <1>7 DEF QueryInv

LEMMA RequestPageStep ==
  ASSUME QueryInv, RequestPage
  PROVE  QueryInv'
<1>1. /\ query = "paging" /\ StartCall(Client)
      /\ UNCHANGED <<layers, query, todo, offset, pages, items, error, product, ended>>
  BY DEF RequestPage, queryVars, pagerVars
<1>2. CallTypeOK'
  <2>1. RetryTypeOK'
    BY <1>1, PolicyHolds DEF StartCall, QueryInv, CallTypeOK, RetryTypeOK, QuietCap
  <2>2. AnswersKept'
    BY <1>1 DEF StartCall, QueryInv, CallTypeOK, AnswersKept
  <2> QED
    BY <2>1, <2>2 DEF CallTypeOK
<1>3. PagingTypeOK' /\ LayersInOrder'
  BY <1>1 DEF QueryInv, PagingTypeOK, LayersInOrder
<1>4. PageCallInOrder'
  BY <1>1, ClientType DEF StartCall, QueryInv, CallTypeOK, RetryTypeOK, PageCallInOrder
<1> QED
  BY <1>2, <1>3, <1>4 DEF QueryInv

LEMMA ResumeStep ==
  ASSUME QueryInv, Resume
  PROVE  QueryInv'
<1>1. /\ NextAttempt(Client)
      /\ UNCHANGED <<layers, query, todo, offset, pages, items, error, product, ended>>
  BY DEF Resume, queryVars, pagerVars
<1>2. query = "paging" /\ attempt[Client] = tries[Client] /\ tries[Client] < Attempts
  BY <1>1 DEF NextAttempt, QueryInv, PageCallInOrder
<1>3. CallTypeOK'
  BY <1>1, <1>2, PolicyHolds
  DEF NextAttempt, QueryInv, CallTypeOK, RetryTypeOK, AnswersKept, QuietCap
<1>4. PagingTypeOK' /\ LayersInOrder'
  BY <1>1 DEF QueryInv, PagingTypeOK, LayersInOrder
<1>5. PageCallInOrder'
  BY <1>1, <1>2, ClientType
  DEF NextAttempt, QueryInv, CallTypeOK, RetryTypeOK, PageCallInOrder
<1> QED
  BY <1>3, <1>4, <1>5 DEF QueryInv

LEMMA ReplyStep ==
  ASSUME QueryInv, Reply
  PROVE  QueryInv'
<1>1. /\ query = "paging"
      /\ UNCHANGED <<layers, query, todo, offset, pages, items, error, product, ended>>
  BY DEF Reply, queryVars, pagerVars
<1>2. PICK a \in ServerAnswers : Answered(Client, a)
  BY DEF Reply
<1>3. FromServer(a) /\ IsAnswer(a)
  BY <1>1, AnswerKnown
<1>4. /\ phase[Client] = "operating"
      /\ attempt[Client] = tries[Client] + 1
      /\ attempt[Client] \in 1 .. Attempts /\ tries[Client] \in Nat
  BY <1>2, ClientType, PolicyHolds
  DEF Answered, QueryInv, CallTypeOK, RetryTypeOK, PageCallInOrder
<1>5. Least(tries[Client] + 1, Attempts + 1) = attempt[Client]
  BY <1>4, PolicyHolds DEF Least
<1>6. /\ last' = [last EXCEPT ![Client] = a]
      /\ tries' = [tries EXCEPT ![Client] = attempt[Client]]
      /\ quiet' = [quiet EXCEPT ![Client] = 0]
  BY <1>2, <1>5 DEF Answered
<1>7. AnswersKept' /\ last'[Client] = a
  BY <1>6, ClientType DEF QueryInv, CallTypeOK, AnswersKept
<1>8. PagingTypeOK' /\ LayersInOrder'
  BY <1>1 DEF QueryInv, PagingTypeOK, LayersInOrder
<1>9. CASE Conclusive(Client, a)
  <2>1. /\ phase' = [phase EXCEPT ![Client] = "done"]
        /\ attempt' = [attempt EXCEPT ![Client] = 0]
        /\ rest' = rest
    BY <1>2, <1>9 DEF Answered
  <2>2. RetryTypeOK'
    BY <1>4, <1>6, <2>1, PolicyHolds DEF QueryInv, CallTypeOK, RetryTypeOK, QuietCap
  <2>3. phase'[Client] = "done"
    BY <2>1, ClientType DEF QueryInv, CallTypeOK, RetryTypeOK
  <2>4. PageCallInOrder'
    BY <1>1, <1>3, <1>7, <2>3 DEF PageCallInOrder, Answer, FromServer
  <2> QED
    BY <1>7, <1>8, <2>2, <2>4 DEF QueryInv, CallTypeOK
<1>10. CASE ~Conclusive(Client, a)
  <2>1. /\ phase' = [phase EXCEPT ![Client] = "sleeping"]
        /\ attempt' = attempt
    BY <1>2, <1>10 DEF Answered
  <2>2. PICK d \in DelaysAfter(a, attempt[Client]) : rest' = [rest EXCEPT ![Client] = d]
    BY <1>2, <1>10 DEF Answered
  <2>3. d \in 0 .. Longest
    BY <1>3, <1>4, DelaysObeyAllRules
  <2>4. RetryTypeOK'
    BY <1>4, <1>6, <2>1, <2>2, <2>3, PolicyHolds
    DEF QueryInv, CallTypeOK, RetryTypeOK, QuietCap
  <2>5. /\ phase'[Client] = "sleeping" /\ attempt'[Client] = attempt[Client]
        /\ tries'[Client] = attempt[Client] /\ attempt[Client] < Attempts
    BY <1>4, <1>6, <1>10, <2>1, ClientType, PolicyHolds
    DEF QueryInv, CallTypeOK, RetryTypeOK, Conclusive
  <2>6. PageCallInOrder'
    BY <1>1, <2>5 DEF PageCallInOrder
  <2> QED
    BY <1>7, <1>8, <2>4, <2>6 DEF QueryInv, CallTypeOK
<1> QED
  BY <1>9, <1>10

(* What every step that takes a page's answer does to the call. *)
LEMMA PageReturnedStep ==
  ASSUME QueryInv, PageReturned
  PROVE  /\ CallTypeOK' /\ PageCallInOrder'
         /\ FromServer(Answer)
         /\ todo # <<>> /\ todo \in Seq(Layers) /\ Len(todo) \in Nat
         /\ ended \in Nat /\ ended + Len(todo) = Len(product.layers)
         /\ Len(product.layers) \in Nat
         /\ pages \in Nat /\ pages < MaxPages /\ offset \in Nat
<1>1. /\ query = "paging" /\ phase[Client] = "done"
      /\ phase' = [phase EXCEPT ![Client] = "idle"]
      /\ UNCHANGED <<attempt, rest, last, tries, quiet>>
  BY DEF PageReturned
<1>2. CallTypeOK'
  BY <1>1 DEF QueryInv, CallTypeOK, RetryTypeOK, AnswersKept, QuietCap
<1>3. PageCallInOrder'
  BY <1>1, ClientType DEF QueryInv, CallTypeOK, RetryTypeOK, PageCallInOrder
<1>4. FromServer(Answer)
  BY <1>1 DEF QueryInv, PageCallInOrder
<1>5. Len(todo) \in Nat /\ Len(product.layers) \in Nat
  BY LenProperties DEF QueryInv, PagingTypeOK
<1> QED
  BY <1>1, <1>2, <1>3, <1>4, <1>5, PolicyHolds DEF QueryInv, PagingTypeOK, LayersInOrder

(* The http_status of a page that fails is one the server or the transport *)
(* gave, or one that stands for an ArcGIS error. *)
LEMMA PageErrorType ==
  ASSUME FromServer(Answer)
  PROVE  PageError.http_status \in {0} \cup 100 .. 599 \cup {a.status : a \in FailedAnswers}
<1>1. CASE BodyCode # "Ok"
  <2>1. Answer \in FailedAnswers
    BY <1>1 DEF FromServer, BodyCode, BodyOrError
  <2> QED
    BY <1>1, <2>1 DEF PageError, Error
<1>2. CASE BodyCode = "Ok"
  BY <1>2 DEF PageError, Error, NoError, ArcGISStatus
<1> QED
  BY <1>1, <1>2

LEMMA PageFailsStep ==
  ASSUME QueryInv, PageFails
  PROVE  QueryInv'
<1>1. PageReturned
  BY DEF PageFails
<1>2. /\ query' = "failed" /\ error' = PageError
      /\ UNCHANGED <<layers, todo, offset, pages, ended, product>>
  BY DEF PageFails, Fail, PageReturned, pagerVars
<1>3. error'.http_status \in {0} \cup 100 .. 599 \cup {a.status : a \in FailedAnswers}
  BY <1>1, <1>2, PageReturnedStep, PageErrorType
<1>4. PagingTypeOK' /\ LayersInOrder'
  BY <1>2, <1>3 DEF QueryInv, PagingTypeOK, LayersInOrder
<1> QED
  BY <1>1, <1>4, PageReturnedStep DEF QueryInv

(* A page that is taken, however paging goes on. *)
LEMMA AcceptedFeatures ==
  ASSUME FromServer(Answer), PageError = NoError
  PROVE  /\ BodyCode = "Ok" /\ Answer \notin FailedAnswers
         /\ Len(Answer.body.features) \in Nat
<1>1. BodyCode = "Ok"
  BY DEF PageError, NoError, Error
<1>2. Answer \notin FailedAnswers
  BY <1>1, ServiceAssumption DEF BodyCode
<1> QED
  BY <1>1, <1>2 DEF FromServer

LEMMA PageAcceptedStep ==
  ASSUME QueryInv, PageAccepted
  PROVE  QueryInv'
<1>1. PageReturned /\ PageError = NoError
  BY DEF PageAccepted
<1>2. /\ FromServer(Answer)
      /\ todo # <<>> /\ todo \in Seq(Layers) /\ Len(todo) \in Nat
      /\ ended \in Nat /\ ended + Len(todo) = Len(product.layers)
      /\ Len(product.layers) \in Nat
      /\ pages \in Nat /\ pages < MaxPages /\ offset \in Nat
  BY <1>1, PageReturnedStep
<1>3. Len(Answer.body.features) \in Nat
  BY <1>1, <1>2, AcceptedFeatures
<1>4. query = "paging" /\ UNCHANGED <<layers, product>>
  BY <1>1 DEF PageReturned
<1>5. CASE /\ HasMore
           /\ Advance
           /\ UNCHANGED <<query, todo, error, ended>>
  <2>1. /\ offset' \in Nat /\ pages' = pages + 1 /\ pages + 1 < MaxPages
    BY <1>2, <1>3, <1>5 DEF HasMore, Advance
  <2>2. PagingTypeOK'
    BY <1>2, <1>4, <1>5, <2>1, PolicyHolds DEF QueryInv, PagingTypeOK
  <2>3. LayersInOrder'
    BY <1>4, <1>5, <2>1 DEF QueryInv, LayersInOrder
  <2> QED
    BY <1>1, <2>2, <2>3, PageReturnedStep DEF QueryInv
<1>6. CASE /\ Advance
           /\ Fail(Error("ServerError", 0))
           /\ UNCHANGED <<todo, ended>>
  <2>1. offset' \in Nat /\ pages' \in 0 .. MaxPages
    BY <1>2, <1>3, <1>6, PolicyHolds DEF Advance
  <2>2. query' = "failed" /\ error'.http_status = 0
    BY <1>6 DEF Fail, Error
  <2>3. PagingTypeOK'
    BY <1>4, <1>6, <2>1, <2>2 DEF QueryInv, PagingTypeOK
  <2>4. LayersInOrder'
    BY <2>2 DEF LayersInOrder
  <2> QED
    BY <1>1, <2>3, <2>4, PageReturnedStep DEF QueryInv
<1>7. CASE /\ ~HasMore /\ ~PageLimitReached
           /\ todo' = Tail(todo)
           /\ NewPager
           /\ ended' = IF Answer.body.more THEN ended ELSE ended + 1
           /\ query' = IF Len(todo) = 1 THEN "ok" ELSE "paging"
           /\ UNCHANGED error
  <2>1. ~Answer.body.more
    BY <1>2, <1>7, PolicyHolds DEF HasMore, PageLimitReached
  <2>2. ended' = ended + 1 /\ offset' = 0 /\ pages' = 0
    BY <1>7, <2>1 DEF NewPager
  <2>3. /\ Tail(todo) \in Seq(Layers) /\ Len(Tail(todo)) = Len(todo) - 1
    BY <1>2, HeadTailProperties
  <2>4. Len(todo) # 0
    BY <1>2, HeadTailProperties, LenProperties
  <2>5. Len(todo) # 1 => Tail(todo) # <<>>
    <3>1. Len(<<>>) = 0
      OBVIOUS
    <3>2. Len(todo) # 1 => Len(Tail(todo)) # 0
      BY <1>2, <2>3
    <3> QED
      BY <3>1, <3>2
  <2>6. PagingTypeOK'
    BY <1>2, <1>4, <1>7, <2>2, <2>3, <2>4, PolicyHolds DEF QueryInv, PagingTypeOK
  <2>7. LayersInOrder'
    <3>1. CASE Len(todo) = 1
      <4>1. query' = "ok" /\ ended' = Len(product'.layers)
        BY <1>2, <1>4, <1>7, <2>2, <3>1
      <4> QED
        BY <4>1 DEF LayersInOrder
    <3>2. CASE Len(todo) # 1
      <4>1. query' = "paging" /\ todo' # <<>>
        BY <1>4, <1>7, <2>5, <3>2
      <4>2. ended' + Len(todo') = Len(product'.layers)
        BY <1>2, <1>4, <1>7, <2>2, <2>3
      <4>3. pages' < MaxPages
        BY <2>2, PolicyHolds
      <4> QED
        BY <4>1, <4>2, <4>3 DEF LayersInOrder
    <3> QED
      BY <3>1, <3>2
  <2> QED
    BY <1>1, <2>6, <2>7, PageReturnedStep DEF QueryInv
<1> QED
  BY <1>5, <1>6, <1>7 DEF PageAccepted

LEMMA StutterStep ==
  ASSUME QueryInv, UNCHANGED vars
  PROVE  QueryInv'
BY DEF QueryInv, CallTypeOK, RetryTypeOK, AnswersKept, PagingTypeOK, PageCallInOrder,
     LayersInOrder, Answer, vars, retryVars, queryVars, pagerVars

(***************************************************************************)
(* The inductive invariant of a query: with_retry() runs only while a page *)
(* is read, what it returns is the server's or the transport's, and the    *)
(* layers that have ended and those still to be read are the query's.      *)
(***************************************************************************)
THEOREM QueryInvariant == Spec => []QueryInv
<1>1. Init => QueryInv
  BY InitStep
<1>2. QueryInv /\ [Next]_vars => QueryInv'
  <2> SUFFICES ASSUME QueryInv, [Next]_vars PROVE QueryInv'
    OBVIOUS
  <2>1. CASE Tick
    BY <2>1, TickStep
  <2>2. CASE Republish
    BY <2>2, RepublishStep
  <2>3. ASSUME NEW p \in Products, StartQuery(p) PROVE QueryInv'
    BY <2>3, StartQueryStep
  <2>4. CASE RequestPage
    BY <2>4, RequestPageStep
  <2>5. CASE Reply
    BY <2>5, ReplyStep
  <2>6. CASE Resume
    BY <2>6, ResumeStep
  <2>7. CASE PageFails
    BY <2>7, PageFailsStep
  <2>8. CASE PageAccepted
    BY <2>8, PageAcceptedStep
  <2>9. CASE UNCHANGED vars
    BY <2>9, StutterStep
  <2> QED
    BY <2>1, <2>2, <2>3, <2>4, <2>5, <2>6, <2>7, <2>8, <2>9 DEF Next, Step
<1> QED
  BY <1>1, <1>2, PTL DEF Spec

(***************************************************************************)
(* A query keeps its types: the pager never goes past its limit of pages,  *)
(* and a failure carries a status the server or the transport gave.        *)
(***************************************************************************)
THEOREM QueryTypeCorrect == Spec => []QueryTypeOK
<1>1. QueryInv => QueryTypeOK
  BY DEF QueryInv, CallTypeOK, PagingTypeOK, LayersInOrder, QueryTypeOK
<1> QED
  BY <1>1, QueryInvariant, PTL

(***************************************************************************)
(* No page limit, no second layer and no lie of the server leaves a        *)
(* truncated layer behind a success.                                       *)
(***************************************************************************)
THEOREM NothingIsTruncatedSilently == Spec => []NeverTruncatedSilently
<1>1. QueryInv => NeverTruncatedSilently
  BY DEF QueryInv, LayersInOrder, NeverTruncatedSilently
<1> QED
  BY <1>1, QueryInvariant, PTL

-----------------------------------------------------------------------------
(* The refinement.  A step of the client that takes no page, and one of the *)
(* server that serves none, leaves what paging promises alone. *)

LEMMA SameView ==
  ASSUME UNCHANGED <<phase, last, query, todo, offset, items, product, layers>>
  PROVE  UNCHANGED Promise!vars
<1>1. PageError' = PageError /\ Answer' = Answer
  BY DEF PageError, Answer, BodyCode, ArcGISCode
<1>2. Served' = Served /\ Complete' = Complete
  BY <1>1 DEF Served, Complete
<1>3. Taken(product, Answer.body.features)' = Taken(product, Answer.body.features)
  BY <1>1
<1> QED
  BY <1>1, <1>2, <1>3 DEF Promise!vars, Promise!readVars

(* Without a page at hand the client's own variables are what is promised. *)
LEMMA UnservedView ==
  ASSUME ~Served, ~Served', UNCHANGED <<query, todo, offset, items, product, layers>>
  PROVE  UNCHANGED Promise!vars
<1>1. ~Complete /\ ~Complete'
  BY DEF Complete
<1> QED
  BY <1>1 DEF Promise!vars, Promise!readVars

LEMMA InitView == Init => Promise!Init
<1> SUFFICES ASSUME Init PROVE Promise!Init
  OBVIOUS
<1>1. ~Served /\ ~Complete
  BY DEF Init, Served, Complete
<1> QED
  BY <1>1 DEF Init, Promise!Init

LEMMA RepublishView ==
  ASSUME QueryInv, Republish
  PROVE  Promise!Publish
<1>1. UNCHANGED <<phase, last, query, todo, offset, items, product>>
  BY DEF Republish, retryVars, queryVars, pagerVars
<1>2. layers' \in [Layers -> Contents]
  BY DEF Republish, QueryInv, PagingTypeOK
<1>3. PageError' = PageError /\ Answer' = Answer
  BY <1>1 DEF PageError, Answer, BodyCode, ArcGISCode
<1>4. Served' = Served /\ Complete' = Complete
  BY <1>1, <1>3 DEF Served, Complete
<1>5. Taken(product, Answer.body.features)' = Taken(product, Answer.body.features)
  BY <1>1, <1>3
<1> QED
  BY <1>1, <1>2, <1>3, <1>4, <1>5 DEF Promise!Publish, Promise!readVars

LEMMA StartQueryView ==
  ASSUME QueryInv, NEW p \in Products, StartQuery(p)
  PROVE  Promise!Start(p)
<1>1. query # "paging" /\ ~Served /\ ~Complete
  BY DEF StartQuery, Served, Complete
<1>2. phase'[Client] = "idle"
  BY ClientType DEF StartQuery, QueryInv, CallTypeOK, RetryTypeOK
<1>3. ~Served' /\ ~Complete'
  BY <1>2 DEF Served, Complete
<1> QED
  BY <1>1, <1>3 DEF StartQuery, NewPager, Promise!Start

LEMMA PageFailsView ==
  ASSUME QueryInv, PageFails
  PROVE  Promise!Fail
<1>1. query = "paging" /\ ~Served /\ ~Complete
  BY DEF PageFails, PageReturned, Served, Complete
<1>2. query' = "failed" /\ ~Served' /\ ~Complete'
  BY DEF PageFails, Fail, Served, Complete
<1> QED
  BY <1>1, <1>2 DEF PageFails, PageReturned, Fail, pagerVars, Promise!Fail

LEMMA PageAcceptedView ==
  ASSUME QueryInv, PageAccepted
  PROVE  UNCHANGED Promise!vars \/ Promise!Fail
<1>1. PageReturned /\ PageError = NoError
  BY DEF PageAccepted
<1>2. pages \in Nat /\ MaxPages \in Nat
  BY <1>1, PageReturnedStep, PolicyHolds
<1>3. /\ query = "paging" /\ Served
      /\ phase' = [phase EXCEPT ![Client] = "idle"]
      /\ UNCHANGED <<layers, product>>
  BY <1>1 DEF PageReturned, Served
<1>4. ~Served' /\ ~Complete'
  BY <1>3, ClientType DEF QueryInv, CallTypeOK, RetryTypeOK, Served, Complete
<1>5. CASE /\ HasMore
           /\ Advance
           /\ items' = items \o Taken(product, Answer.body.features)
           /\ UNCHANGED <<query, todo, error, ended>>
  <2>1. ~Complete
    BY <1>5 DEF HasMore, Complete
  <2> QED
    BY <1>3, <1>4, <1>5, <2>1 DEF Advance, Promise!vars, Promise!readVars
<1>6. CASE /\ PageLimitReached
           /\ Advance
           /\ Fail(Error("ServerError", 0))
           /\ UNCHANGED <<todo, ended>>
  <2>1. ~Complete
    BY <1>6 DEF PageLimitReached, Complete
  <2> QED
    BY <1>3, <1>4, <1>6, <2>1 DEF Advance, Fail, Promise!Fail
<1>7. CASE /\ ~HasMore /\ ~PageLimitReached
           /\ items' = items \o Taken(product, Answer.body.features)
           /\ todo' = Tail(todo)
           /\ NewPager
           /\ query' = IF Len(todo) = 1 THEN "ok" ELSE "paging"
  <2>1. ~Answer.body.more
    BY <1>2, <1>7 DEF HasMore, PageLimitReached
  <2>2. Complete
    BY <1>3, <2>1 DEF Complete
  <2> QED
    BY <1>3, <1>4, <1>7, <2>2 DEF NewPager, Promise!vars, Promise!readVars
<1> QED
  BY <1>5, <1>6, <1>7 DEF PageAccepted

(* The page that paging takes when its answer is served: what follows the  *)
(* records counted, its last one of the layer, or a runaway's beginning.   *)
LEMMA ServedPage ==
  ASSUME QueryInv, query = "paging", ~Served, NEW a \in ServerAnswers,
         BodyOrError(a, "NotFound") = "Ok",
         a.body.what # "garbage", a.body.what # "error",
         ~(a.body.more /\ a.body.features = <<>>)
  PROVE  \E l \in Promise!Arrangements(product, Layer) : \E page \in Promise!PagesOf(l) :
            /\ page.records = a.body.features
            /\ page.ended <=> ~a.body.more
<1>1. a \notin FailedAnswers /\ a \notin ErrorBodies /\ a \notin Garbage
  BY ServiceAssumption DEF ErrorBodies, Garbage, Body
<1>2. Promise!Arrangements(product, Layer) = Arrangements
  BY DEF Promise!Arrangements, Arrangements, Promise!Reverse, Reverse
<1>3. ~Complete /\ offset \in Nat /\ Len(Layer) \in Nat /\ Layer \in Arrangements
  BY LayerKnown DEF Complete, QueryInv, PagingTypeOK, Arrangements
<1>4. CASE a \in HonestPages
  <2>1. PICK l \in Arrangements, n \in offset .. Len(Layer) :
           /\ a = Body("page", SubSeq(l, offset + 1, n), n < Len(l), 0)
           /\ Len(SubSeq(l, offset + 1, n)) = n - offset
    BY <1>4, HonestPage
  <2>2. Len(l) = Len(Layer) /\ n \in Nat /\ n <= Len(l)
    BY <1>3, <2>1, LayerKnown
  <2>3. /\ a.body.features = SubSeq(l, offset + 1, n)
        /\ a.body.more <=> n < Len(l)
    BY <2>1 DEF Body
  <2>4. CASE n < Len(l)
    <3>1. SubSeq(l, offset + 1, n) # <<>>
      BY <2>3, <2>4
    <3>2. n # offset
      BY <1>3, <2>2, <3>1, SubSeqEmpty
    <3>3. n \in offset + 1 .. Len(l) - 1
      BY <1>3, <2>1, <2>2, <2>4, <3>2
    <3> DEFINE page == Promise!Page(SubSeq(l, offset + 1, n), FALSE)
    <3>4. page \in Promise!PagesOf(l)
      BY <1>3, <3>3 DEF Promise!PagesOf
    <3>5. page.records = SubSeq(l, offset + 1, n) /\ ~page.ended
      BY DEF Promise!Page
    <3> HIDE DEF page
    <3> QED
      BY <1>2, <2>1, <2>3, <2>4, <3>4, <3>5
  <2>5. CASE ~(n < Len(l))
    <3>1. n = Len(l)
      BY <2>2, <2>5
    <3> DEFINE page == Promise!Page(SubSeq(l, offset + 1, Len(l)), TRUE)
    <3>2. page \in Promise!PagesOf(l)
      BY <1>3 DEF Promise!PagesOf
    <3>3. page.records = SubSeq(l, offset + 1, Len(l)) /\ page.ended
      BY DEF Promise!Page
    <3> HIDE DEF page
    <3> QED
      BY <1>2, <2>1, <2>3, <2>5, <3>1, <3>2, <3>3
  <2> QED
    BY <2>4, <2>5
<1>5. CASE a \in LastPages
  <2>1. offset > Len(Layer) /\ a.body.features = <<>> /\ ~a.body.more
    BY <1>5 DEF LastPages, Body
  <2>2. SubSeq(Layer, offset + 1, Len(Layer)) = <<>>
    BY <1>3, <2>1, SubSeqEmpty
  <2> DEFINE page == Promise!Page(SubSeq(Layer, offset + 1, Len(Layer)), TRUE)
  <2>3. page \in Promise!PagesOf(Layer)
    BY <1>3 DEF Promise!PagesOf
  <2>4. page.records = SubSeq(Layer, offset + 1, Len(Layer)) /\ page.ended
    BY DEF Promise!Page
  <2> HIDE DEF page
  <2> QED
    BY <1>2, <1>3, <2>1, <2>2, <2>3, <2>4
<1>6. CASE a \in RunawayPages
  <2>1. Runaway
    BY <1>6, RunawayPage
  <2>2. PICK n \in 0 .. Len(Layer) :
           /\ a = Body("page", SubSeq(Layer, 1, n), TRUE, 0)
           /\ Len(SubSeq(Layer, 1, n)) = n
    BY <1>6, RunawayPage
  <2>3. a.body.features = SubSeq(Layer, 1, n) /\ a.body.more
    BY <2>2 DEF Body
  <2>4. n # 0
    BY <2>3, SubSeqEmpty
  <2>5. n \in {k \in 1 .. Len(Layer) : Runaway}
    BY <1>3, <2>1, <2>2, <2>4
  <2> DEFINE page == Promise!Page(SubSeq(Layer, 1, n), FALSE)
  <2>6. page \in Promise!PagesOf(Layer)
    BY <2>5 DEF Promise!PagesOf
  <2>7. page.records = SubSeq(Layer, 1, n) /\ ~page.ended
    BY DEF Promise!Page
  <2> HIDE DEF page
  <2> QED
    BY <1>2, <1>3, <2>3, <2>6, <2>7
<1> QED
  BY <1>1, <1>4, <1>5, <1>6 DEF ServerAnswers

LEMMA ReplyView ==
  ASSUME QueryInv, Reply
  PROVE  UNCHANGED Promise!vars \/ Promise!Next
<1>1. PICK a \in ServerAnswers : Answered(Client, a)
  BY DEF Reply
<1>2. /\ query = "paging" /\ phase[Client] = "operating"
      /\ UNCHANGED <<layers, query, todo, offset, items, product>>
  BY <1>1 DEF Reply, Answered, queryVars, pagerVars
<1>3. ~Served /\ ~Complete
  BY <1>2 DEF Served, Complete
<1>4. CASE ~Served'
  BY <1>2, <1>3, <1>4, UnservedView
<1>5. CASE Served'
  <2>1. Answer' = a
    BY <1>1, ClientType DEF Answered, Answer, QueryInv, CallTypeOK, AnswersKept
  <2>2. /\ BodyOrError(a, "NotFound") = "Ok"
        /\ a.body.what # "garbage" /\ a.body.what # "error"
        /\ ~(a.body.more /\ a.body.features = <<>>)
    <3>1. PageError' = NoError
      BY <1>5 DEF Served
    <3>2. BodyCode' = "Ok"
      BY <3>1 DEF PageError, NoError, Error
    <3>3. BodyOrError(a, "NotFound") = "Ok"
      BY <2>1, <3>2 DEF BodyCode
    <3>4. a.body.what # "garbage"
      BY <2>1, <3>1, <3>2 DEF PageError, NoError, Error
    <3>5. a.body.what # "error"
      BY <2>1, <3>1, <3>2, <3>4 DEF PageError, NoError, Error, FromArcGIS
    <3>6. ~(a.body.more /\ a.body.features = <<>>)
      BY <2>1, <3>1, <3>2, <3>4, <3>5 DEF PageError, NoError, Error
    <3> QED
      BY <3>3, <3>4, <3>5, <3>6
  <2>3. PICK l \in Promise!Arrangements(product, Layer) : \E page \in Promise!PagesOf(l) :
            /\ page.records = a.body.features
            /\ page.ended <=> ~a.body.more
    BY <1>2, <1>3, <2>2, ServedPage
  <2>4. PICK page \in Promise!PagesOf(l) :
            /\ page.records = a.body.features
            /\ page.ended <=> ~a.body.more
    BY <2>3
  <2>5. Complete' <=> page.ended
    BY <1>5, <2>1, <2>4 DEF Complete
  <2>6. Promise!Take(page)
    <3>1. CASE page.ended
      BY <1>2, <1>3, <1>5, <2>1, <2>4, <2>5, <3>1 DEF Promise!Take
    <3>2. CASE ~page.ended
      BY <1>2, <1>3, <1>5, <2>1, <2>4, <2>5, <3>2 DEF Promise!Take
    <3> QED
      BY <3>1, <3>2
  <2> QED
    BY <1>2, <1>3, <2>3, <2>4, <2>6 DEF Promise!Next, Layer
<1> QED
  BY <1>4, <1>5

(***************************************************************************)
(* Step by step a query is a paged read of layers that may be published    *)
(* anew at any time: requests, retries, sleeps, refused pages and those    *)
(* past the limit are stutters or the read's failure, the answer that      *)
(* brings a page is the read of that page.                                 *)
(***************************************************************************)
THEOREM QueryIsPagedRead == Spec => ImplementsPagedRead
<1>1. Init => Promise!Init
  BY InitView
<1>2. QueryInv /\ [Next]_vars => [Promise!Next]_(Promise!vars)
  <2> SUFFICES ASSUME QueryInv, [Next]_vars PROVE [Promise!Next]_(Promise!vars)
    OBVIOUS
  <2>1. CASE Tick \/ Resume
    <3>1. UNCHANGED <<query, todo, offset, items, product, layers>>
      BY <2>1 DEF Tick, Resume, queryVars, pagerVars
    <3>2. CASE Tick
      BY <3>1, <3>2, SameView DEF Tick, RetryTick
    <3>3. CASE Resume
      <4>1. phase[Client] = "sleeping" /\ phase'[Client] = "operating"
        BY <3>3, ClientType DEF Resume, NextAttempt, QueryInv, CallTypeOK, RetryTypeOK
      <4>2. ~Served /\ ~Served'
        BY <4>1 DEF Served
      <4> QED
        BY <3>1, <4>2, UnservedView
    <3> QED
      BY <2>1, <3>2, <3>3
  <2>2. CASE Republish
    BY <2>2, RepublishView DEF Promise!Next
  <2>3. ASSUME NEW p \in Products, StartQuery(p) PROVE Promise!Next
    BY <2>3, StartQueryView DEF Promise!Next
  <2>4. CASE RequestPage
    <3>1. phase[Client] = "idle" /\ phase'[Client] = "operating"
      BY <2>4, ClientType DEF RequestPage, StartCall, QueryInv, CallTypeOK, RetryTypeOK
    <3>2. ~Served /\ ~Served'
      BY <3>1 DEF Served
    <3>3. UNCHANGED <<query, todo, offset, items, product, layers>>
      BY <2>4 DEF RequestPage, queryVars, pagerVars
    <3> QED
      BY <3>2, <3>3, UnservedView
  <2>5. CASE Reply
    BY <2>5, ReplyView
  <2>6. CASE PageFails
    BY <2>6, PageFailsView DEF Promise!Next
  <2>7. CASE PageAccepted
    BY <2>7, PageAcceptedView DEF Promise!Next
  <2>8. CASE UNCHANGED vars
    BY <2>8, SameView DEF vars, retryVars, queryVars, pagerVars
  <2> QED
    BY <2>1, <2>2, <2>3, <2>4, <2>5, <2>6, <2>7, <2>8 DEF Next, Step
<1> QED
  BY <1>1, <1>2, QueryInvariant, PTL DEF Spec, ImplementsPagedRead, Promise!Spec

-----------------------------------------------------------------------------
(* The records of a result: what a parser keeps of two pages is what it    *)
(* keeps of the pages in one. *)

Marks(features) ==
    [i \in DOMAIN features |-> IF features[i] \in Malformed THEN <<>> ELSE <<features[i]>>]

LEMMA MarksType ==
  ASSUME NEW S, NEW s \in Seq(S)
  PROVE  Marks(s) \in Seq(Seq(S)) /\ Len(Marks(s)) = Len(s)
<1>1. /\ DOMAIN s = 1 .. Len(s) /\ Len(s) \in Nat
      /\ \A i \in 1 .. Len(s) : s[i] \in S
  BY LenProperties
<1>2. <<>> \in Seq(S) /\ \A e \in S : <<e>> \in Seq(S)
  OBVIOUS
<1>3. Marks(s) = [i \in 1 .. Len(s) |-> IF s[i] \in Malformed THEN <<>> ELSE <<s[i]>>]
  BY <1>1 DEF Marks
<1>4. Marks(s) \in [1 .. Len(s) -> Seq(S)]
  BY <1>1, <1>2, <1>3
<1> QED
  BY <1>1, <1>4

LEMMA MarksConcat ==
  ASSUME NEW S, NEW s \in Seq(S), NEW t \in Seq(S)
  PROVE  Marks(s \o t) = Marks(s) \o Marks(t)
<1> DEFINE T == Seq(S)
           a == Marks(s \o t)
           b == Marks(s) \o Marks(t)
<1>1. /\ s \o t \in Seq(S) /\ Len(s \o t) = Len(s) + Len(t)
      /\ Len(s) \in Nat /\ Len(t) \in Nat
  BY ConcatProperties, LenProperties
<1>2. /\ Marks(s) \in Seq(T) /\ Len(Marks(s)) = Len(s)
      /\ Marks(t) \in Seq(T) /\ Len(Marks(t)) = Len(t)
      /\ a \in Seq(T) /\ Len(a) = Len(s) + Len(t)
  BY <1>1, MarksType
<1> HIDE DEF T
<1>3. b \in Seq(T) /\ Len(b) = Len(s) + Len(t)
  BY <1>2, ConcatProperties
<1>4. ASSUME NEW i \in 1 .. Len(s) + Len(t) PROVE a[i] = b[i]
  <2>1. DOMAIN (s \o t) = 1 .. Len(s) + Len(t) /\ DOMAIN s = 1 .. Len(s) /\ DOMAIN t = 1 .. Len(t)
    BY <1>1, LenProperties
  <2>2. (s \o t)[i] = IF i <= Len(s) THEN s[i] ELSE t[i - Len(s)]
    BY ConcatProperties
  <2>3. a[i] = IF (s \o t)[i] \in Malformed THEN <<>> ELSE <<(s \o t)[i]>>
    BY <2>1 DEF Marks
  <2>4. b[i] = IF i <= Len(s) THEN Marks(s)[i] ELSE Marks(t)[i - Len(s)]
    BY <1>2, ConcatProperties
  <2>5. CASE i <= Len(s)
    <3>1. i \in 1 .. Len(s)
      BY <1>1, <2>5
    <3>2. Marks(s)[i] = IF s[i] \in Malformed THEN <<>> ELSE <<s[i]>>
      BY <2>1, <3>1 DEF Marks
    <3> QED
      BY <2>2, <2>3, <2>4, <2>5, <3>2
  <2>6. CASE ~(i <= Len(s))
    <3>1. i - Len(s) \in 1 .. Len(t)
      BY <1>1, <2>6
    <3>2. Marks(t)[i - Len(s)] =
            IF t[i - Len(s)] \in Malformed THEN <<>> ELSE <<t[i - Len(s)]>>
      BY <2>1, <3>1 DEF Marks
    <3> QED
      BY <2>2, <2>3, <2>4, <2>6, <3>2
  <2> QED
    BY <2>5, <2>6
<1> HIDE DEF a, b
<1>5. a = b
  BY <1>2, <1>3, <1>4, SeqEqual
<1> QED
  BY <1>5 DEF a, b

LEMMA WellFormedType ==
  ASSUME NEW S, NEW s \in Seq(S)
  PROVE  WellFormed(s) \in Seq(S)
<1>1. Marks(s) \in Seq(Seq(S))
  BY MarksType
<1>2. WellFormed(s) = FlattenSeq(Marks(s))
  BY DEF WellFormed, Marks
<1> QED
  BY <1>1, <1>2, FlattenType

LEMMA WellFormedConcat ==
  ASSUME NEW S, NEW s \in Seq(S), NEW t \in Seq(S)
  PROVE  WellFormed(s \o t) = WellFormed(s) \o WellFormed(t)
<1>1. Marks(s) \in Seq(Seq(S)) /\ Marks(t) \in Seq(Seq(S))
  BY MarksType
<1>2. Marks(s \o t) = Marks(s) \o Marks(t)
  BY MarksConcat
<1>3. FlattenSeq(Marks(s) \o Marks(t)) = FlattenSeq(Marks(s)) \o FlattenSeq(Marks(t))
  BY <1>1, FlattenConcat
<1>4. /\ WellFormed(s) = FlattenSeq(Marks(s))
      /\ WellFormed(t) = FlattenSeq(Marks(t))
      /\ WellFormed(s \o t) = FlattenSeq(Marks(s \o t))
  BY DEF WellFormed, Marks
<1> QED
  BY <1>2, <1>3, <1>4

Record == UNION {ToSet(s) : s \in Contents}

(* What a query p makes of the records of a layer, or of a page of it. *)
ReadOf(p, l) == IF p.raw THEN l ELSE WellFormed(l)

RecordsOf(p, its) == IF p.raw THEN FlattenSeq(its) ELSE its

ItemsOf(p) == IF p.raw THEN Seq(Seq(Record)) ELSE Seq(Record)

(* The first k layers of p. *)
Parts(p, ls, k) == [i \in 1 .. k |-> ReadOf(p, ls[p.layers[i]])]

(* The items are k layers of p and a part of the next. *)
SoFar(p, ls, its, k, part) ==
    LET whole == FlattenSeq(Parts(p, ls, k)) \o ReadOf(p, part)
    IN  IF p.ordered THEN RecordsOf(p, its) = whole ELSE Len(RecordsOf(p, its)) = Len(whole)

(* A query, and the layers that it reads. *)
Reads(p, ls) ==
    /\ p.layers \in Seq(Layers)
    /\ ls \in [Layers -> Contents]
    /\ p.ordered \/ p.raw

LEMMA RecordType ==
  ASSUME NEW s \in Contents
  PROVE  s \in Seq(Record) /\ Seq(ToSet(s)) \subseteq Seq(Record)
<1>1. ToSet(s) \subseteq Record
  BY DEF Record
<1>2. s \in Seq(ToSet(s))
  BY ServiceAssumption
<1>3. \A t \in Seq(ToSet(s)) : t \in Seq(Record)
  BY <1>1, SeqMonotonic
<1> QED
  BY <1>2, <1>3

LEMMA ReadType ==
  ASSUME NEW p, NEW s \in Seq(Record)
  PROVE  ReadOf(p, s) \in Seq(Record)
BY WellFormedType DEF ReadOf

LEMMA ReadConcat ==
  ASSUME NEW p, NEW s \in Seq(Record), NEW t \in Seq(Record)
  PROVE  ReadOf(p, s \o t) = ReadOf(p, s) \o ReadOf(p, t)
BY WellFormedConcat DEF ReadOf

LEMMA ReadNothing ==
  ASSUME NEW p
  PROVE  ReadOf(p, <<>>) = <<>>
<1>1. WellFormed(<<>>) = <<>>
  <2>1. Marks(<<>>) = <<>>
    BY DEF Marks
  <2> QED
    BY <2>1, FlattenNothing DEF WellFormed, Marks
<1> QED
  BY <1>1 DEF ReadOf

LEMMA PartsType ==
  ASSUME NEW p, NEW ls, Reads(p, ls), NEW k \in Nat, k <= Len(p.layers)
  PROVE  /\ Parts(p, ls, k) \in Seq(Seq(Record))
         /\ Len(Parts(p, ls, k)) = k
<1> DEFINE T == Seq(Record)
<1>1. ASSUME NEW i \in 1 .. k PROVE ReadOf(p, ls[p.layers[i]]) \in T
  <2>1. i \in 1 .. Len(p.layers)
    BY LenProperties DEF Reads
  <2>2. p.layers[i] \in Layers
    BY <2>1, ElementOfSeq DEF Reads
  <2>3. ls[p.layers[i]] \in Contents
    BY <2>2 DEF Reads
  <2> QED
    BY <2>3, RecordType, ReadType
<1> HIDE DEF T
<1>2. Parts(p, ls, k) \in [1 .. k -> T]
  BY <1>1 DEF Parts
<1>3. Parts(p, ls, k) \in Seq(T) /\ Len(Parts(p, ls, k)) = k
  BY <1>2
<1> QED
  BY <1>3 DEF T

LEMMA PartsAppend ==
  ASSUME NEW p, NEW ls, Reads(p, ls), NEW k \in Nat, k + 1 <= Len(p.layers)
  PROVE  Parts(p, ls, k + 1) = Append(Parts(p, ls, k), ReadOf(p, ls[p.layers[k + 1]]))
<1> DEFINE T == Seq(Record)
           a == Parts(p, ls, k + 1)
           s == ReadOf(p, ls[p.layers[k + 1]])
           b == Append(Parts(p, ls, k), s)
<1>1. k + 1 \in Nat /\ k <= Len(p.layers)
  BY LenProperties DEF Reads
<1>2. /\ a \in Seq(T) /\ Len(a) = k + 1
      /\ Parts(p, ls, k) \in Seq(T) /\ Len(Parts(p, ls, k)) = k
  BY <1>1, PartsType
<1>3. a[k + 1] = s /\ \A i \in 1 .. k : a[i] = Parts(p, ls, k)[i]
  BY <1>1 DEF Parts
<1>4. s \in T
  BY <1>1, <1>2, <1>3, ElementOfSeq
<1> HIDE DEF T, s
<1>5. b \in Seq(T) /\ Len(b) = k + 1
  BY <1>2, <1>4, AppendProperties
<1>6. b[k + 1] = s /\ \A i \in 1 .. k : b[i] = Parts(p, ls, k)[i]
  BY <1>2, <1>4, AppendProperties
<1> HIDE DEF a, b
<1>7. \A i \in 1 .. k + 1 : a[i] = b[i]
  BY <1>3, <1>6
<1>8. a = b
  BY <1>2, <1>5, <1>7, SeqEqual
<1> QED
  BY <1>8 DEF a, b, s

LEMMA WholeType ==
  ASSUME NEW p, NEW ls, Reads(p, ls), NEW k \in Nat, k <= Len(p.layers),
         NEW part \in Seq(Record)
  PROVE  /\ FlattenSeq(Parts(p, ls, k)) \in Seq(Record)
         /\ ReadOf(p, part) \in Seq(Record)
BY PartsType, FlattenType, ReadType

LEMMA TakenRecords ==
  ASSUME NEW p, NEW its \in ItemsOf(p), NEW f \in Seq(Record)
  PROVE  /\ its \o Taken(p, f) \in ItemsOf(p)
         /\ RecordsOf(p, its) \in Seq(Record)
         /\ RecordsOf(p, its \o Taken(p, f)) = RecordsOf(p, its) \o ReadOf(p, f)
<1>1. CASE p.raw
  <2> DEFINE T == Seq(Record)
  <2>1. its \in Seq(T) /\ f \in T
    BY <1>1 DEF ItemsOf
  <2>2. Taken(p, f) = <<f>> /\ ReadOf(p, f) = f
    BY <1>1 DEF Taken, ReadOf
  <2>3. FlattenSeq(its) \in Seq(Record) /\ FlattenSeq(Append(its, f)) = FlattenSeq(its) \o f
    BY <2>1, FlattenType, FlattenAppend
  <2>4. its \o Taken(p, f) = Append(its, f) /\ Append(its, f) \in Seq(T)
    <3> HIDE DEF T
    <3> QED
      BY <2>1, <2>2, AppendIsConcat, AppendProperties
  <2> QED
    BY <1>1, <2>2, <2>3, <2>4 DEF RecordsOf, ItemsOf
<1>2. CASE ~p.raw
  <2>1. its \in Seq(Record) /\ Taken(p, f) = WellFormed(f) /\ ReadOf(p, f) = WellFormed(f)
    BY <1>2 DEF ItemsOf, Taken, ReadOf
  <2>2. WellFormed(f) \in Seq(Record)
    BY WellFormedType
  <2>3. its \o WellFormed(f) \in Seq(Record)
    BY <2>1, <2>2, ConcatProperties
  <2> QED
    BY <1>2, <2>1, <2>3 DEF RecordsOf, ItemsOf
<1> QED
  BY <1>1, <1>2

(* Nothing is read before the first page. *)
LEMMA NothingSoFar ==
  ASSUME NEW p, NEW ls
  PROVE  <<>> \in ItemsOf(p) /\ SoFar(p, ls, <<>>, 0, <<>>)
<1>1. Parts(p, ls, 0) = <<>>
  BY DEF Parts
<1>2. FlattenSeq(Parts(p, ls, 0)) = <<>>
  BY <1>1, FlattenNothing
<1>3. <<>> \o <<>> = <<>>
  BY EmptySeq, ConcatEmptySeq
<1>4. FlattenSeq(Parts(p, ls, 0)) \o ReadOf(p, <<>>) = <<>>
  BY <1>2, <1>3, ReadNothing
<1>5. RecordsOf(p, <<>>) = <<>>
  BY FlattenNothing DEF RecordsOf
<1>6. <<>> \in ItemsOf(p)
  BY EmptySeq DEF ItemsOf
<1> QED
  BY <1>4, <1>5, <1>6 DEF SoFar

(* What is appended to two sequences as long leaves them as long. *)
LEMMA AsLong ==
  ASSUME NEW S, NEW a, NEW b, NEW c, NEW d, NEW old,
         a \in Seq(S), b \in Seq(S), c \in Seq(S), d \in Seq(S), old \in Seq(S),
         Len(old) = Len(a \o b), Len(c) = Len(d)
  PROVE  Len(old \o c) = Len(a \o (b \o d))
<1>1. a \o b \in Seq(S)
  BY ConcatProperties
<1>2. Len((a \o b) \o d) = Len(a \o b) + Len(d)
  BY <1>1, ConcatProperties
<1>3. Len(old \o c) = Len(old) + Len(c)
  BY ConcatProperties
<1>4. (a \o b) \o d = a \o (b \o d)
  <2>1. a \in Seq(S) /\ b \in Seq(S) /\ d \in Seq(S)
    OBVIOUS
  <2>2. Associates(Seq(S))
    BY ConcatAssociates
  <2> QED
    BY ONLY <2>1, <2>2, Zenon DEF Associates
<1>5. Len(a \o (b \o d)) = Len((a \o b) \o d)
  BY <1>4
<1> QED
  BY <1>2, <1>3, <1>5

(* A page f is taken: in an order it is the records g that come next, out *)
(* of order it is as many. *)
LEMMA PageSoFar ==
  ASSUME NEW p, NEW ls, Reads(p, ls), NEW k \in Nat, k <= Len(p.layers),
         NEW its \in ItemsOf(p), NEW part, NEW f, NEW g,
         part \in Seq(Record), f \in Seq(Record), g \in Seq(Record),
         SoFar(p, ls, its, k, part),
         Len(f) = Len(g), p.ordered => f = g
  PROVE  SoFar(p, ls, its \o Taken(p, f), k, part \o g)
<1> DEFINE before == FlattenSeq(Parts(p, ls, k))
           r == ReadOf(p, part)
           rf == ReadOf(p, f)
           rg == ReadOf(p, g)
           old == RecordsOf(p, its)
           new == RecordsOf(p, its \o Taken(p, f))
<1>1. /\ before \in Seq(Record) /\ r \in Seq(Record)
      /\ rf \in Seq(Record) /\ rg \in Seq(Record)
  BY WholeType, ReadType
<1>2. old \in Seq(Record) /\ new = old \o rf
  BY TakenRecords
<1>3. ReadOf(p, part \o g) = r \o rg
  BY ReadConcat
<1>4. /\ p.ordered => old = before \o r /\ rf = rg
      /\ ~p.ordered => Len(old) = Len(before \o r) /\ rf = f /\ rg = g
  BY DEF SoFar, Reads, ReadOf
<1>5. IF p.ordered THEN new = before \o (r \o rg) ELSE Len(new) = Len(before \o (r \o rg))
  <2> HIDE DEF before, r, rf, rg, old, new
  <2>1. CASE p.ordered
    <3>1. old = before \o r /\ rf = rg
      BY <1>4, <2>1
    <3>2. Associates(Seq(Record))
      BY ConcatAssociates
    <3>3. (before \o r) \o rg = before \o (r \o rg)
      <4>1. before \in Seq(Record) /\ r \in Seq(Record) /\ rg \in Seq(Record)
        BY <1>1
      <4> QED
        BY ONLY <3>2, <4>1, Zenon DEF Associates
    <3> QED
      BY <1>2, <2>1, <3>1, <3>3
  <2>2. CASE ~p.ordered
    BY <1>1, <1>2, <1>4, <2>2, AsLong
  <2> QED
    BY <2>1, <2>2
<1> QED
  BY <1>3, <1>5 DEF SoFar

(* A layer that is read to its end is one layer more. *)
LEMMA LayerSoFar ==
  ASSUME NEW p, NEW ls, Reads(p, ls), NEW k \in Nat, k + 1 <= Len(p.layers),
         NEW its, SoFar(p, ls, its, k, ls[p.layers[k + 1]])
  PROVE  SoFar(p, ls, its, k + 1, <<>>)
<1> DEFINE before == Parts(p, ls, k)
           after == Parts(p, ls, k + 1)
           s == ReadOf(p, ls[p.layers[k + 1]])
<1>1. k + 1 \in Nat /\ k <= Len(p.layers)
  BY LenProperties DEF Reads
<1>2. before \in Seq(Seq(Record)) /\ after \in Seq(Seq(Record))
  BY <1>1, PartsType
<1>3. s \in Seq(Record)
  <2>1. k + 1 \in 1 .. Len(p.layers)
    BY <1>1
  <2>2. p.layers[k + 1] \in Layers
    BY <2>1, ElementOfSeq DEF Reads
  <2> QED
    BY <2>2, RecordType, ReadType DEF Reads
<1>4. after = Append(before, s)
  BY PartsAppend
<1>5. SoFar(p, ls, its, k, ls[p.layers[k + 1]]) <=>
        IF p.ordered THEN RecordsOf(p, its) = FlattenSeq(before) \o s
        ELSE Len(RecordsOf(p, its)) = Len(FlattenSeq(before) \o s)
  BY DEF SoFar
<1>6. SoFar(p, ls, its, k + 1, <<>>) <=>
        IF p.ordered THEN RecordsOf(p, its) = FlattenSeq(after) \o <<>>
        ELSE Len(RecordsOf(p, its)) = Len(FlattenSeq(after) \o <<>>)
  BY ReadNothing DEF SoFar
<1> HIDE DEF before, after, s
<1>7. FlattenSeq(after) = FlattenSeq(before) \o s
  BY <1>2, <1>3, <1>4, FlattenAppend
<1>8. FlattenSeq(after) \o <<>> = FlattenSeq(after)
  <2>1. FlattenSeq(after) \in Seq(Record)
    BY <1>2, FlattenType
  <2> QED
    BY <2>1, ConcatEmptySeq
<1> QED
  BY <1>5, <1>6, <1>7, <1>8

-----------------------------------------------------------------------------
(* Complete results.  While no layer changes and no page lies, the items   *)
(* are the layers that have ended and the first offset records of the one  *)
(* that is read.                                                           *)

LayersListed ==
    query = "paging" => \A i \in 1 .. Len(todo) : todo[i] = product.layers[ended + i]

AnswerHonest ==
    (stable /\ query = "paging" /\ phase[Client] = "done") =>
        Answer \in ServerAnswers /\ Answer \notin RunawayPages \ HonestPages

ReadSoFar ==
    (stable /\ query = "paging") =>
        /\ offset <= Len(Layer)
        /\ items \in ItemsOf(product)
        /\ SoFar(product, layers, items, ended, SubSeq(Layer, 1, offset))

AllRead == (stable /\ query = "ok") => SoFar(product, layers, items, ended, <<>>)

OrderKnown == product.ordered \/ product.raw

CompleteInv == OrderKnown /\ LayersListed /\ AnswerHonest /\ ReadSoFar /\ AllRead

LEMMA QueryReads ==
  ASSUME QueryInv, CompleteInv
  PROVE  Reads(product, layers)
BY DEF QueryInv, PagingTypeOK, CompleteInv, OrderKnown, Reads

(* What leaves a query's own variables and the layers alone, and brings no *)
(* answer. *)
LEMMA UnmovedComplete ==
  ASSUME CompleteInv,
         UNCHANGED <<layers, query, todo, offset, items, product, ended>>,
         stable' => stable,
         phase'[Client] = "done" => phase[Client] = "done" /\ last' = last
  PROVE  CompleteInv'
<1>1. OrderKnown' /\ LayersListed'
  BY DEF CompleteInv, OrderKnown, LayersListed
<1>2. AnswerHonest'
  <2>1. /\ phase'[Client] = "done" => Answer' = Answer
        /\ ServerAnswers' = ServerAnswers
        /\ HonestPages' = HonestPages /\ RunawayPages' = RunawayPages
    BY DEF Answer, ServerAnswers, HonestPages, LastPages, RunawayPages, ErrorBodies,
           Garbage, Layer, Arrangements
  <2> QED
    BY <2>1 DEF CompleteInv, AnswerHonest
<1>3. ReadSoFar' /\ AllRead'
  <2>1. Layer' = Layer
    BY DEF Layer
  <2> QED
    BY <2>1 DEF CompleteInv, ReadSoFar, AllRead
<1> QED
  BY <1>1, <1>2, <1>3 DEF CompleteInv

(* A layer published anew ends what is promised. *)
LEMMA RepublishComplete ==
  ASSUME CompleteInv, Republish
  PROVE  CompleteInv'
<1>1. ~stable' /\ UNCHANGED <<query, todo, product, ended>>
  BY DEF Republish, queryVars
<1> QED
  BY <1>1 DEF CompleteInv, OrderKnown, LayersListed, AnswerHonest, ReadSoFar, AllRead

LEMMA StartQueryComplete ==
  ASSUME QueryInv, NEW p \in Products, StartQuery(p)
  PROVE  CompleteInv'
<1>1. /\ product' = p /\ todo' = p.layers /\ layers' = layers
      /\ offset' = 0 /\ ended' = 0 /\ items' = <<>>
      /\ query' \in {"failed", "paging"}
      /\ query' = "paging" => p.layers # <<>>
      /\ phase' = [phase EXCEPT ![Client] = "idle"]
  BY DEF StartQuery, NewPager
<1>2. p.layers \in Seq(Layers) /\ (p.ordered \/ p.raw)
  BY ServiceAssumption
<1>3. OrderKnown'
  BY <1>1, <1>2 DEF OrderKnown
<1>4. LayersListed'
  <2>1. \A i \in 1 .. Len(p.layers) : 0 + i = i
    OBVIOUS
  <2> QED
    BY <1>1, <2>1 DEF LayersListed
<1>5. AnswerHonest'
  <2>1. phase'[Client] = "idle"
    BY <1>1, ClientType DEF QueryInv, CallTypeOK, RetryTypeOK
  <2> QED
    BY <2>1 DEF AnswerHonest
<1>6. ReadSoFar'
  <2>1. CASE query' = "paging"
    <3>1. Layer' = layers[Head(p.layers)] /\ Head(p.layers) \in Layers
      BY <1>1, <1>2, <2>1, HeadTailProperties DEF Layer
    <3>2. Len(Layer') \in Nat
      BY <3>1, LayerType DEF QueryInv, PagingTypeOK
    <3>3. SubSeq(Layer', 1, 0) = <<>>
      BY SubSeqEmpty
    <3>4. <<>> \in ItemsOf(p) /\ SoFar(p, layers, <<>>, 0, <<>>)
      BY NothingSoFar
    <3>5. offset' <= Len(Layer')
      BY <1>1, <3>2
    <3>6. (items \in ItemsOf(product))'
      BY <1>1, <3>4
    <3>7. SubSeq(Layer', 1, offset') = <<>>
      BY <1>1, <3>3
    <3>8. SoFar(product', layers', items', ended', SubSeq(Layer', 1, offset'))
      BY <1>1, <3>4, <3>7
    <3> QED
      BY <3>5, <3>6, <3>8 DEF ReadSoFar
  <2>2. CASE query' # "paging"
    BY <2>2 DEF ReadSoFar
  <2> QED
    BY <2>1, <2>2
<1>7. AllRead'
  BY <1>1 DEF AllRead
<1> QED
  BY <1>3, <1>4, <1>5, <1>6, <1>7 DEF CompleteInv

LEMMA ReplyComplete ==
  ASSUME QueryInv, CompleteInv, Reply
  PROVE  CompleteInv'
<1>1. PICK a \in ServerAnswers :
         Answered(Client, a) /\ stable' = (stable /\ a \notin RunawayPages \ HonestPages)
  BY DEF Reply
<1>2. /\ query = "paging"
      /\ UNCHANGED <<layers, query, todo, offset, items, product, ended>>
  BY DEF Reply, queryVars, pagerVars
<1>3. Answer' = a
  BY <1>1, ClientType DEF Answered, Answer, QueryInv, CallTypeOK, AnswersKept
<1>4. AnswerHonest'
  <2>1. /\ ServerAnswers' = ServerAnswers
        /\ HonestPages' = HonestPages /\ RunawayPages' = RunawayPages
    BY <1>2 DEF ServerAnswers, HonestPages, LastPages, RunawayPages, ErrorBodies,
           Garbage, Layer, Arrangements
  <2> QED
    BY <1>1, <1>3, <2>1 DEF AnswerHonest
<1>5. OrderKnown' /\ LayersListed'
  BY <1>2 DEF CompleteInv, OrderKnown, LayersListed
<1>6. ReadSoFar' /\ AllRead'
  <2>1. Layer' = Layer /\ (stable' => stable)
    BY <1>1, <1>2 DEF Layer
  <2> QED
    BY <1>2, <2>1 DEF CompleteInv, ReadSoFar, AllRead
<1> QED
  BY <1>4, <1>5, <1>6 DEF CompleteInv

(* While nothing moves, the page that is taken is an honest one. *)
LEMMA HonestRecords ==
  ASSUME QueryInv, CompleteInv, stable, PageReturned, PageError = NoError
  PROVE  \E l \in Arrangements, n \in offset .. Len(Layer) :
           /\ Answer.body.features = SubSeq(l, offset + 1, n)
           /\ Len(SubSeq(l, offset + 1, n)) = n - offset
           /\ Answer.body.more <=> n < Len(l)
<1>1. query = "paging" /\ phase[Client] = "done"
  BY DEF PageReturned
<1>2. Answer \in ServerAnswers /\ Answer \notin RunawayPages \ HonestPages
  BY <1>1 DEF CompleteInv, AnswerHonest
<1>3. Answer \notin FailedAnswers
  BY PageReturnedStep, AcceptedFeatures
<1>4. Answer \notin ErrorBodies /\ Answer \notin Garbage
  <2>1. BodyCode = "Ok"
    BY PageReturnedStep, AcceptedFeatures
  <2>2. Answer.body.what # "garbage" /\ Answer.body.what # "error"
    BY <2>1 DEF PageError, NoError, Error, FromArcGIS
  <2> QED
    BY <2>2 DEF ErrorBodies, Garbage, Body
<1>5. Answer \notin LastPages
  <2>1. offset <= Len(Layer) /\ offset \in Nat /\ Len(Layer) \in Nat
    BY <1>1, LayerKnown, PageReturnedStep DEF CompleteInv, ReadSoFar
  <2>2. ~(offset > Len(Layer))
    BY <2>1
  <2> QED
    BY <2>2 DEF LastPages
<1>6. Answer \in HonestPages
  BY <1>2, <1>3, <1>4, <1>5 DEF ServerAnswers
<1>7. PICK l \in Arrangements, n \in offset .. Len(Layer) :
         /\ Answer = Body("page", SubSeq(l, offset + 1, n), n < Len(l), 0)
         /\ Len(SubSeq(l, offset + 1, n)) = n - offset
  BY <1>1, <1>6, HonestPage
<1> QED
  BY <1>7 DEF Body

(* With it the items are a longer part of the layer. *)
LEMMA PageComplete ==
  ASSUME QueryInv, CompleteInv, stable, PageReturned, PageError = NoError
  PROVE  \E n \in offset .. Len(Layer) :
           /\ Len(Answer.body.features) = n - offset
           /\ Answer.body.more <=> n < Len(Layer)
           /\ items \o Taken(product, Answer.body.features) \in ItemsOf(product)
           /\ SoFar(product, layers, items \o Taken(product, Answer.body.features), ended,
                    SubSeq(Layer, 1, n))
<1>1. query = "paging"
  BY DEF PageReturned
<1>2. PICK l \in Arrangements, n \in offset .. Len(Layer) :
         /\ Answer.body.features = SubSeq(l, offset + 1, n)
         /\ Len(SubSeq(l, offset + 1, n)) = n - offset
         /\ Answer.body.more <=> n < Len(l)
  BY HonestRecords
<1> DEFINE f == Answer.body.features
           g == SubSeq(Layer, offset + 1, n)
           part == SubSeq(Layer, 1, offset)
<1>3. /\ Layer \in Contents /\ Len(Layer) \in Nat /\ Layer \in Seq(Record)
      /\ Len(l) = Len(Layer) /\ l \in Seq(Record)
  BY <1>1, <1>2, LayerKnown, RecordType
<1>4. offset \in Nat /\ n \in Nat /\ n <= Len(Layer) /\ offset <= n
  BY <1>2, <1>3, PageReturnedStep
<1>5. Len(g) = n - offset
  <2>1. Len(g) = IF offset < n THEN n - offset ELSE 0
    BY <1>3, <1>4, PageLength
  <2> QED
    BY <1>4, <2>1
<1>6. f \in Seq(Record) /\ g \in Seq(Record) /\ part \in Seq(Record)
  <2>1. \A i \in offset + 1 .. n : l[i] \in Record /\ Layer[i] \in Record
    BY <1>3, <1>4, ElementOfSeq
  <2>2. \A i \in 1 .. offset : Layer[i] \in Record
    BY <1>3, <1>4, ElementOfSeq
  <2>3. SubSeq(l, offset + 1, n) \in Seq(Record) /\ g \in Seq(Record)
    BY <1>4, <2>1, SubSeqProperties
  <2>4. part \in Seq(Record)
    BY <1>4, <2>2, SubSeqProperties
  <2> QED
    BY <1>2, <2>3, <2>4
<1>7. product.ordered => f = g
  BY <1>2 DEF Arrangements
<1>8. part \o g = SubSeq(Layer, 1, n)
  <2>1. 1 \in 1 .. Len(Layer) + 1 /\ offset \in 1 - 1 .. Len(Layer) /\ n \in offset .. Len(Layer)
    BY <1>3, <1>4
  <2> QED
    BY <1>3, <2>1, ConcatAdjacentSubSeq
<1>9. items \in ItemsOf(product) /\ SoFar(product, layers, items, ended, part)
  BY <1>1 DEF CompleteInv, ReadSoFar
<1>10. Reads(product, layers) /\ ended \in Nat /\ ended <= Len(product.layers)
  <2>1. Reads(product, layers)
    BY QueryReads
  <2>2. /\ ended \in Nat /\ Len(todo) \in Nat /\ Len(product.layers) \in Nat
        /\ ended + Len(todo) = Len(product.layers)
    BY PageReturnedStep
  <2> QED
    BY <2>1, <2>2
<1>11. Len(f) = n - offset /\ Len(f) = Len(g) /\ (Answer.body.more <=> n < Len(Layer))
  BY <1>2, <1>3, <1>5
<1> HIDE DEF f, g, part
<1>12. items \o Taken(product, f) \in ItemsOf(product)
  BY <1>6, <1>9, TakenRecords
<1>13. SoFar(product, layers, items \o Taken(product, f), ended, part \o g)
  BY <1>6, <1>7, <1>9, <1>10, <1>11, PageSoFar
<1> QED
  BY <1>8, <1>11, <1>12, <1>13 DEF f

LEMMA PageAcceptedComplete ==
  ASSUME QueryInv, CompleteInv, PageAccepted
  PROVE  CompleteInv'
<1> DEFINE new == items \o Taken(product, Answer.body.features)
<1>1. PageReturned /\ PageError = NoError
  BY DEF PageAccepted
<1>2. /\ query = "paging" /\ UNCHANGED <<layers, product, stable>>
      /\ phase' = [phase EXCEPT ![Client] = "idle"]
  BY <1>1 DEF PageReturned
<1>3. /\ todo # <<>> /\ todo \in Seq(Layers) /\ Len(todo) \in Nat
      /\ ended \in Nat /\ ended + Len(todo) = Len(product.layers)
      /\ Len(product.layers) \in Nat
      /\ pages \in Nat /\ MaxPages \in Nat /\ offset \in Nat
  BY <1>1, PageReturnedStep, PolicyHolds
<1>4. OrderKnown'
  BY <1>2 DEF CompleteInv, OrderKnown
<1>5. AnswerHonest'
  <2>1. phase'[Client] = "idle"
    BY <1>2, ClientType DEF QueryInv, CallTypeOK, RetryTypeOK
  <2> QED
    BY <2>1 DEF AnswerHonest
<1>6. ASSUME stable
      PROVE  \E n \in offset .. Len(Layer) :
               /\ Len(Answer.body.features) = n - offset
               /\ Answer.body.more <=> n < Len(Layer)
               /\ new \in ItemsOf(product)
               /\ SoFar(product, layers, new, ended, SubSeq(Layer, 1, n))
  BY <1>1, <1>6, PageComplete
<1>7. Len(Layer) \in Nat /\ Layer \in Contents
  BY <1>2, LayerKnown
<1> HIDE DEF new
<1>8. CASE /\ HasMore
           /\ Advance
           /\ items' = new
           /\ UNCHANGED <<query, todo, error, ended>>
  <2>1. LayersListed' /\ AllRead'
    BY <1>2, <1>8 DEF CompleteInv, LayersListed, AllRead
  <2>2. ReadSoFar'
    <3>1. CASE stable
      <4>1. PICK n \in offset .. Len(Layer) :
               /\ Len(Answer.body.features) = n - offset
               /\ new \in ItemsOf(product)
               /\ SoFar(product, layers, new, ended, SubSeq(Layer, 1, n))
        BY <1>6, <3>1
      <4>2. offset' = n /\ n <= Len(Layer)
        BY <1>3, <1>7, <1>8, <4>1 DEF Advance
      <4>3. Layer' = Layer
        BY <1>2, <1>8 DEF Layer
      <4> QED
        BY <1>2, <1>8, <4>1, <4>2, <4>3 DEF ReadSoFar
    <3>2. CASE ~stable
      BY <1>2, <3>2 DEF ReadSoFar
    <3> QED
      BY <3>1, <3>2
  <2> QED
    BY <1>4, <1>5, <2>1, <2>2 DEF CompleteInv
<1>9. CASE Fail(Error("ServerError", 0))
  BY <1>4, <1>5, <1>9 DEF Fail, CompleteInv, LayersListed, ReadSoFar, AllRead
<1>10. CASE /\ ~HasMore /\ ~PageLimitReached
            /\ items' = new
            /\ todo' = Tail(todo)
            /\ NewPager
            /\ ended' = IF Answer.body.more THEN ended ELSE ended + 1
            /\ query' = IF Len(todo) = 1 THEN "ok" ELSE "paging"
  <2>1. ~Answer.body.more
    BY <1>3, <1>10 DEF HasMore, PageLimitReached
  <2>2. ended' = ended + 1 /\ offset' = 0
    BY <1>10, <2>1 DEF NewPager
  <2>3. /\ Tail(todo) \in Seq(Layers) /\ Len(Tail(todo)) = Len(todo) - 1
        /\ \A i \in 1 .. Len(Tail(todo)) : Tail(todo)[i] = todo[i + 1]
    BY <1>3, HeadTailProperties
  <2>4. Len(todo) # 0
    BY <1>3, HeadTailProperties, LenProperties
  <2>5. \A i \in 1 .. Len(todo) : todo[i] = product.layers[ended + i]
    BY <1>2 DEF CompleteInv, LayersListed
  <2>6. LayersListed'
    <3>1. ASSUME NEW i \in 1 .. Len(Tail(todo))
          PROVE  Tail(todo)[i] = product.layers[(ended + 1) + i]
      <4>1. i + 1 \in 1 .. Len(todo) /\ (ended + 1) + i = ended + (i + 1)
        BY <1>3, <2>3
      <4> QED
        BY <2>3, <2>5, <4>1
    <3> QED
      BY <1>2, <1>10, <2>2, <3>1 DEF LayersListed
  <2>7. ASSUME stable
        PROVE  SoFar(product, layers, new, ended + 1, <<>>) /\ new \in ItemsOf(product)
    <3>1. PICK n \in offset .. Len(Layer) :
             /\ Answer.body.more <=> n < Len(Layer)
             /\ new \in ItemsOf(product)
             /\ SoFar(product, layers, new, ended, SubSeq(Layer, 1, n))
      BY <1>6, <2>7
    <3>2. n = Len(Layer)
      BY <1>3, <1>7, <2>1, <3>1
    <3>3. SubSeq(Layer, 1, Len(Layer)) = Layer
      BY <1>7, LayerType, SubSeqFull
    <3>4. Layer = layers[product.layers[ended + 1]]
      <4>1. Head(todo) = todo[1] /\ 1 \in 1 .. Len(todo)
        BY <1>3, <2>4
      <4> QED
        BY <2>5, <4>1 DEF Layer
    <3>5. SoFar(product, layers, new, ended, layers[product.layers[ended + 1]])
      BY <3>1, <3>2, <3>3, <3>4
    <3>6. Reads(product, layers) /\ ended + 1 <= Len(product.layers)
      BY <1>3, <2>4, QueryReads
    <3> QED
      BY <1>3, <3>1, <3>5, <3>6, LayerSoFar
  <2>8. AllRead'
    BY <1>2, <1>10, <2>2, <2>7 DEF AllRead
  <2>9. ReadSoFar'
    <3>1. CASE stable' /\ query' = "paging"
      <4>1. Len(todo) # 1
        BY <1>10, <3>1
      <4>2. Layer' \in Contents
        <5>1. Tail(todo) # <<>>
          <6>1. Len(<<>>) = 0
            OBVIOUS
          <6>2. Len(Tail(todo)) # 0
            BY <1>3, <2>3, <4>1
          <6> QED
            BY <6>1, <6>2
        <5>2. Head(Tail(todo)) \in Layers
          BY <2>3, <5>1, HeadTailProperties
        <5> QED
          BY <1>2, <1>10, <5>2 DEF Layer, QueryInv, PagingTypeOK
      <4>3. offset' <= Len(Layer')
        BY <2>2, <4>2, LayerType
      <4>4. SubSeq(Layer', 1, offset') = <<>>
        BY <2>2, SubSeqEmpty
      <4>5. (items \in ItemsOf(product))'
        BY <1>2, <1>10, <2>7, <3>1
      <4>6. SoFar(product', layers', items', ended', SubSeq(Layer', 1, offset'))
        BY <1>2, <1>10, <2>2, <2>7, <3>1, <4>4
      <4> QED
        BY <4>3, <4>5, <4>6 DEF ReadSoFar
    <3>2. CASE ~(stable' /\ query' = "paging")
      BY <3>2 DEF ReadSoFar
    <3> QED
      BY <3>1, <3>2
  <2> QED
    BY <1>4, <1>5, <2>6, <2>8, <2>9 DEF CompleteInv
<1> QED
  BY <1>8, <1>9, <1>10 DEF PageAccepted, new

(* While nothing moves the items of a query are what it has read: the pages *)
(* of an ordered layer one after the other, of an unordered one as many     *)
(* records. *)
LEMMA CompleteInvariant == Spec => [](QueryInv /\ CompleteInv)
<1>1. Init => CompleteInv
  BY DEF Init, CompleteInv, OrderKnown, LayersListed, AnswerHonest, ReadSoFar, AllRead
<1>2. QueryInv /\ CompleteInv /\ [Next]_vars => CompleteInv'
  <2> SUFFICES ASSUME QueryInv, CompleteInv, [Next]_vars PROVE CompleteInv'
    OBVIOUS
  <2>1. CASE Tick
    BY <2>1, UnmovedComplete DEF Tick, RetryTick, queryVars, pagerVars
  <2>2. CASE Republish
    BY <2>2, RepublishComplete
  <2>3. ASSUME NEW p \in Products, StartQuery(p) PROVE CompleteInv'
    BY <2>3, StartQueryComplete
  <2>4. CASE RequestPage
    <3>1. phase'[Client] = "operating"
      BY <2>4, ClientType DEF RequestPage, StartCall, QueryInv, CallTypeOK, RetryTypeOK
    <3>2. /\ UNCHANGED <<layers, query, todo, offset, items, product, ended>>
          /\ stable' = stable
      BY <2>4 DEF RequestPage, StartCall, queryVars, pagerVars
    <3> QED
      BY <3>1, <3>2, UnmovedComplete
  <2>5. CASE Reply
    BY <2>5, ReplyComplete
  <2>6. CASE Resume
    <3>1. phase'[Client] = "operating"
      BY <2>6, ClientType DEF Resume, NextAttempt, QueryInv, CallTypeOK, RetryTypeOK
    <3>2. /\ UNCHANGED <<layers, query, todo, offset, items, product, ended>>
          /\ stable' = stable
      BY <2>6 DEF Resume, NextAttempt, queryVars, pagerVars
    <3> QED
      BY <3>1, <3>2, UnmovedComplete
  <2>7. CASE PageFails
    BY <2>7 DEF PageFails, PageReturned, Fail, CompleteInv, OrderKnown, LayersListed,
       AnswerHonest, ReadSoFar, AllRead
  <2>8. CASE PageAccepted
    BY <2>8, PageAcceptedComplete
  <2>9. CASE UNCHANGED vars
    BY <2>9, UnmovedComplete DEF vars, retryVars, queryVars, pagerVars
  <2> QED
    BY <2>1, <2>2, <2>3, <2>4, <2>5, <2>6, <2>7, <2>8, <2>9 DEF Next, Step
<1>3. Spec => []QueryInv
  BY QueryInvariant
<1> QED
  BY <1>1, <1>2, <1>3, PTL DEF Spec

(***************************************************************************)
(* A query that succeeds while its layers stay as they were, against a     *)
(* server that does not lie, returns every record of every layer once and  *)
(* in order, however short the pages, whatever the layers hold and however *)
(* often a page was retried; without an order it returns as many.          *)
(***************************************************************************)
THEOREM StableResultsAreComplete == Spec => []StableResultIsComplete
<1>1. QueryInv /\ CompleteInv => StableResultIsComplete
  <2> SUFFICES ASSUME QueryInv, CompleteInv, query = "ok", stable
               PROVE  IF product.ordered THEN Records = Published
                      ELSE Len(Records) = Len(Published)
    BY DEF StableResultIsComplete
  <2> DEFINE n == Len(product.layers)
  <2>1. Reads(product, layers) /\ n \in Nat /\ ended = n
    BY QueryReads, LenProperties DEF Reads, QueryInv, LayersInOrder
  <2>2. SoFar(product, layers, items, n, <<>>)
    BY <2>1 DEF CompleteInv, AllRead
  <2>3. FlattenSeq(Parts(product, layers, n)) \o <<>> = FlattenSeq(Parts(product, layers, n))
    <3>1. Parts(product, layers, n) \in Seq(Seq(Record))
      BY <2>1, PartsType
    <3>2. FlattenSeq(Parts(product, layers, n)) \in Seq(Record)
      BY <3>1, FlattenType
    <3> QED
      BY <3>2, ConcatEmptySeq
  <2>4. Published = FlattenSeq(Parts(product, layers, n))
    <3>1. DOMAIN product.layers = 1 .. n
      BY <2>1, LenProperties DEF Reads
    <3> QED
      BY <3>1 DEF Published, Parts, ReadOf
  <2>5. Records = RecordsOf(product, items)
    BY DEF Records, RecordsOf
  <2> QED
    BY <2>2, <2>3, <2>4, <2>5, ReadNothing DEF SoFar
<1> QED
  BY <1>1, CompleteInvariant, PTL

=============================================================================
