-------------------------- MODULE HttpPool_proofs ---------------------------
(***************************************************************************)
(* The pool of libcurl handles, for any number of threads, clients and     *)
(* idle handles, any limit and any body.  The inductive invariant PoolInv  *)
(* says who owns a handle, what keeps libcurl up, and what a call has on   *)
(* its stack at each of its steps.                                         *)
(***************************************************************************)
EXTENDS HttpPool, InductionFacts, TLAPS, FunctionTheorems, SequenceTheorems,
        FiniteSetTheorems

Holding == {"prepare", "transfer", "classify", "checkin"}

(* An open handle is held by one thread or kept at one place of one pool;  *)
(* what is held or kept is open. *)
HandlesOwned ==
    /\ \A t \in Threads : held[t] # NoHandle <=> pc[t] \in Holding
    /\ \A t \in Threads : held[t] # NoHandle => held[t] \in open
    /\ \A i \in Impls : \A k \in 1 .. Len(idle[i]) : idle[i][k] \in open
    /\ \A h \in open :
          \/ \E t \in Threads : held[t] = h
          \/ \E i \in Impls : \E k \in 1 .. Len(idle[i]) : idle[i][k] = h
    /\ \A t, u \in Threads : held[t] # NoHandle /\ held[t] = held[u] => t = u
    /\ \A t \in Threads, i \in Impls :
          \A k \in 1 .. Len(idle[i]) : held[t] # idle[i][k]
    /\ \A i, j \in Impls :
          \A k \in 1 .. Len(idle[i]), l \in 1 .. Len(idle[j]) :
             idle[i][k] = idle[j][l] => i = j /\ k = l

(* A client that exists has a reference, and libcurl is up wherever a       *)
(* handle is kept or a call is under way. *)
CurlHeld ==
    /\ \A i \in Impls : client[i] # "none" <=> i \in refs
    /\ refs # {} => curl \in {"ready", "failed"}
    /\ \A i \in Impls : idle[i] # <<>> => i \in refs /\ curl = "ready"
    /\ \A t \in Threads : on[t] # NoImpl <=> pc[t] # "idle"
    /\ \A t \in Threads :
          on[t] # NoImpl => client[on[t]] = "live" /\ curl = "ready"

Within(s) == ResponseLimit > 0 => s.sent <= ResponseLimit

(* A sink that has taken everything that was sent. *)
Whole(s) == ~s.overflowed /\ ~s.failed /\ s.size = s.sent /\ Within(s)

(* What a call has gathered, step by step, and what its handle points to. *)
CallInOrder(t) ==
    /\ pc[t] \in {"idle", "checkout", "create", "prepare"} => sink[t] = EmptySink
    /\ pc[t] # "checkin" => result[t] = NoResult
    /\ pc[t] = "transfer" => Whole(sink[t]) /\ target[held[t]] = "mine"
    /\ pc[t] \in {"transfer", "classify"} => errors[held[t]] # "stale"
    /\ pc[t] = "classify" =>
          /\ rc[t] = "OK" => Whole(sink[t])
          /\ ~Within(sink[t]) => sink[t].overflowed
    /\ pc[t] = "checkin" =>
          /\ result[t].text # "stale"
          /\ result[t].code = "Response" => result[t].complete /\ Within(sink[t])
          /\ ~Within(sink[t]) => result[t].code = "InvalidRequest"

CallsInOrder == \A t \in Threads : CallInOrder(t)

PoolInv == PoolTypeOK /\ HandlesOwned /\ CurlHeld /\ CallsInOrder

-----------------------------------------------------------------------------
(* What the proofs need of sequences and of the set of addresses.           *)

LEMMA FrontAndLast ==
  ASSUME NEW S, NEW s \in Seq(S), s # <<>>
  PROVE  /\ Len(s) \in Nat \ {0}
         /\ Front(s) \in Seq(S) /\ Len(Front(s)) = Len(s) - 1
         /\ \A k \in 1 .. Len(s) - 1 : Front(s)[k] = s[k]
         /\ Last(s) = s[Len(s)] /\ Last(s) \in S
<1>1. Len(s) \in Nat \ {0} /\ \A k \in 1 .. Len(s) : s[k] \in S
  OBVIOUS
<1> DEFINE n == Len(s) - 1
<1>2. n \in Nat /\ \A k \in 1 .. n : s[k] \in S
  BY <1>1
<1> HIDE DEF n
<1>3. /\ SubSeq(s, 1, n) \in Seq(S)
      /\ Len(SubSeq(s, 1, n)) = IF 1 <= n THEN n - 1 + 1 ELSE 0
      /\ \A k \in 1 .. n - 1 + 1 : SubSeq(s, 1, n)[k] = s[1 + k - 1]
  BY <1>2, SubSeqProperties
<1>4. Front(s) = SubSeq(s, 1, n)
  BY DEF Front, n
<1>5. /\ Front(s) \in Seq(S) /\ Len(Front(s)) = n
      /\ \A k \in 1 .. n : Front(s)[k] = s[k]
  BY <1>2, <1>3, <1>4
<1> QED
  BY <1>1, <1>5 DEF Last, n

LEMMA HeadAndTail ==
  ASSUME NEW S, NEW s \in Seq(S), s # <<>>
  PROVE  /\ Len(s) \in Nat \ {0}
         /\ Tail(s) \in Seq(S) /\ Len(Tail(s)) = Len(s) - 1
         /\ \A k \in 1 .. Len(s) - 1 : Tail(s)[k] = s[k + 1]
         /\ Head(s) = s[1] /\ Head(s) \in S
OBVIOUS

LEMMA HandlesAreNumbers ==
  ASSUME HttpPoolAssumption
  PROVE  /\ Cardinality(Threads) + MaxIdleHandles * Cardinality(Impls) \in Nat
         /\ Handles \subseteq Nat /\ NoHandle \notin Handles
<1>1. Cardinality(Threads) \in Nat /\ Cardinality(Impls) \in Nat
  BY FS_CardinalityType DEF HttpPoolAssumption
<1>2. MaxIdleHandles * Cardinality(Impls) \in Nat
  BY <1>1, Z3T(30) DEF HttpPoolAssumption
<1> QED
  BY <1>1, <1>2 DEF Handles, NoHandle

(* A nonempty set of naturals has a least member, and Min finds it. *)
LEMMA MinIsLeast ==
  ASSUME NEW S \in SUBSET Nat, S # {}
  PROVE  Min(S) \in S /\ \A x \in S : Min(S) <= x
<1>1. \E x \in S : \A y \in S : x <= y
  BY LeastMember
<1> QED
  BY <1>1 DEF Min

-----------------------------------------------------------------------------
(* Every open handle has an owner of its own, so there are no more of them  *)
(* than threads in T and places in the pools of I, if no other thread holds *)
(* one and no other client keeps one.                                       *)
LEMMA OpenIsBounded ==
  ASSUME HttpPoolAssumption, PoolTypeOK, HandlesOwned,
         NEW T \in SUBSET Threads, NEW I \in SUBSET Impls,
         \A t \in Threads : held[t] # NoHandle => t \in T,
         \A i \in Impls : idle[i] # <<>> => i \in I
  PROVE  /\ IsFiniteSet(open)
         /\ Cardinality(open) <= Cardinality(T) + MaxIdleHandles * Cardinality(I)
<1> DEFINE Places == I \X (1 .. MaxIdleHandles)
           At(p, h) == p[2] <= Len(idle[p[1]]) /\ idle[p[1]][p[2]] = h
           Used == {h \in open : \E t \in T : held[t] = h}
           Kept == {h \in open : \E p \in Places : At(p, h)}
           user == [h \in Used |-> CHOOSE t \in T : held[t] = h]
           place == [h \in Kept |-> CHOOSE p \in Places : At(p, h)]
<1>1. /\ IsFiniteSet(T) /\ Cardinality(T) \in Nat
      /\ IsFiniteSet(I) /\ Cardinality(I) \in Nat
      /\ MaxIdleHandles \in Nat
  BY FS_Subset, FS_CardinalityType DEF HttpPoolAssumption
<1>2. /\ IsFiniteSet(Places)
      /\ Cardinality(Places) = MaxIdleHandles * Cardinality(I)
  <2>1. /\ IsFiniteSet(1 .. MaxIdleHandles)
        /\ Cardinality(1 .. MaxIdleHandles) = MaxIdleHandles
    BY <1>1, CountingUp
  <2>2. /\ IsFiniteSet(Places)
        /\ Cardinality(Places) = Cardinality(I) * MaxIdleHandles
    BY <1>1, <2>1, FS_Product
  <2>3. Cardinality(I) * MaxIdleHandles = MaxIdleHandles * Cardinality(I)
    BY <1>1, Z3T(30)
  <2> QED
    BY <2>2, <2>3
<1>3. IsFiniteSet(Used) /\ Cardinality(Used) <= Cardinality(T)
  <2>1. \A h \in Used : user[h] \in T /\ held[user[h]] = h
    OBVIOUS
  <2>2. user \in Injection(Used, T)
    <3>1. user \in [Used -> T]
      BY <2>1
    <3>2. \A g, h \in Used : user[g] = user[h] => g = h
      BY <2>1
    <3> HIDE DEF user
    <3> QED
      BY <3>1, <3>2, Fun_IsInj
  <2> HIDE DEF user, Used
  <2> QED
    BY <1>1, <2>2, FS_Injection
<1>4. IsFiniteSet(Kept) /\ Cardinality(Kept) <= Cardinality(Places)
  <2> HIDE DEF Places
  <2>1. \A h \in Kept : place[h] \in Places /\ At(place[h], h)
    <3> HIDE DEF At
    <3> QED
      OBVIOUS
  <2>2. place \in Injection(Kept, Places)
    <3>1. place \in [Kept -> Places]
      BY <2>1
    <3>2. \A g, h \in Kept : place[g] = place[h] => g = h
      BY <2>1
    <3> HIDE DEF place
    <3> QED
      BY <3>1, <3>2, Fun_IsInj
  <2> HIDE DEF place, Kept
  <2> QED
    BY <1>2, <2>2, FS_Injection DEF Places
<1>5. open = Used \cup Kept
  <2>1. ASSUME NEW h \in open PROVE h \in Used \cup Kept
    <3>1. CASE \E t \in Threads : held[t] = h
      <4>1. PICK t \in Threads : held[t] = h
        BY <3>1
      <4>2. held[t] # NoHandle
        BY <4>1, HandlesAreNumbers DEF PoolTypeOK
      <4> QED
        BY <4>1, <4>2
    <3>2. CASE \E i \in Impls : \E k \in 1 .. Len(idle[i]) : idle[i][k] = h
      <4>1. PICK i \in Impls : \E k \in 1 .. Len(idle[i]) : idle[i][k] = h
        BY <3>2
      <4>2. PICK k \in 1 .. Len(idle[i]) : idle[i][k] = h
        BY <4>1
      <4>3. i \in I
        <5>1. idle[i] \in Seq(Handles)
          BY DEF PoolTypeOK
        <5>2. idle[i] # <<>>
          BY <4>2, <5>1
        <5> QED
          BY <5>2
      <4>5. <<i, k>> \in Places
        BY <1>1, <4>2, <4>3 DEF PoolTypeOK
      <4>4. At(<<i, k>>, h)
        BY <4>2
      <4> QED
        BY <4>4, <4>5
    <3> QED
      BY <3>1, <3>2 DEF HandlesOwned
  <2> QED
    BY <2>1
<1> HIDE DEF Used, Kept, Places
<1>6. /\ IsFiniteSet(Used \cup Kept)
      /\ Cardinality(Used \cup Kept)
            = Cardinality(Used) + Cardinality(Kept) - Cardinality(Used \cap Kept)
  BY <1>3, <1>4, FS_Union
<1>7. Cardinality(Used) \in Nat /\ Cardinality(Kept) \in Nat
      /\ Cardinality(Used \cap Kept) \in Nat
  BY <1>3, <1>4, FS_Intersection, FS_CardinalityType
<1>8. Cardinality(Used \cup Kept) <= Cardinality(T) + Cardinality(Places)
  BY <1>1, <1>2, <1>3, <1>4, <1>6, <1>7, HandlesAreNumbers
<1> QED
  BY <1>2, <1>5, <1>6, <1>8

(* A thread about to make a Connection finds a free address. *)
LEMMA FreshHandle ==
  ASSUME HttpPoolAssumption, PoolTypeOK, HandlesOwned,
         NEW t \in Threads, pc[t] = "create"
  PROVE  Min(Handles \ open) \in Handles \ open
<1> DEFINE n == Cardinality(Threads)
           m == MaxIdleHandles * Cardinality(Impls)
<1>1. n \in Nat /\ m \in Nat /\ Handles = 1 .. n + m /\ Handles \subseteq Nat
  <2>1. n \in Nat /\ Cardinality(Impls) \in Nat
    BY FS_CardinalityType DEF HttpPoolAssumption
  <2>2. m \in Nat
    BY <2>1, Z3T(30) DEF HttpPoolAssumption
  <2> QED
    BY <2>1, <2>2, HandlesAreNumbers DEF Handles
<1>2. \A u \in Threads : held[u] # NoHandle => u \in Threads \ {t}
  BY DEF HandlesOwned, Holding
<1>3. IsFiniteSet(open) /\ Cardinality(open) <= Cardinality(Threads \ {t}) + m
  BY <1>2, OpenIsBounded
<1>4. Cardinality(Threads \ {t}) = n - 1
  BY FS_RemoveElement DEF HttpPoolAssumption
<1>5. Cardinality(Handles) = n + m
  <2> HIDE DEF n, m
  <2> QED
    BY <1>1, CountingUp
<1> HIDE DEF n, m
<1>6. Cardinality(open) < Cardinality(Handles)
  <2>1. Cardinality(open) \in Nat
    BY <1>3, FS_CardinalityType
  <2> QED
    BY <1>1, <1>3, <1>4, <1>5, <2>1
<1>7. Handles \ open # {}
  <2>1. SUFFICES ASSUME Handles \ open = {} PROVE FALSE
    OBVIOUS
  <2>2. open = Handles
    BY <2>1 DEF PoolTypeOK
  <2>3. Cardinality(Handles) \in Nat
    BY <1>1, <1>5
  <2> QED
    BY <1>6, <2>2, <2>3
<1>8. Handles \ open \in SUBSET Nat
  BY <1>1
<1> QED
  BY <1>7, <1>8, MinIsLeast

-----------------------------------------------------------------------------
(* The invariant holds at first.                                            *)
LEMMA InitPool ==
  ASSUME HttpPoolAssumption, Init
  PROVE  PoolInv
<1>1. PoolTypeOK
  BY DEF HttpPoolAssumption, Init, PoolTypeOK, Steps, Texts, Outcomes, EmptySink, NoResult, Sinks, Results
<1>2. HandlesOwned
  BY DEF Init, HandlesOwned, Holding
<1>3. CurlHeld
  BY DEF Init, CurlHeld
<1>4. CallsInOrder
  BY DEF Init, CallsInOrder, CallInOrder
<1> QED
  BY <1>1, <1>2, <1>3, <1>4 DEF PoolInv

(* What a chunk makes of a sink, and what may follow.                       *)
LEMMA Received ==
  ASSUME HttpPoolAssumption, PoolTypeOK, CallsInOrder, NEW t \in Threads, Receive(t)
  PROVE  \E s \in Sinks :
            /\ sink' = [sink EXCEPT ![t] = s]
            /\ \/ Whole(s) /\ UNCHANGED <<pc, rc, errors>>
               \/ TransferEnds(t, "OTHER") /\ (~Within(s) => s.overflowed)
<1>1. PICK chunk \in 1 .. MaxBody - sink[t].sent :
         LET arrived == [sink[t] EXCEPT !.sent = @ + chunk] IN
         \/ /\ ~Overflows(t, chunk)
            /\ sink' = [sink EXCEPT ![t] = [arrived EXCEPT !.size = @ + chunk]]
            /\ UNCHANGED <<pc, rc, errors>>
         \/ /\ sink' = [sink EXCEPT ![t] =
                           IF Overflows(t, chunk)
                           THEN [arrived EXCEPT !.overflowed = TRUE]
                           ELSE [arrived EXCEPT !.failed = TRUE]]
            /\ TransferEnds(t, "OTHER")
  BY DEF Receive
<1>2. /\ sink[t] \in Sinks /\ MaxBody \in Nat /\ ResponseLimit \in Nat
      /\ sink[t].size = sink[t].sent /\ Within(sink[t])
      /\ ~sink[t].overflowed /\ ~sink[t].failed
  BY DEF PoolTypeOK, CallsInOrder, CallInOrder, Receive, Whole, HttpPoolAssumption
<1>3. sink[t].sent + chunk \in 0 .. MaxBody /\ sink[t].size + chunk \in 0 .. MaxBody
  BY <1>2 DEF Sinks
<1> DEFINE arrived == [sink[t] EXCEPT !.sent = @ + chunk]
<1>4. CASE /\ ~Overflows(t, chunk)
           /\ sink' = [sink EXCEPT ![t] = [arrived EXCEPT !.size = @ + chunk]]
           /\ UNCHANGED <<pc, rc, errors>>
  <2> DEFINE s == [arrived EXCEPT !.size = @ + chunk]
  <2>1. s \in Sinks
    BY <1>2, <1>3 DEF Sinks
  <2>2. Whole(s)
    BY <1>2, <1>3, <1>4 DEF Sinks, Whole, Within, Overflows
  <2> QED
    BY <1>4, <2>1, <2>2
<1>5. CASE Overflows(t, chunk) /\ TransferEnds(t, "OTHER")
           /\ sink' = [sink EXCEPT ![t] = [arrived EXCEPT !.overflowed = TRUE]]
  <2> DEFINE s == [arrived EXCEPT !.overflowed = TRUE]
  <2>1. s \in Sinks /\ s.overflowed
    BY <1>2, <1>3 DEF Sinks
  <2> QED
    BY <1>5, <2>1
<1>6. CASE ~Overflows(t, chunk) /\ TransferEnds(t, "OTHER")
           /\ sink' = [sink EXCEPT ![t] = [arrived EXCEPT !.failed = TRUE]]
  <2> DEFINE s == [arrived EXCEPT !.failed = TRUE]
  <2>1. s \in Sinks
    BY <1>2, <1>3 DEF Sinks
  <2>2. Within(s)
    BY <1>2, <1>3, <1>6 DEF Sinks, Within, Overflows
  <2> QED
    BY <1>6, <2>1, <2>2
<1> QED
  BY <1>1, <1>4, <1>5, <1>6

LEMMA BlankCall ==
  ASSUME HttpPoolAssumption
  PROVE  EmptySink \in Sinks /\ NoResult \in Results
BY DEF HttpPoolAssumption, EmptySink, Sinks, NoResult, Results, Outcomes, Texts

LEMMA FinishType ==
  ASSUME HttpPoolAssumption, PoolTypeOK, NEW t \in Threads, Finish(t)
  PROVE  /\ pc' \in [Threads -> Steps]
         /\ on' \in [Threads -> Impls \cup {NoImpl}]
         /\ held' \in [Threads -> Handles \cup {NoHandle}]
         /\ sink' \in [Threads -> Sinks]
         /\ rc' \in [Threads -> {"OK", "FILESIZE_EXCEEDED", "OTHER"}]
         /\ result' \in [Threads -> Results]
BY BlankCall DEF PoolTypeOK, Finish, Steps

(* The types, action by action.                                             *)
LEMMA TypeStep ==
  ASSUME HttpPoolAssumption, PoolInv, Next
  PROVE  PoolTypeOK'
<1>0. PoolTypeOK /\ HandlesOwned /\ CurlHeld /\ CallsInOrder
  BY DEF PoolInv
<1> USE <1>0 DEF poolVars, handleVars, callVars
<1>1. ASSUME NEW i \in Impls, Construct(i) PROVE PoolTypeOK'
  BY <1>1 DEF Construct, PoolTypeOK
<1>2. ASSUME NEW i \in Impls, Destroy(i) PROVE PoolTypeOK'
  BY <1>2 DEF Destroy, PoolTypeOK
<1>3. ASSUME NEW i \in Impls, CloseIdle(i) PROVE PoolTypeOK'
  <2>1. idle[i] \in Seq(Handles) /\ idle[i] # <<>> /\ Len(idle[i]) <= MaxIdleHandles
    BY <1>3 DEF CloseIdle, PoolTypeOK
  <2>2. Tail(idle[i]) \in Seq(Handles) /\ Len(Tail(idle[i])) <= MaxIdleHandles
    BY <2>1, HeadAndTail DEF HttpPoolAssumption
  <2> QED
    BY <1>3, <2>2 DEF CloseIdle, Closed, PoolTypeOK
<1>4. ASSUME NEW i \in Impls, DropRuntime(i) PROVE PoolTypeOK'
  BY <1>4 DEF DropRuntime, Release, PoolTypeOK
<1>5. CASE DropStatic
  BY <1>5 DEF DropStatic, Release, PoolTypeOK
<1>6. ASSUME NEW t \in Threads, NEW i \in Impls, Get(t, i) PROVE PoolTypeOK'
  BY <1>6 DEF Get, PoolTypeOK, Steps
<1>7. ASSUME NEW t \in Threads, Reuse(t) PROVE PoolTypeOK'
  <2> DEFINE i == on[t]
  <2>1. i \in Impls
    BY <1>7 DEF Reuse, CurlHeld, PoolTypeOK
  <2>2. idle[i] \in Seq(Handles) /\ idle[i] # <<>> /\ Len(idle[i]) <= MaxIdleHandles
    BY <1>7, <2>1 DEF Reuse, PoolTypeOK
  <2>3. /\ Front(idle[i]) \in Seq(Handles) /\ Len(Front(idle[i])) <= MaxIdleHandles
        /\ Last(idle[i]) \in Handles
    BY <2>2, FrontAndLast DEF HttpPoolAssumption
  <2> QED
    BY <1>7, <2>1, <2>3 DEF Reuse, PoolAfterReuse, PoolTypeOK, Steps
<1>8. ASSUME NEW t \in Threads, PoolIsEmpty(t) PROVE PoolTypeOK'
  BY <1>8 DEF PoolIsEmpty, PoolTypeOK, Steps
<1>9. ASSUME NEW t \in Threads, Create(t) PROVE PoolTypeOK'
  <2> DEFINE h == Min(Handles \ open)
  <2>1. h \in Handles /\ UNCHANGED poolVars
    BY <1>9, FreshHandle DEF Create
  <2> HIDE DEF h
  <2>2. CASE Finish(t) /\ UNCHANGED handleVars
    BY <2>1, <2>2, FinishType DEF PoolTypeOK
  <2>3. CASE /\ open' = open \cup {h}
             /\ errors' = [errors EXCEPT ![h] = "none"]
             /\ target' = [target EXCEPT ![h] = "none"]
             /\ held' = [held EXCEPT ![t] = h]
             /\ pc' = [pc EXCEPT ![t] = "prepare"]
             /\ UNCHANGED <<on, sink, rc, result>>
    BY <2>1, <2>3 DEF PoolTypeOK, Steps, Texts
  <2> QED
    BY <1>9, <2>2, <2>3 DEF Create, h
<1>10. ASSUME NEW t \in Threads, Prepare(t) PROVE PoolTypeOK'
  <2>1. errors' \in [Handles -> Texts] /\ target' \in [Handles -> Texts]
    BY <1>10 DEF Prepare, CleanErrors, PoolTypeOK, Texts
  <2>2. pc' \in [Threads -> Steps]
    BY <1>10 DEF Prepare, PoolTypeOK, Steps
  <2>3. result' \in [Threads -> Results]
    <3>1. result[t] \in Results
      BY DEF PoolTypeOK
    <3>2. \/ UNCHANGED result
          \/ \E code \in {"InvalidRequest", "NetworkError"} :
                result' = [result EXCEPT ![t].code = code]
      BY <1>10 DEF Prepare
    <3>3. ASSUME NEW code \in {"InvalidRequest", "NetworkError"},
                 result' = [result EXCEPT ![t].code = code]
          PROVE  result' \in [Threads -> Results]
      <4>1. [result[t] EXCEPT !.code = code] \in Results
        BY <3>1 DEF Results, Outcomes
      <4> QED
        BY <3>3, <4>1 DEF PoolTypeOK
    <3> QED
      BY <3>2, <3>3 DEF PoolTypeOK
  <2> QED
    BY <1>10, <2>1, <2>2, <2>3 DEF Prepare, PoolTypeOK
<1>11. ASSUME NEW t \in Threads, Receive(t) PROVE PoolTypeOK'
  <2>1. PICK s \in Sinks :
           /\ sink' = [sink EXCEPT ![t] = s]
           /\ \/ Whole(s) /\ UNCHANGED <<pc, rc, errors>>
              \/ TransferEnds(t, "OTHER") /\ (~Within(s) => s.overflowed)
    BY <1>11, Received
  <2>2. UNCHANGED <<poolVars, open, target, on, held, result>>
    BY <1>11 DEF Receive
  <2>3. sink' \in [Threads -> Sinks]
    BY <2>1 DEF PoolTypeOK
  <2>4. CASE UNCHANGED <<pc, rc, errors>>
    BY <2>2, <2>3, <2>4 DEF PoolTypeOK
  <2>5. CASE TransferEnds(t, "OTHER")
    BY <2>2, <2>3, <2>5 DEF TransferEnds, PoolTypeOK, Steps, Texts
  <2> QED
    BY <2>1, <2>4, <2>5
<1>12. ASSUME NEW t \in Threads, Complete(t) PROVE PoolTypeOK'
  BY <1>12 DEF Complete, TransferEnds, PoolTypeOK, Steps
<1>13. ASSUME NEW t \in Threads, Break(t) PROVE PoolTypeOK'
  BY <1>13 DEF Break, TransferEnds, PoolTypeOK, Steps, Texts
<1>14. ASSUME NEW t \in Threads, Classify(t) PROVE PoolTypeOK'
  <2>1. held[t] \in Handles
    BY <1>14 DEF Classify, HandlesOwned, Holding, PoolTypeOK
  <2>2. result' \in [Threads -> Results]
    <3>1. PICK code \in Verdict(t), text \in {errors[held[t]], "none"} :
             result' = [result EXCEPT ![t] =
                          [code |-> code, text |-> text,
                           complete |-> sink[t].size = sink[t].sent]]
      BY <1>14 DEF Classify
    <3>2. code \in Outcomes /\ text \in Texts
      BY <2>1 DEF Verdict, Outcomes, Texts, PoolTypeOK
    <3> QED
      BY <3>1, <3>2 DEF Results, PoolTypeOK
  <2> QED
    BY <1>14, <2>2 DEF Classify, PoolTypeOK, Steps, Texts
<1>15. ASSUME NEW t \in Threads, Checkin(t) PROVE PoolTypeOK'
  <2>1. Finish(t) /\ UNCHANGED <<client, refs, curl, target>>
    BY <1>15 DEF Checkin
  <2>2. errors' \in [Handles -> Texts] /\ open' \subseteq Handles
    BY <1>15 DEF Checkin, Closed, PoolTypeOK, Texts
  <2>3. held[t] \in Handles
    BY <1>15 DEF Checkin, HandlesOwned, Holding, PoolTypeOK
  <2>4. /\ idle' \in [Impls -> Seq(Handles)]
        /\ \A i \in Impls : Len(idle'[i]) <= MaxIdleHandles
    <3> DEFINE i == on[t]
    <3>1. i \in Impls
      BY <1>15 DEF Checkin, CurlHeld, PoolTypeOK
    <3>2. CASE HasRoom(i)
      <4>1. Append(idle[i], held[t]) \in Seq(Handles)
            /\ Len(Append(idle[i], held[t])) <= MaxIdleHandles
        BY <2>3, <3>1, <3>2 DEF HasRoom, PoolTypeOK, HttpPoolAssumption
      <4> QED
        BY <1>15, <3>1, <3>2, <4>1 DEF Checkin, PoolTypeOK
    <3>3. CASE ~HasRoom(i)
      BY <1>15, <3>3 DEF Checkin, PoolTypeOK
    <3> QED
      BY <3>2, <3>3
  <2> QED
    BY <2>1, <2>2, <2>4, FinishType DEF PoolTypeOK
<1>16. ASSUME NEW t \in Threads, OutOfMemory(t) PROVE PoolTypeOK'
  <2>1. Finish(t) /\ open' \subseteq Handles /\ UNCHANGED <<poolVars, errors, target>>
    BY <1>16 DEF OutOfMemory, Closed, PoolTypeOK
  <2> QED
    BY <2>1, FinishType DEF PoolTypeOK
<1> QED
  BY <1>1, <1>2, <1>3, <1>4, <1>5, <1>6, <1>7, <1>8, <1>9, <1>10, <1>11, <1>12,
     <1>13, <1>14, <1>15, <1>16 DEF Next, ThreadStep

-----------------------------------------------------------------------------
(* Who owns a handle.  Most steps leave it alone.                           *)
LEMMA OwnedFrame ==
  ASSUME HandlesOwned, UNCHANGED <<idle, open, held>>,
         \A t \in Threads : pc'[t] \in Holding <=> pc[t] \in Holding
  PROVE  HandlesOwned'
BY DEF HandlesOwned

LEMMA OwnedByReuse ==
  ASSUME HttpPoolAssumption, PoolInv, NEW t \in Threads, Reuse(t)
  PROVE  HandlesOwned'
<1> DEFINE i == on[t]
           n == Len(idle[i])
           h == idle[i][n]
<1>0. PoolTypeOK /\ HandlesOwned /\ CurlHeld
  BY DEF PoolInv
<1>1. i \in Impls /\ held[t] = NoHandle /\ h # NoHandle /\ h \in open
  <2>0. pc[t] = "checkout" /\ idle[i] # <<>>
    BY DEF Reuse
  <2>1. i \in Impls /\ held[t] = NoHandle
    <3>1. on[t] # NoImpl /\ on[t] \in Impls \cup {NoImpl}
      BY <1>0, <2>0 DEF CurlHeld, PoolTypeOK
    <3>2. held[t] = NoHandle
      BY <1>0, <2>0 DEF HandlesOwned, Holding
    <3> QED
      BY <3>1, <3>2
  <2>2. h \in Handles /\ n \in 1 .. n
    BY <1>0, <2>0, <2>1, FrontAndLast DEF PoolTypeOK
  <2> QED
    BY <1>0, <2>1, <2>2, HandlesAreNumbers DEF HandlesOwned
<1>2. /\ n \in Nat \ {0} /\ \A j \in Impls : Len(idle[j]) \in Nat
      /\ Len(Front(idle[i])) = n - 1 /\ Last(idle[i]) = h
      /\ \A k \in 1 .. n - 1 : Front(idle[i])[k] = idle[i][k]
  <2>1. idle[i] \in Seq(Handles) /\ idle[i] # <<>>
    BY <1>0, <1>1 DEF Reuse, PoolTypeOK
  <2>2. \A j \in Impls : Len(idle[j]) \in Nat
    BY <1>0 DEF PoolTypeOK
  <2> QED
    BY <2>1, <2>2, FrontAndLast
<1> HIDE DEF h, n
<1>3. /\ idle' = [idle EXCEPT ![i] = Front(idle[i])]
      /\ held' = [held EXCEPT ![t] = h]
      /\ pc' = [pc EXCEPT ![t] = "prepare"]
      /\ open' = open
  BY <1>2 DEF Reuse, PoolAfterReuse, handleVars
<1>4. /\ \A j \in Impls \ {i} : idle'[j] = idle[j]
      /\ idle'[i] = Front(idle[i])
      /\ \A u \in Threads \ {t} : held'[u] = held[u] /\ pc'[u] = pc[u]
      /\ held'[t] = h /\ pc'[t] = "prepare"
  BY <1>0, <1>1, <1>3 DEF PoolTypeOK
<1>5. n \in 1 .. Len(idle[i]) /\ n = Len(idle[i]) /\ h = idle[i][n]
  BY <1>2 DEF n, h
<1>6. \A j \in Impls : \A k \in 1 .. Len(idle'[j]) :
         /\ k \in 1 .. Len(idle[j]) /\ idle'[j][k] = idle[j][k]
         /\ ~(j = i /\ k = n)
  <2> TAKE j \in Impls
  <2>1. CASE j = i
    BY <1>2, <1>4, <1>5, <2>1
  <2>2. CASE j # i
    BY <1>4, <2>2
  <2> QED
    BY <2>1, <2>2
<1>7. \A j \in Impls : \A k \in 1 .. Len(idle[j]) :
         \/ j = i /\ k = n
         \/ k \in 1 .. Len(idle'[j])
  <2> TAKE j \in Impls
  <2>1. CASE j = i
    BY <1>2, <1>4, <1>5, <2>1
  <2>2. CASE j # i
    BY <1>4, <2>2
  <2> QED
    BY <2>1, <2>2
<1> HIDE DEF i
<1>8. \A u \in Threads : held'[u] # NoHandle <=> pc'[u] \in Holding
  BY <1>0, <1>1, <1>4 DEF HandlesOwned, Holding
<1>9. \A u \in Threads : held'[u] # NoHandle => held'[u] \in open'
  BY <1>0, <1>1, <1>3, <1>4 DEF HandlesOwned
<1>10. \A j \in Impls : \A k \in 1 .. Len(idle'[j]) : idle'[j][k] \in open'
  BY <1>0, <1>3, <1>6 DEF HandlesOwned
<1>11. \A g \in open' :
          \/ \E u \in Threads : held'[u] = g
          \/ \E j \in Impls : \E k \in 1 .. Len(idle'[j]) : idle'[j][k] = g
  <2> SUFFICES ASSUME NEW g \in open
               PROVE  \/ \E u \in Threads : held'[u] = g
                      \/ \E j \in Impls : \E k \in 1 .. Len(idle'[j]) : idle'[j][k] = g
    BY <1>3
  <2>1. CASE \E u \in Threads : held[u] = g
    BY <1>0, <1>1, <1>4, <2>1, HandlesAreNumbers DEF PoolTypeOK
  <2>2. CASE \E j \in Impls : \E k \in 1 .. Len(idle[j]) : idle[j][k] = g
    BY <1>4, <1>6, <1>7, <1>5, <2>2
  <2> QED
    BY <1>0, <2>1, <2>2 DEF HandlesOwned
<1>12. \A u, v \in Threads : held'[u] # NoHandle /\ held'[u] = held'[v] => u = v
  BY <1>0, <1>1, <1>4, <1>5 DEF HandlesOwned
<1>13. \A u \in Threads, j \in Impls :
          \A k \in 1 .. Len(idle'[j]) : held'[u] # idle'[j][k]
  BY <1>0, <1>1, <1>4, <1>6, <1>5 DEF HandlesOwned
<1>14. \A j, l \in Impls : \A k \in 1 .. Len(idle'[j]), m \in 1 .. Len(idle'[l]) :
          idle'[j][k] = idle'[l][m] => j = l /\ k = m
  BY <1>0, <1>6 DEF HandlesOwned
<1> QED
  BY <1>8, <1>9, <1>10, <1>11, <1>12, <1>13, <1>14 DEF HandlesOwned

LEMMA OwnedByCreate ==
  ASSUME HttpPoolAssumption, PoolInv, NEW t \in Threads, Create(t)
  PROVE  HandlesOwned'
<1> DEFINE h == Min(Handles \ open)
<1>0. PoolTypeOK /\ HandlesOwned
  BY DEF PoolInv
<1>1. /\ pc[t] = "create" /\ held[t] = NoHandle /\ UNCHANGED idle
      /\ h \in Handles \ open /\ h # NoHandle
  <2>1. pc[t] = "create" /\ UNCHANGED idle
    BY DEF Create, poolVars
  <2>2. held[t] = NoHandle
    BY <1>0, <2>1 DEF HandlesOwned, Holding
  <2>3. h \in Handles \ open
    BY <1>0, <2>1, FreshHandle
  <2> QED
    BY <2>1, <2>2, <2>3, HandlesAreNumbers
<1>2. CASE Finish(t) /\ UNCHANGED handleVars
  BY <1>0, <1>1, <1>2 DEF Finish, handleVars, HandlesOwned, Holding, PoolTypeOK
<1>3. CASE /\ open' = open \cup {h}
           /\ held' = [held EXCEPT ![t] = h]
           /\ pc' = [pc EXCEPT ![t] = "prepare"]
  <2> HIDE DEF h
  <2>1. /\ \A u \in Threads \ {t} : held'[u] = held[u] /\ pc'[u] = pc[u]
        /\ held'[t] = h /\ pc'[t] = "prepare"
    BY <1>0, <1>3 DEF PoolTypeOK
  <2>2. \A u \in Threads : held'[u] # NoHandle <=> pc'[u] \in Holding
    BY <1>0, <1>1, <2>1 DEF HandlesOwned, Holding
  <2>3. /\ \A u \in Threads : held'[u] # NoHandle => held'[u] \in open'
        /\ \A i \in Impls : \A k \in 1 .. Len(idle'[i]) : idle'[i][k] \in open'
    BY <1>0, <1>1, <1>3, <2>1 DEF HandlesOwned
  <2>4. \A g \in open' :
           \/ \E u \in Threads : held'[u] = g
           \/ \E i \in Impls : \E k \in 1 .. Len(idle'[i]) : idle'[i][k] = g
    <3> TAKE g \in open'
    <3>1. CASE g = h
      BY <2>1, <3>1
    <3>2. CASE g \in open /\ \E u \in Threads : held[u] = g
      <4>1. PICK u \in Threads : held[u] = g
        BY <3>2
      <4>2. u # t
        BY <1>0, <1>1, <3>2, <4>1, HandlesAreNumbers DEF PoolTypeOK
      <4> QED
        BY <2>1, <4>1, <4>2
    <3>3. CASE g \in open /\ \E i \in Impls : \E k \in 1 .. Len(idle[i]) : idle[i][k] = g
      BY <1>1, <3>3
    <3> QED
      BY <1>0, <1>3, <3>1, <3>2, <3>3 DEF HandlesOwned
  <2>5. \A u, v \in Threads : held'[u] # NoHandle /\ held'[u] = held'[v] => u = v
    BY <1>0, <1>1, <2>1 DEF HandlesOwned
  <2>6. \A u \in Threads, i \in Impls :
           \A k \in 1 .. Len(idle'[i]) : held'[u] # idle'[i][k]
    BY <1>0, <1>1, <2>1 DEF HandlesOwned
  <2>7. \A i, j \in Impls : \A k \in 1 .. Len(idle'[i]), l \in 1 .. Len(idle'[j]) :
           idle'[i][k] = idle'[j][l] => i = j /\ k = l
    BY <1>0, <1>1 DEF HandlesOwned
  <2> QED
    BY <2>2, <2>3, <2>4, <2>5, <2>6, <2>7 DEF HandlesOwned
<1> QED
  BY <1>2, <1>3 DEF Create

LEMMA OwnedByCloseIdle ==
  ASSUME HttpPoolAssumption, PoolInv, NEW i \in Impls, CloseIdle(i)
  PROVE  HandlesOwned'
<1> DEFINE n == Len(idle[i])
           h == idle[i][1]
<1>0. PoolTypeOK /\ HandlesOwned
  BY DEF PoolInv
<1>1. /\ open' = open \ {h} /\ UNCHANGED <<pc, held>>
      /\ n \in Nat \ {0} /\ Len(Tail(idle[i])) = n - 1
      /\ \A k \in 1 .. n - 1 : Tail(idle[i])[k] = idle[i][k + 1]
  <2>1. idle[i] \in Seq(Handles) /\ idle[i] # <<>>
    BY <1>0 DEF CloseIdle, PoolTypeOK
  <2>2. Head(idle[i]) = h
    BY <2>1, HeadAndTail
  <2> QED
    BY <2>1, <2>2, HeadAndTail DEF CloseIdle, Closed, callVars
<1>2. /\ idle'[i] = Tail(idle[i])
      /\ \A j \in Impls \ {i} : idle'[j] = idle[j]
      /\ \A j \in Impls : Len(idle[j]) \in Nat
  BY <1>0 DEF CloseIdle, PoolTypeOK
<1>3. 1 \in 1 .. Len(idle[i]) /\ h = idle[i][1]
  BY <1>1
<1> DEFINE was(j, k) == IF j = i THEN k + 1 ELSE k
<1>4. \A j \in Impls : \A k \in 1 .. Len(idle'[j]) :
         /\ was(j, k) \in 1 .. Len(idle[j])
         /\ idle'[j][k] = idle[j][was(j, k)]
         /\ ~(j = i /\ was(j, k) = 1)
  <2>0. \A k \in 1 .. Len(idle'[i]) :
           k + 1 \in 1 .. Len(idle[i]) /\ idle'[i][k] = idle[i][k + 1] /\ k + 1 # 1
    BY <1>1, <1>2
  <2> TAKE j \in Impls
  <2>1. CASE j = i
    BY <2>0, <2>1
  <2>2. CASE j # i
    BY <1>2, <2>2
  <2> QED
    BY <2>1, <2>2
<1>5. \A j \in Impls : \A k \in 1 .. Len(idle[j]) :
         \/ j = i /\ k = 1
         \/ \E l \in 1 .. Len(idle'[j]) : idle'[j][l] = idle[j][k]
  <2>0. \A k \in 1 .. Len(idle[i]) :
           k # 1 => k - 1 \in 1 .. Len(idle'[i]) /\ idle'[i][k - 1] = idle[i][k]
    <3> TAKE k \in 1 .. Len(idle[i])
    <3> HAVE k # 1
    <3>1. k - 1 \in 1 .. n - 1 /\ k - 1 + 1 = k
      BY <1>1
    <3>2. Tail(idle[i])[k - 1] = idle[i][k - 1 + 1]
      BY <1>1, <3>1
    <3> QED
      BY <1>1, <1>2, <3>1, <3>2
  <2> TAKE j \in Impls
  <2>1. CASE j = i
    BY <2>0, <2>1
  <2>2. CASE j # i
    BY <1>2, <2>2
  <2> QED
    BY <2>1, <2>2
<1> HIDE DEF h, n
<1>6. /\ \A u \in Threads : held'[u] # NoHandle <=> pc'[u] \in Holding
      /\ \A u \in Threads : held'[u] # NoHandle => held'[u] \in open'
      /\ \A u, v \in Threads : held'[u] # NoHandle /\ held'[u] = held'[v] => u = v
  BY <1>0, <1>1, <1>3 DEF HandlesOwned
<1>7. \A j \in Impls : \A k \in 1 .. Len(idle'[j]) : idle'[j][k] \in open'
  <2> SUFFICES ASSUME NEW j \in Impls, NEW k \in 1 .. Len(idle'[j])
               PROVE  idle[j][was(j, k)] \in open \ {h}
    BY <1>1, <1>4
  <2> QED
    BY <1>0, <1>3, <1>4 DEF HandlesOwned
<1>8. \A g \in open' :
         \/ \E u \in Threads : held'[u] = g
         \/ \E j \in Impls : \E k \in 1 .. Len(idle'[j]) : idle'[j][k] = g
  <2> SUFFICES ASSUME NEW g \in open, g # h, \A u \in Threads : held'[u] # g
               PROVE  \E j \in Impls : \E k \in 1 .. Len(idle'[j]) : idle'[j][k] = g
    BY <1>1
  <2>1. PICK j \in Impls : \E k \in 1 .. Len(idle[j]) : idle[j][k] = g
    BY <1>0, <1>1 DEF HandlesOwned
  <2>2. PICK k \in 1 .. Len(idle[j]) : idle[j][k] = g
    BY <2>1
  <2>3. ~(j = i /\ k = 1)
    BY <1>3, <2>2
  <2> QED
    BY <1>5, <2>2, <2>3
<1>9. \A u \in Threads, j \in Impls :
         \A k \in 1 .. Len(idle'[j]) : held'[u] # idle'[j][k]
  BY <1>0, <1>1, <1>4 DEF HandlesOwned
<1>10. \A j, l \in Impls : \A k \in 1 .. Len(idle'[j]), m \in 1 .. Len(idle'[l]) :
          idle'[j][k] = idle'[l][m] => j = l /\ k = m
  <2> SUFFICES ASSUME NEW j \in Impls, NEW l \in Impls,
                      NEW k \in 1 .. Len(idle'[j]), NEW m \in 1 .. Len(idle'[l]),
                      idle'[j][k] = idle'[l][m]
               PROVE  j = l /\ k = m
    OBVIOUS
  <2>1. j = l /\ was(j, k) = was(l, m)
    <3> HIDE DEF was
    <3>1. /\ was(j, k) \in 1 .. Len(idle[j]) /\ was(l, m) \in 1 .. Len(idle[l])
          /\ idle[j][was(j, k)] = idle[l][was(l, m)]
      BY <1>4
    <3>2. HandlesOwned
      BY <1>0
    <3> QED
      BY <3>1, <3>2 DEF HandlesOwned
  <2> QED
    BY <2>1
<1> QED
  BY <1>6, <1>7, <1>8, <1>9, <1>10 DEF HandlesOwned

(* A call that ends may close the Connection it holds, wherever it was.     *)
LEMMA OwnedByClosing ==
  ASSUME HttpPoolAssumption, PoolInv, NEW t \in Threads, held[t] # NoHandle,
         open' = open \ {held[t]}, UNCHANGED idle, Finish(t)
  PROVE  HandlesOwned'
<1>0. PoolTypeOK /\ HandlesOwned
  BY DEF PoolInv
<1>1. /\ \A u \in Threads \ {t} : held'[u] = held[u] /\ pc'[u] = pc[u]
      /\ held'[t] = NoHandle /\ pc'[t] = "idle"
  BY <1>0 DEF Finish, PoolTypeOK
<1>2. /\ \A u \in Threads : held'[u] # NoHandle <=> pc'[u] \in Holding
      /\ \A u, v \in Threads : held'[u] # NoHandle /\ held'[u] = held'[v] => u = v
  BY <1>0, <1>1 DEF HandlesOwned, Holding
<1>3. \A u \in Threads : held'[u] # NoHandle => held'[u] \in open'
  BY <1>0, <1>1 DEF HandlesOwned
<1>4. \A i \in Impls : \A k \in 1 .. Len(idle'[i]) : idle'[i][k] \in open'
  BY <1>0 DEF HandlesOwned
<1>5. \A h \in open' :
         \/ \E u \in Threads : held'[u] = h
         \/ \E i \in Impls : \E k \in 1 .. Len(idle'[i]) : idle'[i][k] = h
  BY <1>0, <1>1 DEF HandlesOwned
<1>6. \A u \in Threads, i \in Impls :
         \A k \in 1 .. Len(idle'[i]) : held'[u] # idle'[i][k]
  <2> SUFFICES ASSUME NEW u \in Threads, NEW i \in Impls, NEW k \in 1 .. Len(idle[i])
               PROVE  held'[u] # idle[i][k]
    OBVIOUS
  <2>1. CASE u = t
    <3>1. idle[i][k] \in Handles
      BY <1>0 DEF PoolTypeOK
    <3> QED
      BY <1>1, <2>1, <3>1, HandlesAreNumbers
  <2>2. CASE u # t
    BY <1>0, <1>1, <2>2 DEF HandlesOwned
  <2> QED
    BY <2>1, <2>2
<1>7. \A i, j \in Impls : \A k \in 1 .. Len(idle'[i]), l \in 1 .. Len(idle'[j]) :
         idle'[i][k] = idle'[j][l] => i = j /\ k = l
  BY <1>0 DEF HandlesOwned
<1> QED
  BY <1>2, <1>3, <1>4, <1>5, <1>6, <1>7 DEF HandlesOwned

(* Or the Connection goes to the end of a pool. *)
LEMMA OwnedByKeeping ==
  ASSUME HttpPoolAssumption, PoolInv, NEW t \in Threads, held[t] # NoHandle,
         NEW i \in Impls, idle' = [idle EXCEPT ![i] = Append(@, held[t])],
         UNCHANGED open, Finish(t)
  PROVE  HandlesOwned'
<1> DEFINE n == Len(idle[i])
           h == held[t]
<1>0. PoolTypeOK /\ HandlesOwned
  BY DEF PoolInv
<1>1. /\ \A u \in Threads \ {t} : held'[u] = held[u] /\ pc'[u] = pc[u]
      /\ held'[t] = NoHandle /\ pc'[t] = "idle"
  BY <1>0 DEF Finish, PoolTypeOK
<1>2. /\ n \in Nat /\ h \in Handles /\ Len(idle'[i]) = n + 1 /\ idle'[i][n + 1] = h
      /\ \A k \in 1 .. n : idle'[i][k] = idle[i][k]
      /\ \A j \in Impls \ {i} : idle'[j] = idle[j]
  BY <1>0 DEF PoolTypeOK
<1> HIDE DEF h
<1>3. \A j \in Impls : \A k \in 1 .. Len(idle'[j]) :
         \/ j = i /\ k = n + 1 /\ idle'[j][k] = h
         \/ k \in 1 .. Len(idle[j]) /\ idle'[j][k] = idle[j][k]
  <2>1. \A k \in 1 .. Len(idle'[i]) :
           \/ k = n + 1 /\ idle'[i][k] = h
           \/ k \in 1 .. n /\ idle'[i][k] = idle[i][k]
    BY <1>2
  <2> QED
    BY <1>2, <2>1
<1>4. \A j \in Impls : \A k \in 1 .. Len(idle[j]) :
         k \in 1 .. Len(idle'[j]) /\ idle'[j][k] = idle[j][k]
  <2>1. \A k \in 1 .. n : k \in 1 .. Len(idle'[i]) /\ idle'[i][k] = idle[i][k]
    BY <1>2
  <2> QED
    BY <1>2, <2>1
<1>5. n + 1 \in 1 .. Len(idle'[i]) /\ idle'[i][n + 1] = h
  BY <1>2
<1> HIDE DEF n
<1>6. h = held[t] /\ h \in open /\ h # NoHandle
  BY <1>0 DEF h, HandlesOwned
<1>7. /\ \A u \in Threads : held'[u] # NoHandle <=> pc'[u] \in Holding
      /\ \A u \in Threads : held'[u] # NoHandle => held'[u] \in open'
      /\ \A u, v \in Threads : held'[u] # NoHandle /\ held'[u] = held'[v] => u = v
  BY <1>0, <1>1 DEF HandlesOwned, Holding
<1>8. \A j \in Impls : \A k \in 1 .. Len(idle'[j]) : idle'[j][k] \in open'
  BY <1>0, <1>3, <1>6 DEF HandlesOwned
<1>9. \A g \in open' :
         \/ \E u \in Threads : held'[u] = g
         \/ \E j \in Impls : \E k \in 1 .. Len(idle'[j]) : idle'[j][k] = g
  <2> SUFFICES ASSUME NEW g \in open
               PROVE  \/ \E u \in Threads : held'[u] = g
                      \/ \E j \in Impls : \E k \in 1 .. Len(idle'[j]) : idle'[j][k] = g
    OBVIOUS
  <2>1. CASE g = h
    BY <1>5, <2>1
  <2>2. CASE g # h
    BY <1>0, <1>1, <1>4, <1>6, <2>2 DEF HandlesOwned
  <2> QED
    BY <2>1, <2>2
<1>10. \A u \in Threads, j \in Impls :
          \A k \in 1 .. Len(idle'[j]) : held'[u] # idle'[j][k]
  <2> SUFFICES ASSUME NEW u \in Threads, NEW j \in Impls, NEW k \in 1 .. Len(idle'[j])
               PROVE  held'[u] # idle'[j][k]
    OBVIOUS
  <2>1. CASE u = t
    <3>1. idle'[j][k] \in open
      BY <1>8
    <3> QED
      BY <1>0, <1>1, <2>1, <3>1, HandlesAreNumbers DEF PoolTypeOK
  <2>2. CASE u # t
    BY <1>0, <1>1, <1>3, <1>6, <2>2 DEF HandlesOwned
  <2> QED
    BY <2>1, <2>2
<1>11. \A j, l \in Impls : \A k \in 1 .. Len(idle'[j]), m \in 1 .. Len(idle'[l]) :
          idle'[j][k] = idle'[l][m] => j = l /\ k = m
  BY <1>0, <1>3, <1>6 DEF HandlesOwned
<1> QED
  BY <1>7, <1>8, <1>9, <1>10, <1>11 DEF HandlesOwned

LEMMA OwnedStep ==
  ASSUME HttpPoolAssumption, PoolInv, Next
  PROVE  HandlesOwned'
<1>0. PoolTypeOK /\ HandlesOwned /\ CurlHeld
  BY DEF PoolInv
<1>1. ASSUME NEW i \in Impls, Construct(i) \/ Destroy(i) \/ DropRuntime(i)
      PROVE  HandlesOwned'
  BY <1>0, <1>1, OwnedFrame DEF Construct, Destroy, DropRuntime,
     handleVars, callVars
<1>2. ASSUME NEW i \in Impls, CloseIdle(i) PROVE HandlesOwned'
  BY <1>2, OwnedByCloseIdle
<1>3. ASSUME NEW t \in Threads, NEW i \in Impls, Get(t, i) PROVE HandlesOwned'
  BY <1>0, <1>3, OwnedFrame DEF Get, Holding, PoolTypeOK, poolVars, handleVars
<1>4. ASSUME NEW t \in Threads,
             \/ PoolIsEmpty(t) \/ Prepare(t) \/ Receive(t)
             \/ Complete(t) \/ Break(t) \/ Classify(t)
      PROVE  HandlesOwned'
  <2>1. UNCHANGED <<idle, open, held>>
    BY <1>4 DEF PoolIsEmpty, Prepare, Receive, Complete, Break, Classify,
       poolVars, handleVars
  <2>2. /\ \A u \in Threads \ {t} : pc'[u] = pc[u]
        /\ pc'[t] \in Holding <=> pc[t] \in Holding
    BY <1>0, <1>4 DEF PoolIsEmpty, Prepare, Receive, Complete, Break, Classify,
       TransferEnds, PoolTypeOK, Holding
  <2> QED
    BY <1>0, <2>1, <2>2, OwnedFrame
<1>5. ASSUME NEW t \in Threads, Reuse(t) PROVE HandlesOwned'
  BY <1>5, OwnedByReuse
<1>6. ASSUME NEW t \in Threads, Create(t) PROVE HandlesOwned'
  BY <1>6, OwnedByCreate
<1>7. ASSUME NEW t \in Threads, Checkin(t) PROVE HandlesOwned'
  <2>1. Finish(t) /\ held[t] # NoHandle
    BY <1>0, <1>7 DEF Checkin, HandlesOwned, Holding
  <2>2. on[t] \in Impls
    BY <1>0, <1>7 DEF Checkin, CurlHeld, PoolTypeOK
  <2>3. \/ idle' = [idle EXCEPT ![on[t]] = Append(@, held[t])] /\ UNCHANGED open
        \/ open' = open \ {held[t]} /\ UNCHANGED idle
    BY <1>7 DEF Checkin, Closed
  <2> QED
    BY <2>1, <2>2, <2>3, OwnedByKeeping, OwnedByClosing
<1>8. ASSUME NEW t \in Threads, OutOfMemory(t) PROVE HandlesOwned'
  <2>1. /\ Finish(t) /\ held[t] # NoHandle
        /\ open' = open \ {held[t]} /\ UNCHANGED idle
    BY <1>0, <1>8 DEF OutOfMemory, Closed, HandlesOwned, Holding, poolVars
  <2> QED
    BY <2>1, OwnedByClosing
<1>9. CASE DropStatic
  BY <1>0, <1>9, OwnedFrame DEF DropStatic, handleVars, callVars
<1> QED
  BY <1>1, <1>2, <1>3, <1>4, <1>5, <1>6, <1>7, <1>8, <1>9 DEF Next, ThreadStep

-----------------------------------------------------------------------------
(* What keeps libcurl up.                                                   *)
LEMMA CurlFrame ==
  ASSUME CurlHeld, UNCHANGED <<client, curl, refs, on>>,
         \A i \in Impls : idle'[i] # <<>> => i \in refs /\ curl = "ready",
         \A t \in Threads : pc'[t] = "idle" <=> pc[t] = "idle"
  PROVE  CurlHeld'
BY DEF CurlHeld

LEMMA CurlFinish ==
  ASSUME PoolTypeOK, CurlHeld, UNCHANGED <<client, curl, refs>>,
         \A i \in Impls : idle'[i] # <<>> => i \in refs /\ curl = "ready",
         NEW t \in Threads, Finish(t)
  PROVE  CurlHeld'
<1>1. /\ \A u \in Threads \ {t} : on'[u] = on[u] /\ pc'[u] = pc[u]
      /\ on'[t] = NoImpl /\ pc'[t] = "idle"
  BY DEF Finish, PoolTypeOK
<1> QED
  BY <1>1 DEF CurlHeld

LEMMA CurlStep ==
  ASSUME HttpPoolAssumption, PoolInv, Next
  PROVE  CurlHeld'
<1>0. PoolTypeOK /\ HandlesOwned /\ CurlHeld
  BY DEF PoolInv
<1>1. ASSUME NEW i \in Impls, Construct(i) PROVE CurlHeld'
  <2>1. /\ client[i] = "none" /\ i \notin refs /\ Static # i
        /\ client' = [client EXCEPT ![i] = "live"]
        /\ refs' = refs \cup {Static, i} /\ UNCHANGED <<idle, pc, on>>
    BY <1>0, <1>1 DEF Construct, CurlHeld, callVars, HttpPoolAssumption
  <2>2. CASE curl = "unborn" /\ curl' \in {"ready", "failed"}
    BY <1>0, <2>1, <2>2 DEF CurlHeld, PoolTypeOK, HttpPoolAssumption
  <2>3. CASE Static \in refs /\ UNCHANGED curl
    BY <1>0, <2>1, <2>3 DEF CurlHeld, PoolTypeOK, HttpPoolAssumption
  <2> QED
    BY <1>1, <2>2, <2>3 DEF Construct
<1>2. ASSUME NEW i \in Impls, Destroy(i) PROVE CurlHeld'
  BY <1>0, <1>2 DEF Destroy, CurlHeld, PoolTypeOK, handleVars, callVars, HttpPoolAssumption
<1>3. ASSUME NEW i \in Impls, CloseIdle(i) PROVE CurlHeld'
  <2>1. \A j \in Impls : idle'[j] # <<>> => idle[j] # <<>>
    BY <1>0, <1>3 DEF CloseIdle, PoolTypeOK
  <2> QED
    BY <1>0, <1>3, <2>1, CurlFrame DEF CloseIdle, CurlHeld, callVars
<1>4. ASSUME NEW i \in Impls, DropRuntime(i) PROVE CurlHeld'
  <2>1. /\ client[i] = "dying" /\ idle[i] = <<>> /\ UNCHANGED <<idle, pc, on>>
        /\ refs' = refs \ {i} /\ client' = [client EXCEPT ![i] = "none"]
        /\ curl' = IF refs' = {} /\ curl = "ready" THEN "cleaned" ELSE curl
    BY <1>4 DEF DropRuntime, HandlesGone, Release, callVars
  <2>2. \A j \in Impls \ {i} : idle[j] # <<>> => j \in refs'
    BY <1>0, <2>1 DEF CurlHeld
  <2>3. \A t \in Threads : on[t] # NoImpl =>
           client[on[t]] = "live" /\ on[t] # i /\ on[t] \in refs' /\ curl = "ready"
    BY <1>0, <2>1 DEF CurlHeld, PoolTypeOK
  <2> QED
    BY <1>0, <2>1, <2>2, <2>3 DEF CurlHeld, PoolTypeOK
<1>5. CASE DropStatic
  <2>1. /\ UNCHANGED <<client, idle, pc, on>> /\ refs' = refs \ {Static}
        /\ curl' = IF refs' = {} /\ curl = "ready" THEN "cleaned" ELSE curl
    BY <1>5 DEF DropStatic, Release, callVars
  <2>2. \A i \in Impls : i \in refs <=> i \in refs'
    BY <2>1 DEF HttpPoolAssumption
  <2>3. \A t \in Threads : on[t] # NoImpl =>
           client[on[t]] = "live" /\ on[t] \in refs' /\ curl = "ready"
    BY <1>0, <2>2 DEF CurlHeld, PoolTypeOK
  <2> QED
    BY <1>0, <2>1, <2>2, <2>3 DEF CurlHeld
<1>6. ASSUME NEW t \in Threads, NEW i \in Impls, Get(t, i) PROVE CurlHeld'
  <2>1. /\ client[i] = "live" /\ curl = "ready" /\ i # NoImpl
        /\ UNCHANGED <<client, idle, curl, refs>>
    BY <1>0, <1>6 DEF Get, CurlHeld, poolVars, HttpPoolAssumption
  <2>2. /\ \A u \in Threads \ {t} : on'[u] = on[u] /\ pc'[u] = pc[u]
        /\ on'[t] = i /\ pc'[t] = "checkout"
    BY <1>0, <1>6 DEF Get, PoolTypeOK
  <2> QED
    BY <1>0, <2>1, <2>2 DEF CurlHeld
<1>7. ASSUME NEW t \in Threads, Reuse(t) PROVE CurlHeld'
  <2>1. /\ \A j \in Impls : idle'[j] # <<>> => idle[j] # <<>>
        /\ UNCHANGED <<client, refs, curl, on>>
    BY <1>0, <1>7 DEF Reuse, PoolTypeOK
  <2>2. \A u \in Threads : pc'[u] = "idle" <=> pc[u] = "idle"
    BY <1>0, <1>7 DEF Reuse, PoolTypeOK
  <2> QED
    BY <1>0, <2>1, <2>2, CurlFrame DEF CurlHeld
<1>8. ASSUME NEW t \in Threads,
             \/ PoolIsEmpty(t) \/ Prepare(t) \/ Receive(t)
             \/ Complete(t) \/ Break(t) \/ Classify(t)
      PROVE  CurlHeld'
  <2>1. UNCHANGED <<client, idle, curl, refs, on>>
    BY <1>8 DEF PoolIsEmpty, Prepare, Receive, Complete, Break, Classify, poolVars
  <2>2. \A u \in Threads : pc'[u] = "idle" <=> pc[u] = "idle"
    <3>0. pc \in [Threads -> Steps]
      BY <1>0 DEF PoolTypeOK
    <3>1. CASE PoolIsEmpty(t)
      BY <3>0, <3>1 DEF PoolIsEmpty
    <3>2. CASE Prepare(t)
      BY <3>0, <3>2 DEF Prepare
    <3>3. CASE Receive(t)
      <4>1. pc[t] = "transfer" /\ (pc' = pc \/ TransferEnds(t, "OTHER"))
        BY <3>3 DEF Receive
      <4> QED
        BY <3>0, <4>1 DEF TransferEnds
    <3>4. CASE Complete(t)
      BY <3>0, <3>4 DEF Complete, TransferEnds
    <3>5. CASE Break(t)
      BY <3>0, <3>5 DEF Break, TransferEnds
    <3>6. CASE Classify(t)
      BY <3>0, <3>6 DEF Classify
    <3> QED
      BY <1>8, <3>1, <3>2, <3>3, <3>4, <3>5, <3>6
  <2> QED
    BY <1>0, <2>1, <2>2, CurlFrame DEF CurlHeld
<1>9. ASSUME NEW t \in Threads, Create(t) PROVE CurlHeld'
  <2>1. UNCHANGED <<client, idle, curl, refs>>
    BY <1>9 DEF Create, poolVars
  <2>2. CASE Finish(t)
    BY <1>0, <2>1, <2>2, CurlFinish DEF CurlHeld
  <2>3. CASE pc' = [pc EXCEPT ![t] = "prepare"] /\ UNCHANGED on
    <3>1. \A u \in Threads : pc'[u] = "idle" <=> pc[u] = "idle"
      BY <1>0, <1>9, <2>3 DEF Create, PoolTypeOK
    <3> QED
      BY <1>0, <2>1, <2>3, <3>1, CurlFrame DEF CurlHeld
  <2> QED
    BY <1>9, <2>2, <2>3 DEF Create
<1>10. ASSUME NEW t \in Threads, Checkin(t) PROVE CurlHeld'
  <2>1. Finish(t) /\ UNCHANGED <<client, curl, refs>>
    BY <1>10 DEF Checkin
  <2>2. on[t] \in Impls /\ on[t] \in refs /\ curl = "ready"
    BY <1>0, <1>10 DEF Checkin, CurlHeld, PoolTypeOK
  <2>3. \A i \in Impls : idle'[i] # <<>> => idle[i] # <<>> \/ i = on[t]
    BY <1>0, <1>10 DEF Checkin, PoolTypeOK
  <2> QED
    BY <1>0, <2>1, <2>2, <2>3, CurlFinish DEF CurlHeld
<1>11. ASSUME NEW t \in Threads, OutOfMemory(t) PROVE CurlHeld'
  <2>1. Finish(t) /\ UNCHANGED <<client, idle, curl, refs>>
    BY <1>11 DEF OutOfMemory, poolVars
  <2> QED
    BY <1>0, <2>1, CurlFinish DEF CurlHeld
<1> QED
  BY <1>1, <1>2, <1>3, <1>4, <1>5, <1>6, <1>7, <1>8, <1>9, <1>10, <1>11
     DEF Next, ThreadStep

-----------------------------------------------------------------------------
(* What the calls have gathered.  A step of one thread does not disturb     *)
(* what the others hold, since no two of them hold the same handle.         *)
LEMMA OthersInOrder ==
  ASSUME PoolInv, NEW t \in Threads,
         \A u \in Threads \ {t} :
            /\ pc'[u] = pc[u] /\ held'[u] = held[u] /\ sink'[u] = sink[u]
            /\ rc'[u] = rc[u] /\ result'[u] = result[u],
         \A h \in Handles : h \in open /\ h # held[t] =>
            errors'[h] = errors[h] /\ target'[h] = target[h],
         CallInOrder(t)'
  PROVE  CallsInOrder'
<1> SUFFICES ASSUME NEW u \in Threads, u # t PROVE CallInOrder(u)'
  BY DEF CallsInOrder
<1>1. pc[u] \in {"transfer", "classify"} =>
         held[u] \in Handles /\ held[u] \in open /\ held[u] # held[t]
  BY DEF PoolInv, PoolTypeOK, HandlesOwned, Holding
<1>2. CallInOrder(u)
  BY DEF PoolInv, CallsInOrder
<1>3. /\ pc'[u] = pc[u] /\ held'[u] = held[u] /\ sink'[u] = sink[u]
      /\ rc'[u] = rc[u] /\ result'[u] = result[u]
  OBVIOUS
<1>4. pc[u] \in {"transfer", "classify"} =>
         errors'[held[u]] = errors[held[u]] /\ target'[held[u]] = target[held[u]]
  BY <1>1
<1> QED
  BY <1>2, <1>3, <1>4 DEF CallInOrder, Whole, Within

LEMMA FinishInOrder ==
  ASSUME HttpPoolAssumption, PoolInv, NEW t \in Threads, Finish(t),
         \A h \in Handles : h \in open /\ h # held[t] =>
            errors'[h] = errors[h] /\ target'[h] = target[h]
  PROVE  CallsInOrder'
<1>1. CallInOrder(t)'
  BY DEF PoolInv, PoolTypeOK, Finish, CallInOrder
<1>2. \A u \in Threads \ {t} :
         /\ pc'[u] = pc[u] /\ held'[u] = held[u] /\ sink'[u] = sink[u]
         /\ rc'[u] = rc[u] /\ result'[u] = result[u]
  BY DEF PoolInv, PoolTypeOK, Finish
<1> QED
  BY <1>1, <1>2, OthersInOrder

LEMMA EndInOrder ==
  ASSUME PoolTypeOK, NEW t \in Threads, pc[t] = "transfer", CallInOrder(t),
         NEW code, held[t] \in Handles, TransferEnds(t, code), held' = held
  PROVE  /\ pc'[t] = "classify" /\ rc'[t] = code
         /\ errors'[held'[t]] # "stale"
         /\ \A u \in Threads \ {t} : pc'[u] = pc[u] /\ rc'[u] = rc[u]
         /\ \A h \in Handles : h # held[t] => errors'[h] = errors[h]
BY DEF PoolTypeOK, TransferEnds, CallInOrder

LEMMA CallsStep ==
  ASSUME HttpPoolAssumption, PoolInv, Next
  PROVE  CallsInOrder'
<1>0. /\ PoolTypeOK /\ HandlesOwned /\ CurlHeld /\ CallsInOrder
      /\ \A t \in Threads : CallInOrder(t)
      /\ \A t \in Threads : pc[t] \in Holding => held[t] \in Handles
  BY DEF PoolInv, CallsInOrder, HandlesOwned, PoolTypeOK
<1>1. CASE \/ DropStatic
           \/ \E i \in Impls : \/ Construct(i) \/ Destroy(i) \/ CloseIdle(i)
                               \/ DropRuntime(i)
  <2>1. UNCHANGED <<pc, held, sink, rc, result, errors, target>>
    BY <1>1 DEF Construct, Destroy, CloseIdle, DropRuntime, DropStatic,
       handleVars, callVars
  <2> QED
    BY <1>0, <2>1 DEF CallsInOrder, CallInOrder
<1>2. ASSUME NEW t \in Threads, NEW i \in Impls, Get(t, i) PROVE CallsInOrder'
  <2>1. CallInOrder(t)'
    BY <1>0, <1>2 DEF Get, CallInOrder, PoolTypeOK
  <2> QED
    BY <1>0, <1>2, <2>1, OthersInOrder DEF Get, handleVars, PoolTypeOK
<1>3. ASSUME NEW t \in Threads, Reuse(t) \/ PoolIsEmpty(t) PROVE CallsInOrder'
  <2>1. /\ pc[t] = "checkout" /\ pc'[t] \in {"create", "prepare"}
        /\ UNCHANGED <<errors, target, sink, rc, result>>
        /\ \A u \in Threads \ {t} : pc'[u] = pc[u] /\ held'[u] = held[u]
    BY <1>0, <1>3 DEF Reuse, PoolIsEmpty, handleVars, PoolTypeOK
  <2>2. CallInOrder(t)'
    BY <1>0, <2>1 DEF CallInOrder
  <2> QED
    BY <2>1, <2>2, OthersInOrder
<1>4. ASSUME NEW t \in Threads, Create(t) PROVE CallsInOrder'
  <2> DEFINE h == Min(Handles \ open)
  <2>1. CASE Finish(t) /\ UNCHANGED handleVars
    BY <2>1, FinishInOrder DEF handleVars
  <2>2. CASE /\ errors' = [errors EXCEPT ![h] = "none"]
             /\ target' = [target EXCEPT ![h] = "none"]
             /\ held' = [held EXCEPT ![t] = h]
             /\ pc' = [pc EXCEPT ![t] = "prepare"]
             /\ UNCHANGED <<on, sink, rc, result>>
    <3>1. pc[t] = "create"
      BY <1>4 DEF Create
    <3>2. h \in Handles \ open
      BY <1>0, <3>1, FreshHandle
    <3> HIDE DEF h
    <3>3. CallInOrder(t)'
      BY <1>0, <2>2, <3>1 DEF CallInOrder, PoolTypeOK
    <3>4. \A g \in Handles : g \in open => errors'[g] = errors[g] /\ target'[g] = target[g]
      BY <1>0, <2>2, <3>2 DEF PoolTypeOK
    <3>5. \A u \in Threads \ {t} : pc'[u] = pc[u] /\ held'[u] = held[u]
      BY <1>0, <2>2 DEF PoolTypeOK
    <3> QED
      BY <2>2, <3>3, <3>4, <3>5, OthersInOrder
  <2> QED
    BY <1>4, <2>1, <2>2 DEF Create
<1>5. ASSUME NEW t \in Threads, Prepare(t) PROVE CallsInOrder'
  <2> DEFINE h == held[t]
  <2>1. /\ pc[t] = "prepare" /\ h \in Handles /\ errors' = [errors EXCEPT ![h] = "none"]
        /\ UNCHANGED <<held, sink, rc>> /\ sink[t] = EmptySink /\ result[t] = NoResult
    BY <1>0, <1>5 DEF Prepare, CleanErrors, CallInOrder, Holding
  <2>2. Whole(EmptySink) /\ Within(EmptySink)
    BY DEF Whole, Within, EmptySink, HttpPoolAssumption
  <2>3. CASE /\ target' = [target EXCEPT ![h] = "mine"]
             /\ pc' = [pc EXCEPT ![t] = "transfer"] /\ UNCHANGED result
    <3>1. CallInOrder(t)'
      BY <1>0, <2>1, <2>2, <2>3 DEF CallInOrder, PoolTypeOK
    <3> QED
      BY <1>0, <2>1, <2>3, <3>1, OthersInOrder DEF PoolTypeOK
  <2>4. ASSUME NEW code \in {"InvalidRequest", "NetworkError"},
               target' = [target EXCEPT ![h] = "none"],
               pc' = [pc EXCEPT ![t] = "checkin"],
               result' = [result EXCEPT ![t].code = code]
        PROVE  CallsInOrder'
    <3>1. /\ result'[t] = [result[t] EXCEPT !.code = code]
          /\ \A u \in Threads \ {t} : result'[u] = result[u]
      BY <1>0, <2>4 DEF PoolTypeOK
    <3>2. result'[t].code = code /\ result'[t].text = "none"
      BY <2>1, <3>1 DEF NoResult
    <3>3. CallInOrder(t)'
      BY <1>0, <2>1, <2>2, <2>4, <3>2 DEF CallInOrder, PoolTypeOK
    <3> QED
      BY <1>0, <2>1, <2>4, <3>1, <3>3, OthersInOrder DEF PoolTypeOK
  <2> QED
    BY <1>5, <2>3, <2>4 DEF Prepare
<1>6. ASSUME NEW t \in Threads, Receive(t) PROVE CallsInOrder'
  <2>1. PICK s \in Sinks :
           /\ sink' = [sink EXCEPT ![t] = s]
           /\ \/ Whole(s) /\ UNCHANGED <<pc, rc, errors>>
              \/ TransferEnds(t, "OTHER") /\ (~Within(s) => s.overflowed)
    BY <1>0, <1>6, Received
  <2>2. /\ pc[t] = "transfer" /\ held[t] \in Handles /\ UNCHANGED <<target, held, result>>
        /\ sink'[t] = s /\ \A u \in Threads \ {t} : sink'[u] = sink[u]
    BY <1>0, <1>6, <2>1 DEF Receive, Holding, PoolTypeOK
  <2>3. CASE Whole(s) /\ UNCHANGED <<pc, rc, errors>>
    <3>1. CallInOrder(t)'
      BY <1>0, <2>2, <2>3 DEF CallInOrder, Whole, Within
    <3> QED
      BY <2>2, <2>3, <3>1, OthersInOrder
  <2>4. CASE TransferEnds(t, "OTHER") /\ (~Within(s) => s.overflowed)
    <3>1. /\ pc'[t] = "classify" /\ rc'[t] = "OTHER" /\ errors'[held'[t]] # "stale"
          /\ \A u \in Threads \ {t} : pc'[u] = pc[u] /\ rc'[u] = rc[u]
          /\ \A h \in Handles : h # held[t] => errors'[h] = errors[h]
      BY <1>0, <2>2, <2>4, EndInOrder
    <3>2. CallInOrder(t)'
      BY <1>0, <2>2, <2>4, <3>1 DEF CallInOrder, Within
    <3> QED
      BY <2>2, <3>1, <3>2, OthersInOrder
  <2> QED
    BY <2>1, <2>3, <2>4
<1>7. ASSUME NEW t \in Threads, Complete(t) \/ Break(t) PROVE CallsInOrder'
  <2>1. /\ pc[t] = "transfer" /\ held[t] \in Handles
        /\ UNCHANGED <<target, held, sink, result>>
        /\ \E code : TransferEnds(t, code)
    BY <1>0, <1>7 DEF Complete, Break, Holding
  <2>2. /\ pc'[t] = "classify" /\ errors'[held'[t]] # "stale"
        /\ \A u \in Threads \ {t} : pc'[u] = pc[u] /\ rc'[u] = rc[u]
        /\ \A h \in Handles : h # held[t] => errors'[h] = errors[h]
    BY <1>0, <2>1, EndInOrder
  <2>3. CallInOrder(t)'
    BY <1>0, <2>1, <2>2 DEF CallInOrder, Whole, Within
  <2> QED
    BY <2>1, <2>2, <2>3, OthersInOrder
<1>8. ASSUME NEW t \in Threads, Classify(t) PROVE CallsInOrder'
  <2> DEFINE h == held[t]
  <2>1. /\ pc[t] = "classify" /\ pc' = [pc EXCEPT ![t] = "checkin"] /\ h \in Handles
        /\ target' = [target EXCEPT ![h] = "stale"]
        /\ UNCHANGED <<errors, held, sink, rc>>
    BY <1>0, <1>8 DEF Classify, Holding
  <2>2. PICK code \in Verdict(t), text \in {errors[h], "none"} :
           result' = [result EXCEPT ![t] =
                        [code |-> code, text |-> text,
                         complete |-> sink[t].size = sink[t].sent]]
    BY <1>8 DEF Classify
  <2>3. /\ errors[h] # "stale" /\ (rc[t] = "OK" => Whole(sink[t]))
        /\ ~Within(sink[t]) => sink[t].overflowed
    BY <1>0, <2>1 DEF CallInOrder
  <2>4. /\ result'[t].code = code /\ result'[t].text # "stale"
        /\ result'[t].complete <=> sink[t].size = sink[t].sent
    BY <1>0, <2>2, <2>3 DEF PoolTypeOK
  <2>5. /\ code = "Response" => Whole(sink[t])
        /\ sink[t].overflowed => code = "InvalidRequest"
    BY <2>2, <2>3 DEF Verdict
  <2>6. CallInOrder(t)'
    BY <1>0, <2>1, <2>3, <2>4, <2>5 DEF CallInOrder, Whole, Within, PoolTypeOK
  <2> QED
    BY <1>0, <2>1, <2>2, <2>6, OthersInOrder DEF PoolTypeOK
<1>9. ASSUME NEW t \in Threads, Checkin(t) PROVE CallsInOrder'
  <2>1. Finish(t) /\ UNCHANGED target
        /\ errors' = [errors EXCEPT ![held[t]] = IF @ = "mine" THEN "stale" ELSE @]
    BY <1>9 DEF Checkin
  <2> QED
    BY <1>0, <2>1, FinishInOrder DEF PoolTypeOK
<1>10. ASSUME NEW t \in Threads, OutOfMemory(t) PROVE CallsInOrder'
  BY <1>10, FinishInOrder DEF OutOfMemory
<1> QED
  BY <1>1, <1>2, <1>3, <1>4, <1>5, <1>6, <1>7, <1>8, <1>9, <1>10 DEF Next, ThreadStep

-----------------------------------------------------------------------------
(* The theorems.                                                            *)

(* The inductive invariant: who owns each handle, what keeps libcurl up,    *)
(* and what every call has gathered so far (HttpClient::Impl). *)
THEOREM PoolInvariant == Spec => []PoolInv
<1>1. Init => PoolInv
  BY HttpPoolAssumption, InitPool
<1>2. PoolInv /\ [Next]_vars => PoolInv'
  <2> SUFFICES ASSUME PoolInv, [Next]_vars PROVE PoolInv'
    OBVIOUS
  <2>1. CASE Next
    BY <2>1, HttpPoolAssumption, TypeStep, OwnedStep, CurlStep, CallsStep DEF PoolInv
  <2>2. CASE UNCHANGED vars
    BY <2>2 DEF vars, poolVars, handleVars, callVars, PoolInv, PoolTypeOK,
       HandlesOwned, CurlHeld, CallsInOrder, CallInOrder
  <2> QED
    BY <2>1, <2>2
<1> QED
  BY <1>1, <1>2, PTL DEF Spec

(* Every variable keeps its type, and no pool outgrows kMaxIdleHandles. *)
THEOREM PoolTypeCorrect == Spec => []PoolTypeOK
<1>1. PoolInv => PoolTypeOK
  BY DEF PoolInv
<1> QED
  BY <1>1, PoolInvariant, PTL

(* An open handle has one owner, a thread or a place in a pool, and a       *)
(* closed one has none (checkout, checkin and the destructors). *)
THEOREM EveryHandleHasOneOwner == Spec => []OneOwner
<1>1. PoolInv => OneOwner
  <2> SUFFICES ASSUME PoolInv, NEW h \in Handles
               PROVE  Cardinality(Owners(h)) = IF h \in open THEN 1 ELSE 0
    BY DEF OneOwner
  <2>0. PoolTypeOK /\ HandlesOwned /\ h # NoHandle /\ MaxIdleHandles \in Nat
    BY HandlesAreNumbers, HttpPoolAssumption DEF PoolInv, HttpPoolAssumption
  <2> DEFINE Places == Impls \X (1 .. MaxIdleHandles)
             At(p) == p[2] <= Len(idle[p[1]]) /\ idle[p[1]][p[2]] = h
  <2>1. \A x : x \in Owners(h) <=>
                 (x \in Threads /\ held[x] = h) \/ (x \in Places /\ At(x))
    BY DEF Owners
  <2>2. \A p \in Places : At(p) =>
           /\ p[1] \in Impls /\ p[2] \in 1 .. Len(idle[p[1]])
           /\ idle[p[1]][p[2]] = h /\ p = <<p[1], p[2]>>
    BY <2>0 DEF PoolTypeOK
  <2>3. CASE h \notin open
    <3>1. \A t \in Threads : held[t] # h
      BY <2>0, <2>3 DEF HandlesOwned
    <3>2. \A p \in Places : ~At(p)
      <4> HIDE DEF Places, At
      <4> QED
        BY <2>0, <2>2, <2>3 DEF HandlesOwned
    <3>3. Owners(h) = {}
      BY <2>1, <3>1, <3>2
    <3> QED
      BY <2>3, <3>3, FS_EmptySet
  <2>4. ASSUME h \in open, NEW t \in Threads, held[t] = h
        PROVE  Cardinality(Owners(h)) = 1
    <3>1. \A u \in Threads : held[u] = h => u = t
      BY <2>0, <2>4 DEF HandlesOwned
    <3>2. \A p \in Places : ~At(p)
      <4> HIDE DEF Places, At
      <4> QED
        BY <2>0, <2>2, <2>4 DEF HandlesOwned
    <3>3. Owners(h) = {t}
      <4> HIDE DEF Places, At
      <4> QED
        BY <2>1, <2>4, <3>1, <3>2
    <3> QED
      BY <3>3, FS_Singleton
  <2>5. ASSUME h \in open, NEW i \in Impls, NEW k \in 1 .. Len(idle[i]), idle[i][k] = h
        PROVE  Cardinality(Owners(h)) = 1
    <3>1. \A u \in Threads : held[u] # h
      BY <2>0, <2>5 DEF HandlesOwned
    <3>2. <<i, k>> \in Places /\ At(<<i, k>>)
      BY <2>0, <2>5 DEF PoolTypeOK
    <3>3. \A p \in Places : At(p) => p = <<i, k>>
      <4> HIDE DEF Places, At
      <4>1. \A p \in Places : At(p) => p[1] = i /\ p[2] = k
        BY <2>0, <2>2, <2>5 DEF HandlesOwned
      <4> QED
        BY <2>2, <4>1
    <3>4. Owners(h) = {<<i, k>>}
      <4> HIDE DEF Places, At
      <4> QED
        BY <2>1, <3>1, <3>2, <3>3
    <3> QED
      BY <3>4, FS_Singleton
  <2> QED
    BY <2>0, <2>3, <2>4, <2>5 DEF HandlesOwned
<1> QED
  BY <1>1, PoolInvariant, PTL

(* There are never more Connections than threads that use one and places    *)
(* in the pools of clients that are not gone: what is checked in beyond     *)
(* that is closed (checkin, ~Connection). *)
THEOREM ConnectionsAreBounded == Spec => []ConnectionsBounded
<1>1. PoolInv => ConnectionsBounded
  <2> SUFFICES ASSUME PoolInv PROVE ConnectionsBounded
    OBVIOUS
  <2> DEFINE T == {t \in Threads : held[t] # NoHandle}
             I == {i \in Impls : client[i] # "none"}
  <2>1. \A i \in Impls : idle[i] # <<>> => i \in I
    BY DEF PoolInv, CurlHeld
  <2>2. PoolTypeOK /\ HandlesOwned /\ T \in SUBSET Threads /\ I \in SUBSET Impls
    BY DEF PoolInv
  <2>3. \A t \in Threads : held[t] # NoHandle => t \in T
    OBVIOUS
  <2>4. Cardinality(open) <= Cardinality(T) + MaxIdleHandles * Cardinality(I)
    <3> HIDE DEF T, I
    <3> QED
      BY <2>1, <2>2, <2>3, HttpPoolAssumption, OpenIsBounded
  <2> QED
    BY <2>4 DEF ConnectionsBounded
<1> QED
  BY <1>1, PoolInvariant, PTL

(* libcurl is up while a handle is open or a call is under way, in whatever *)
(* order clients and the static reference go (CurlRuntime). *)
THEOREM LibcurlStaysUp == Spec => []LibcurlOutlivesHandles
<1>1. PoolInv => LibcurlOutlivesHandles
  <2> SUFFICES ASSUME PoolInv PROVE LibcurlOutlivesHandles
    OBVIOUS
  <2>0. PoolTypeOK /\ HandlesOwned /\ CurlHeld
    BY DEF PoolInv
  <2>1. \A t \in Threads : on[t] # NoImpl => curl = "ready"
    BY <2>0 DEF CurlHeld
  <2>2. ASSUME NEW h \in open PROVE curl = "ready"
    <3>1. CASE \E t \in Threads : held[t] = h
      <4>1. PICK t \in Threads : held[t] = h
        BY <3>1
      <4>2. held[t] # NoHandle
        BY <2>0, <4>1, HandlesAreNumbers, HttpPoolAssumption DEF PoolTypeOK
      <4> QED
        BY <2>0, <4>2 DEF HandlesOwned, Holding, CurlHeld
    <3>2. CASE \E i \in Impls : \E k \in 1 .. Len(idle[i]) : idle[i][k] = h
      <4>1. PICK i \in Impls : \E k \in 1 .. Len(idle[i]) : idle[i][k] = h
        BY <3>2
      <4>2. idle[i] # <<>>
        BY <4>1
      <4> QED
        BY <2>0, <4>2 DEF CurlHeld
    <3> QED
      BY <2>0, <3>1, <3>2 DEF HandlesOwned
  <2> QED
    BY <2>1, <2>2 DEF LibcurlOutlivesHandles
<1> QED
  BY <1>1, PoolInvariant, PTL

(* A transfer writes into its own call's sink, and an error quotes its own  *)
(* transfer's text, whoever had the handle before (perform()). *)
THEOREM NothingIsLeftOver == Spec => []NothingLeftOver
<1>1. PoolInv => NothingLeftOver
  BY DEF PoolInv, CallsInOrder, CallInOrder, NothingLeftOver
<1> QED
  BY <1>1, PoolInvariant, PTL

(* A body over the limit is refused for good, and one that is handed over   *)
(* is whole and within it (write_body() and perform()). *)
THEOREM OversizeBodyIsFinal == Spec => []OversizeIsFinal
<1>1. PoolInv => OversizeIsFinal
  BY HttpPoolAssumption
     DEF PoolInv, PoolTypeOK, Sinks, CallsInOrder, CallInOrder, Within,
         OversizeIsFinal, HttpPoolAssumption
<1> QED
  BY <1>1, PoolInvariant, PTL

=============================================================================
