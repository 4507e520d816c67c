------------------------------ MODULE HttpPool ------------------------------
(***************************************************************************)
(* HttpClient: threads that share a client, the pool of libcurl handles    *)
(* behind it, and libcurl's process-wide state, which every Impl and one   *)
(* static object hold a reference to.  A step of a thread is a section     *)
(* under the mutex or a stretch of code on a handle that is its own.  An   *)
(* Impl is destroyed one handle at a time while other clients go on.       *)
(***************************************************************************)
EXTENDS Integers, Sequences, FiniteSets, SequencesExt, FiniteSetsExt

CONSTANTS
    Threads,
    Impls,               \* bound: the HttpClient::Impl objects alive at once
    MaxIdleHandles,      \* kMaxIdleHandles
    ResponseLimit,       \* max_response_bytes, 0 for no limit
    MaxBody              \* bound: the longest body a server sends

NoHandle == 0
Static == "static"
NoImpl == "none"

ASSUME HttpPoolAssumption ==
    /\ IsFiniteSet(Threads)
    /\ IsFiniteSet(Impls)
    /\ NoImpl \notin Impls /\ Static \notin Impls
    /\ MaxIdleHandles \in Nat
    /\ ResponseLimit \in Nat
    /\ MaxBody \in Nat

(* Addresses of Connections.  One is free again once it is closed. *)
Handles == 1 .. Cardinality(Threads) + MaxIdleHandles * Cardinality(Impls)

VARIABLES
    client,     \* the state of each Impl: "none", "live", "dying"
    idle,       \* the Connections in its pool
    curl,       \* libcurl: "unborn", "ready", "failed", "cleaned"
    refs,       \* who holds a reference to the CurlRuntime
    open,       \* handles between curl_easy_init() and curl_easy_cleanup()
    errors,     \* the text in a handle's buffer: "none", "mine", "stale"
    target,     \* the BodySink a handle writes to: "none", "mine", "stale"
    pc, on, held,            \* each thread's step, Impl and Connection
    sink,       \* its BodySink, and how much of the body has come in
    rc,         \* what curl_easy_perform() returned
    result      \* perform()'s result, and whose text it quotes

poolVars == <<client, idle, refs, curl>>
handleVars == <<open, errors, target>>
callVars == <<pc, on, held, sink, rc, result>>
vars == <<poolVars, handleVars, callVars>>

Steps == {"idle", "checkout", "create", "prepare", "transfer", "classify", "checkin"}
Outcomes == {"none", "Response", "InvalidRequest", "NetworkError"}
Texts == {"none", "mine", "stale"}
Sinks == [size : 0 .. MaxBody, sent : 0 .. MaxBody,
          overflowed : BOOLEAN, failed : BOOLEAN]
Results == [code : Outcomes, text : Texts, complete : BOOLEAN]
EmptySink == [size |-> 0, sent |-> 0, overflowed |-> FALSE, failed |-> FALSE]
NoResult == [code |-> "none", text |-> "none", complete |-> TRUE]

PoolTypeOK ==
    /\ client \in [Impls -> {"none", "live", "dying"}]
    /\ idle \in [Impls -> Seq(Handles)]
    /\ \A i \in Impls : Len(idle[i]) <= MaxIdleHandles
    /\ curl \in {"unborn", "ready", "failed", "cleaned"}
    /\ refs \subseteq Impls \cup {Static}
    /\ open \subseteq Handles
    /\ errors \in [Handles -> Texts] /\ target \in [Handles -> Texts]
    /\ pc \in [Threads -> Steps]
    /\ on \in [Threads -> Impls \cup {NoImpl}]
    /\ held \in [Threads -> Handles \cup {NoHandle}]
    /\ sink \in [Threads -> Sinks]
    /\ rc \in [Threads -> {"OK", "FILESIZE_EXCEEDED", "OTHER"}]
    /\ result \in [Threads -> Results]

Init ==
    /\ client = [i \in Impls |-> "none"]
    /\ idle = [i \in Impls |-> <<>>]
    /\ curl = "unborn" /\ refs = {} /\ open = {}
    /\ errors = [h \in Handles |-> "none"]
    /\ target = [h \in Handles |-> "none"]
    /\ pc = [t \in Threads |-> "idle"]
    /\ on = [t \in Threads |-> NoImpl]
    /\ held = [t \in Threads |-> NoHandle]
    /\ sink = [t \in Threads |-> EmptySink]
    /\ rc = [t \in Threads |-> "OK"]
    /\ result = [t \in Threads |-> NoResult]

-----------------------------------------------------------------------------
(* libcurl's process-wide state and the life of a client.                  *)

(* The last reference to go takes libcurl with it. *)
Release(holder) ==
    /\ refs' = refs \ {holder}
    /\ curl' = IF refs' = {} /\ curl = "ready" THEN "cleaned" ELSE curl

(* HttpClient(config).  The first one makes the static CurlRuntime, whose   *)
(* curl_global_init() may fail; none is made once statics are being         *)
(* destroyed. *)
Construct(i) ==
    /\ client[i] = "none"
    /\ \/ curl = "unborn" /\ curl' \in {"ready", "failed"}
       \/ Static \in refs /\ UNCHANGED curl
    /\ refs' = refs \cup {Static, i}
    /\ client' = [client EXCEPT ![i] = "live"]
    /\ UNCHANGED <<idle, handleVars, callVars>>

(* The destructor starts: no get() of the client is under way, its caller's *)
(* duty. *)
Destroy(i) ==
    /\ client[i] = "live"
    /\ \A t \in Threads : on[t] # i
    /\ client' = [client EXCEPT ![i] = "dying"]
    /\ UNCHANGED <<idle, refs, curl, handleVars, callVars>>

(* Mutant: the Connection goes without cleaning its handle up. *)
ClosedButForgotten(h) == open

(* ~Connection() *)
Closed(h) == open \ {h}

(* ~Connection(), for each Connection of the vector. *)
CloseIdle(i) ==
    /\ client[i] = "dying"
    /\ idle[i] # <<>>
    /\ open' = Closed(Head(idle[i]))
    /\ idle' = [idle EXCEPT ![i] = Tail(@)]
    /\ UNCHANGED <<client, refs, curl, errors, target, callVars>>

(* Mutant: the reference is the last member, so it is dropped first. *)
HandlesGoneNotAwaited(i) == TRUE

(* Impl::runtime is the first member, so it is destroyed last. *)
HandlesGone(i) == idle[i] = <<>>

DropRuntime(i) ==
    /\ client[i] = "dying"
    /\ i \in refs
    /\ HandlesGone(i)
    /\ Release(i)
    /\ client' = [client EXCEPT ![i] = "none"]
    /\ UNCHANGED <<idle, handleVars, callVars>>

(* The program ends: the static reference goes, maybe before a client does. *)
DropStatic ==
    /\ Static \in refs
    /\ Release(Static)
    /\ UNCHANGED <<client, idle, handleVars, callVars>>

-----------------------------------------------------------------------------
(* get().                                                                   *)

(* The caller has its result or its exception, and what the call held is    *)
(* gone; a Connection that was not checked in is closed. *)
Finish(t) ==
    /\ pc' = [pc EXCEPT ![t] = "idle"]
    /\ on' = [on EXCEPT ![t] = NoImpl]
    /\ held' = [held EXCEPT ![t] = NoHandle]
    /\ sink' = [sink EXCEPT ![t] = EmptySink]
    /\ rc' = [rc EXCEPT ![t] = "OK"]
    /\ result' = [result EXCEPT ![t] = NoResult]

(* A moved-from client has no Impl, and one whose libcurl failed to start   *)
(* has no handles: both refuse the call and change nothing. *)
Get(t, i) ==
    /\ pc[t] = "idle"
    /\ client[i] = "live"
    /\ curl # "failed"
    /\ pc' = [pc EXCEPT ![t] = "checkout"]
    /\ on' = [on EXCEPT ![t] = i]
    /\ UNCHANGED <<poolVars, handleVars, held, sink, rc, result>>

(* Mutant: the Connection handed out stays in the vector. *)
PoolAfterReuseUnchanged(i) == idle[i]

PoolAfterReuse(i) == Front(idle[i])

(* checkout(): under the mutex, the Connection checked in last. *)
Reuse(t) ==
    LET i == on[t] IN
    /\ pc[t] = "checkout"
    /\ idle[i] # <<>>
    /\ held' = [held EXCEPT ![t] = Last(idle[i])]
    /\ idle' = [idle EXCEPT ![i] = PoolAfterReuse(i)]
    /\ pc' = [pc EXCEPT ![t] = "prepare"]
    /\ UNCHANGED <<client, refs, curl, handleVars, on, sink, rc, result>>

PoolIsEmpty(t) ==
    /\ pc[t] = "checkout"
    /\ idle[on[t]] = <<>>
    /\ pc' = [pc EXCEPT ![t] = "create"]
    /\ UNCHANGED <<poolVars, handleVars, on, held, sink, rc, result>>

(* Outside the mutex, and without a limit on the Connections in use. *)
Create(t) ==
    LET h == Min(Handles \ open) IN
    /\ pc[t] = "create"
    /\ \/ /\ open' = open \cup {h}
          /\ errors' = [errors EXCEPT ![h] = "none"]
          /\ target' = [target EXCEPT ![h] = "none"]
          /\ held' = [held EXCEPT ![t] = h]
          /\ pc' = [pc EXCEPT ![t] = "prepare"]
          /\ UNCHANGED <<on, sink, rc, result>>
       \/ /\ Finish(t)                      \* curl_easy_init() failed
          /\ UNCHANGED handleVars
    /\ UNCHANGED poolVars

(* Mutant: the buffer is left as the handle's last transfer left it. *)
ErrorsKept(h) == errors

CleanErrors(h) == [errors EXCEPT ![h] = "none"]

(* perform(), up to the transfer: the handle is reset, its error buffer     *)
(* cleared, and every option set anew.  libcurl may refuse the timeout, or  *)
(* one of the options without which nothing may be sent.                    *)
Prepare(t) ==
    LET h == held[t] IN
    /\ pc[t] = "prepare"
    /\ errors' = CleanErrors(h)
    /\ \/ /\ target' = [target EXCEPT ![h] = "mine"]
          /\ pc' = [pc EXCEPT ![t] = "transfer"]
          /\ UNCHANGED result
       \/ /\ target' = [target EXCEPT ![h] = "none"]
          /\ pc' = [pc EXCEPT ![t] = "checkin"]
          /\ \E code \in {"InvalidRequest", "NetworkError"} :
                result' = [result EXCEPT ![t].code = code]
    /\ UNCHANGED <<poolVars, open, on, held, sink, rc>>

(* libcurl may say in the error buffer what went wrong. *)
TransferEnds(t, code) ==
    /\ rc' = [rc EXCEPT ![t] = code]
    /\ pc' = [pc EXCEPT ![t] = "classify"]
    /\ \/ UNCHANGED errors
       \/ code # "OK" /\ errors' = [errors EXCEPT ![held[t]] = "mine"]

Overflows(t, chunk) ==
    ResponseLimit > 0 /\ chunk > ResponseLimit - sink[t].size

(* write_body(): a chunk of the body has arrived.  A short count makes      *)
(* libcurl give up. *)
Receive(t) ==
    /\ pc[t] = "transfer"
    /\ \E chunk \in 1 .. MaxBody - sink[t].sent :
          LET arrived == [sink[t] EXCEPT !.sent = @ + chunk] IN
          \/ /\ ~Overflows(t, chunk)
             /\ sink' = [sink EXCEPT ![t] = [arrived EXCEPT !.size = @ + chunk]]
             /\ UNCHANGED <<pc, rc, errors>>
          \/ /\ sink' = [sink EXCEPT ![t] =
                            IF Overflows(t, chunk)
                            THEN [arrived EXCEPT !.overflowed = TRUE]
                            ELSE [arrived EXCEPT !.failed = TRUE]]
             /\ TransferEnds(t, "OTHER")
    /\ UNCHANGED <<poolVars, open, target, on, held, result>>

(* The server has sent the whole body. *)
Complete(t) ==
    /\ pc[t] = "transfer"
    /\ TransferEnds(t, "OK")
    /\ UNCHANGED <<poolVars, open, target, on, held, sink, result>>

(* libcurl refuses a body announced as too large, or the connection fails   *)
(* or runs into the timeout. *)
Break(t) ==
    /\ pc[t] = "transfer"
    /\ \/ ResponseLimit > 0 /\ TransferEnds(t, "FILESIZE_EXCEEDED")
       \/ TransferEnds(t, "OTHER")
    /\ UNCHANGED <<poolVars, open, target, on, held, sink, result>>

(* Mutant: the return code is looked at before the sink. *)
VerdictByReturnCode(t) ==
    IF rc[t] = "FILESIZE_EXCEEDED" THEN {"InvalidRequest"}
    ELSE IF rc[t] # "OK" THEN {"NetworkError"}
    ELSE {"Response", "NetworkError"}

(* What perform() makes of the transfer.  A status that cannot be read is   *)
(* the second outcome of a transfer that went well. *)
Verdict(t) ==
    IF sink[t].overflowed \/ rc[t] = "FILESIZE_EXCEEDED" THEN {"InvalidRequest"}
    ELSE IF sink[t].failed \/ rc[t] # "OK" THEN {"NetworkError"}
    ELSE {"Response", "NetworkError"}

(* Only the error of a failed transfer quotes the buffer.  perform()        *)
(* returns, and the sink on its stack is gone. *)
Classify(t) ==
    LET h == held[t]
        quotes == ~sink[t].overflowed /\ ~sink[t].failed /\ rc[t] = "OTHER"
    IN
    /\ pc[t] = "classify"
    /\ \E code \in Verdict(t) :
          result' = [result EXCEPT ![t] =
                       [code |-> code,
                        text |-> IF quotes THEN errors[h] ELSE "none",
                        complete |-> sink[t].size = sink[t].sent]]
    /\ target' = [target EXCEPT ![h] = "stale"]
    /\ pc' = [pc EXCEPT ![t] = "checkin"]
    /\ UNCHANGED <<poolVars, open, errors, on, held, sink, rc>>

(* Mutant: one Connection too many is kept. *)
HasRoomForOneMore(i) == Len(idle[i]) <= MaxIdleHandles

HasRoom(i) == Len(idle[i]) < MaxIdleHandles

(* checkin(): under the mutex; a surplus Connection is closed. *)
Checkin(t) ==
    LET i == on[t]
        h == held[t]
    IN
    /\ pc[t] = "checkin"
    /\ IF HasRoom(i)
       THEN idle' = [idle EXCEPT ![i] = Append(@, h)] /\ UNCHANGED open
       ELSE open' = Closed(h) /\ UNCHANGED idle
    /\ errors' = [errors EXCEPT ![h] = IF @ = "mine" THEN "stale" ELSE @]
    /\ Finish(t)
    /\ UNCHANGED <<client, refs, curl, target>>

(* An allocation fails while the thread holds a Connection: building the    *)
(* URL, or copying the response's headers. *)
OutOfMemory(t) ==
    /\ pc[t] \in {"prepare", "classify"}
    /\ pc[t] = "classify" => "Response" \in Verdict(t)
    /\ open' = Closed(held[t])
    /\ Finish(t)
    /\ UNCHANGED <<poolVars, errors, target>>

-----------------------------------------------------------------------------
ThreadStep(t) ==
    \/ Reuse(t) \/ PoolIsEmpty(t) \/ Create(t) \/ Prepare(t)
    \/ Receive(t) \/ Complete(t) \/ Break(t)
    \/ Classify(t) \/ Checkin(t) \/ OutOfMemory(t)

Next ==
    \/ \E i \in Impls : \/ Construct(i) \/ Destroy(i) \/ CloseIdle(i)
                        \/ DropRuntime(i)
    \/ DropStatic
    \/ \E t \in Threads, i \in Impls : Get(t, i)
    \/ \E t \in Threads : ThreadStep(t)

Spec == Init /\ [][Next]_vars

-----------------------------------------------------------------------------
(* Properties.                                                              *)

(* A handle has one owner: one thread, or one place in one pool; and no     *)
(* open handle is lost, whatever went wrong in the call that used it        *)
(* (checkout, checkin, and the destructors that run when a call ends        *)
(* early). *)
Owners(h) ==
    {t \in Threads : held[t] = h}
    \cup {place \in Impls \X (1 .. MaxIdleHandles) :
             /\ place[2] <= Len(idle[place[1]])
             /\ idle[place[1]][place[2]] = h}

OneOwner == \A h \in Handles : Cardinality(Owners(h)) = IF h \in open THEN 1 ELSE 0

(* libcurl is up as long as any handle is open, in whatever order clients   *)
(* and the static reference are destroyed; once it is down nobody will use  *)
(* it again (CurlRuntime and the order of Impl's members). *)
LibcurlOutlivesHandles ==
    /\ open # {} => curl = "ready"
    /\ \A t \in Threads : on[t] # NoImpl => curl = "ready"

(* A transfer writes into the sink of the call that started it, and an      *)
(* error quotes the text of its own transfer, although handles are handed   *)
(* from call to call (perform()). *)
NothingLeftOver ==
    \A t \in Threads :
        /\ pc[t] = "transfer" => target[held[t]] = "mine"
        /\ pc[t] = "checkin" => result[t].text # "stale"

(* A body is handed over whole and within the limit; one over the limit is  *)
(* never a NetworkError, which with_retry() would download again            *)
(* (write_body() and the order of perform()'s tests). *)
OversizeIsFinal ==
    \A t \in Threads : pc[t] = "checkin" =>
        /\ result[t].code = "Response" =>
              /\ result[t].complete
              /\ ResponseLimit > 0 => sink[t].sent <= ResponseLimit
        /\ ResponseLimit > 0 /\ sink[t].sent > ResponseLimit
              => result[t].code = "InvalidRequest"

(* However many transfers there were at once, what is left open afterwards  *)
(* is what the clients may keep: one connection for each call that uses     *)
(* one, and kMaxIdleHandles for each client that is not gone yet (checkin,  *)
(* the exceptions that leave a call early, and the destructors). *)
ConnectionsBounded ==
    Cardinality(open) <=
        Cardinality({t \in Threads : held[t] # NoHandle})
        + MaxIdleHandles * Cardinality({i \in Impls : client[i] # "none"})
=============================================================================
