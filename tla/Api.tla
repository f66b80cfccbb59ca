-------------------------------- MODULE Api ---------------------------------
(***************************************************************************)
(* The REST API (noricum-cli/src/api.rs): requests of several clients at   *)
(* once.  A request takes a slot of its route, is counted for its client   *)
(* in a window that slides with the clock, and is worked on; requests over *)
(* the limit are answered without work.  The clock is monotonic (Instant), *)
(* but a request reads it before it has the lock of the limiter, and one   *)
(* that read it later may have the lock earlier.                           *)
(*                                                                         *)
(* The limit layer is applied to a router, which gives every route one of  *)
(* its own: slots are counted by route.                                    *)
(***************************************************************************)
EXTENDS Integers, Sequences, FiniteSets, Functions

CONSTANTS
  MaxCalls,         \* bound on the requests
  Kinds,            \* what a request may be: its client, route, size and whether it is authorized
  max_concurrent,   \* slots of a route
  max_rpm,          \* requests of a client in a window
  Window,           \* ticks of the window
  MaxTicks          \* bound on the clock

ASSUME ApiAssumption ==
  /\ {max_concurrent, max_rpm, Window} \subseteq Nat \ {0}
  /\ MaxTicks \in Nat /\ MaxCalls \in Nat

Routes  == {"health", "migrate", "analyze", "check", "score", "diff-test"}
Calls   == 1 .. MaxCalls
Clients == {k.client : k \in Kinds}

VARIABLES
  now,          \* the clock
  calls,        \* of each request that has arrived: its kind
  where,        \* of each request: "away", "waiting", "admission", "lock", "handler",
                \* "working", "answered"
  queue,        \* of each route: requests that wait for a slot, in order
  status,       \* of an answered request: its HTTP status
  stamp,        \* of each request, the time it read
  timestamps    \* of each client, the requests whose times are kept (IpRateLimiter)

apiVars == <<now, calls, where, queue, status, stamp, timestamps>>

NoKind == [client |-> "none", route |-> "none", body |-> "none", key |-> "none"]

ApiInit ==
  /\ now = 0
  /\ calls = [c \in Calls |-> NoKind]
  /\ where = [c \in Calls |-> "away"]
  /\ queue = [r \in Routes |-> <<>>]
  /\ status = [c \in Calls |-> 0]
  /\ stamp = [c \in Calls |-> 0]
  /\ timestamps = [i \in Clients |-> {}]

InFlight(r) == {c \in Calls : calls[c].route = r
                              /\ where[c] \in {"admission", "lock", "handler", "working"}}

\* A request arrives and waits for a slot of its route.  Requests are numbered as
\* they arrive.
Arrive(c) ==
  /\ where[c] = "away" /\ \A d \in 1 .. c - 1 : where[d] # "away"
  /\ \E k \in Kinds :
       /\ calls' = [calls EXCEPT ![c] = k]
       /\ queue' = [queue EXCEPT ![k.route] = Append(@, c)]
  /\ where' = [where EXCEPT ![c] = "waiting"]
  /\ UNCHANGED <<now, status, stamp, timestamps>>

\* External: slots are given in the order in which they were asked for.
TakeSlot(r) ==
  /\ queue[r] # <<>> /\ Cardinality(InFlight(r)) < max_concurrent
  /\ where' = [where EXCEPT ![Head(queue[r])] = "admission"]
  /\ queue' = [queue EXCEPT ![r] = Tail(@)]
  /\ UNCHANGED <<now, calls, status, stamp, timestamps>>

\* IpRateLimiter::check, its first line.
ReadClock(c) ==
  /\ where[c] = "admission"
  /\ stamp' = [stamp EXCEPT ![c] = now]
  /\ where' = [where EXCEPT ![c] = "lock"]
  /\ UNCHANGED <<now, calls, queue, status, timestamps>>

\* Slip: a window is over for all of its requests when it is over for the first.
RecentFixed(requests, time) ==
  IF \E d \in requests : time - stamp[d] >= Window THEN {} ELSE requests

\* Under the lock: those that are not a window old count.  One that read the clock
\* later is no time old (duration_since).
Recent(requests, time) == {d \in requests : time - stamp[d] < Window}

Respond(c, code) ==
  /\ where' = [where EXCEPT ![c] = "answered"]
  /\ status' = [status EXCEPT ![c] = code]

\* rate_limit_middleware, with the rest of IpRateLimiter::check.  Requests that are
\* refused do not count.
Check(c) ==
  /\ where[c] = "lock"
  /\ LET i    == calls[c].client
         kept == Recent(timestamps[i], stamp[c])
     IN IF Cardinality(kept) >= max_rpm
        THEN /\ timestamps' = [timestamps EXCEPT ![i] = kept]
             /\ Respond(c, 429)
        ELSE /\ timestamps' = [timestamps EXCEPT ![i] = kept \union {c}]
             /\ where' = [where EXCEPT ![c] = "handler"]
             /\ UNCHANGED status
  /\ UNCHANGED <<now, calls, queue, stamp>>

-----------------------------------------------------------------------------
(***************************************************************************)
(* Handlers.  The body is read before the handler is entered; then come    *)
(* the key and the size.                                                   *)
(***************************************************************************)
check_api_key(k)     == k.key \in {"right", "not needed"}
check_source_size(k) == k.body # "large"

\* What a handler ends with once it works: the tools it runs may fail to start.
analyze   == {200}
score     == {200}
check     == {200, 500}
diff_test == {200, 500}
migrate   == {200, 500}

Handler(route) ==
  IF route = "analyze" THEN analyze
  ELSE IF route = "score" THEN score
  ELSE IF route = "check" THEN check
  ELSE IF route = "diff-test" THEN diff_test
  ELSE IF route = "migrate" THEN migrate
  ELSE {}

Enter(c) ==
  /\ where[c] = "handler"
  /\ LET k == calls[c] IN
       IF k.route = "health" THEN Respond(c, 200)
       ELSE IF k.body = "malformed" THEN Respond(c, 400)
       ELSE IF ~check_api_key(k) THEN Respond(c, 401)
       ELSE IF ~check_source_size(k) THEN Respond(c, 413)
       ELSE where' = [where EXCEPT ![c] = "working"] /\ UNCHANGED status
  /\ UNCHANGED <<now, calls, queue, stamp, timestamps>>

Work(c) ==
  /\ where[c] = "working"
  /\ \E code \in Handler(calls[c].route) : Respond(c, code)
  /\ UNCHANGED <<now, calls, queue, stamp, timestamps>>

TimePasses ==
  /\ now < MaxTicks
  /\ now' = now + 1
  /\ UNCHANGED <<calls, where, queue, status, stamp, timestamps>>

Serve(c) == ReadClock(c) \/ Check(c) \/ Enter(c) \/ Work(c)

ApiNext ==
  \/ \E c \in Calls : Arrive(c) \/ Serve(c)
  \/ \E r \in Routes : TakeSlot(r)
  \/ TimePasses

=============================================================================
