---------------------------- MODULE ValidatorApi ----------------------------
(***************************************************************************)
(* The funds flow routes of the API from end to end: the rate limiter in   *)
(* front of them (rate_limiter.py), shared by all workers through Redis,   *)
(* the checks of a route, and the graph that is drawn of what a miner      *)
(* returned (routes/v1/funds_flow.py). Every request comes from the same   *)
(* address; which miner is asked is the subject of OrganicQuery.           *)
(*                                                                         *)
(* The limiter reads the clock and sends its pipeline later, so that       *)
(* pipelines reach Redis in any order. Of the requests of one second that  *)
(* wait for theirs one is kept, since they all write the same member.      *)
(***************************************************************************)
EXTENDS GraphTransformer

CONSTANTS
    MaxRequests, Window,    \* max_requests, window_seconds
    MaxNow                  \* bound: seconds

ASSUME ApiAssumption == MaxRequests \in Nat /\ Window \in Nat \ {0} /\ MaxNow \in Nat

VARIABLES
    now,        \* the second it is
    waiting,    \* the current_time of the requests whose pipeline is to come
    hits,       \* the sorted set of the address
    touched,    \* when it was last written
    passed,     \* history: the current_time of the requests let through
    serving     \* where the route of a worker is

limiterVars == <<now, waiting, hits, touched, passed>>
apiVars == <<vars, limiterVars, serving>>

InWindow(s, t) == s > t - Window

ApiInit ==
    /\ Init
    /\ now = 1 /\ waiting = {} /\ hits = {} /\ touched = 0 /\ passed = {}
    /\ serving = "nobody"

Tick ==
    /\ now < MaxNow /\ now' = now + 1
    /\ passed' = {s \in passed : InWindow(s, now')}
    /\ UNCHANGED <<vars, waiting, hits, touched, serving>>

-----------------------------------------------------------------------------
(* dispatch: the clock is read, then the pipeline runs in one transaction. *)

Arrive ==
    /\ waiting' = waiting \union {now}
    /\ UNCHANGED <<vars, now, hits, touched, passed, serving>>

(* EXPIRE drops the set a window after it was written, within that second. *)
Stored ==
    (IF now <= touched + Window THEN {hits} ELSE {})
        \union (IF now >= touched + Window THEN {{}} ELSE {})

Counted(h, t) == {s \in h : InWindow(s, t)} \union {t}

(* A bug: the request at hand is not among those counted.                  *)
FitsBefore(h, t) == Cardinality(Counted(h, t) \ {t}) <= MaxRequests

Fits(h, t) == Cardinality(Counted(h, t)) <= MaxRequests

(* zremrangebyscore, zadd, expire and zcard.                               *)
Pipeline(h, t) ==
    /\ hits' = Counted(h, t) /\ touched' = now
    /\ waiting' = waiting \ {t}
    /\ UNCHANGED <<vars, now>>

TooManyRequests(t) ==
    \E h \in Stored :
        /\ ~Fits(h, t) /\ Pipeline(h, t)
        /\ UNCHANGED <<passed, serving>>

(* One that passes goes to its route; that of one request is followed.     *)
Pass(t) ==
    /\ \E h \in Stored : Fits(h, t) /\ Pipeline(h, t)
    /\ passed' = passed \union {t}
    /\ serving' \in {serving, IF serving = "nobody" THEN "route" ELSE serving}

(* The connection fails, before the pipeline has run or after it.          *)
RedisFails(t) ==
    /\ \/ /\ waiting' = waiting \ {t}
          /\ UNCHANGED <<vars, now, hits, touched>>
       \/ \E h \in Stored : Pipeline(h, t)
    /\ UNCHANGED <<passed, serving>>

-----------------------------------------------------------------------------
(* A route.                                                                *)

(* An API key that is missing or unknown, more than ten heights, a radius  *)
(* above ten, a network other than bitcoin, a receipt that is not stored   *)
(* or an empty response: there is no graph to draw.                        *)
NoGraph ==
    /\ serving = "route" /\ serving' = "nobody"
    /\ UNCHANGED <<vars, limiterVars>>

(* Another gets a transformer of its own.                                  *)
Transform ==
    /\ serving = "route" /\ serving' = "transformer"
    /\ transform_result
    /\ UNCHANGED limiterVars

DrawEntry ==
    /\ serving = "transformer"
    /\ ProcessEntry \/ SkipEntry
    /\ UNCHANGED <<limiterVars, serving>>

format_response ==
    /\ serving = "transformer" /\ serving' = "nobody"
    /\ UNCHANGED <<vars, limiterVars>>

Route == NoGraph \/ Transform \/ DrawEntry \/ format_response

ApiNext ==
    \/ Tick \/ Arrive
    \/ \E t \in waiting : TooManyRequests(t) \/ Pass(t) \/ RedisFails(t)
    \/ Route

ApiSpec == ApiInit /\ [][ApiNext]_apiVars

-----------------------------------------------------------------------------

(* The limit holds for seconds, in whatever order pipelines reach Redis    *)
(* and although a delayed one removes by a time that is over: requests of  *)
(* no more than max_requests of the last window_seconds have passed.       *)
LimitHolds == Cardinality({s \in passed : InWindow(s, now)}) <= MaxRequests
=============================================================================
