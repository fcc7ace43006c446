------------------------------- MODULE Fanout --------------------------------
(***************************************************************************)
(* The fan-out API of governed-starter-kit: fanOut() and callOne() of      *)
(* fanout-api/fanout.ts, pgCache of its index.ts, and the cache table with *)
(* its functions and policy (sql/50-fanout.sql).                           *)
(*                                                                         *)
(* Screens (requests) of several users overlap.  An upstream may answer at *)
(* any time or never, and slowly in the middle of a body; each call has a  *)
(* deadline of its own.  The cache may fail, and a function may end before *)
(* it has written to it.  A body is its owner and when it was made.        *)
(***************************************************************************)
EXTENDS Integers

CONSTANTS
    Screens,        \* requests for the screen
    Users,
    Endpoints,      \* ENDPOINTS
    Ttl,            \* per endpoint: max-age the upstream sends, 0 for none
    Timeout,        \* timeoutMs
    PutDelay,       \* longest time from the last outcome to the cache write
    MaxNow,         \* bound on time
    None

ASSUME TtlAssumption == Ttl \in [Endpoints -> Nat]
ASSUME TimeAssumption == Timeout \in Nat \ {0} /\ PutDelay \in Nat /\ MaxNow \in Nat

VARIABLES
    now,
    cache,          \* private.fanout_cache: per user and endpoint a row or None
    screen,         \* the requests
    call            \* per request and endpoint: its upstream call

vars == <<now, cache, screen, call>>

(* A row holds a body (whose it is and when it was made) and expires; a     *)
(* part of the answer, None for null, is a body, where it is from, and how  *)
(* old a cached one is when it is taken.                                    *)
NoCall == [pc |-> "none", sent |-> 0]
NoScreen == [pc |-> "free", user |-> None, forced |-> {}, data |-> [e \in Endpoints |-> None], gathered |-> 0]

Init ==
    /\ now = 0
    /\ cache = [u \in Users |-> [e \in Endpoints |-> None]]
    /\ screen = [s \in Screens |-> NoScreen]
    /\ call = [s \in Screens |-> [e \in Endpoints |-> NoCall]]

-----------------------------------------------------------------------------
(* fanOut() *)

(* All misses are called at once, each with its deadline. *)
CallMisses(s, data) ==
    /\ screen' = [screen EXCEPT ![s].pc = "calls", ![s].data = data, ![s].forced = {}]
    /\ call' = [call EXCEPT ![s] = [e \in Endpoints |->
                    IF data[e] = None THEN [pc |-> "waiting", sent |-> now] ELSE NoCall]]

(* refresh skips the cache; so does an endpoint that is forced. *)
Begin(s, u, forced, refresh) ==
    /\ screen[s].pc = "free"
    /\ IF refresh \/ forced = Endpoints
       THEN /\ screen' = [screen EXCEPT ![s] = [NoScreen EXCEPT !.pc = "calls", !.user = u]]
            /\ call' = [call EXCEPT ![s] = [e \in Endpoints |-> [pc |-> "waiting", sent |-> now]]]
       ELSE /\ screen' = [screen EXCEPT ![s] = [NoScreen EXCEPT !.pc = "read", !.user = u, !.forced = forced]]
            /\ UNCHANGED call
    /\ UNCHANGED <<now, cache>>

(* fanout_cache_get: rows of the calling user that have not expired         *)
(* (mutant: the last instant counts).                                       *)
UnexpiredAtEnd(r) == r.expires >= now
Unexpired(r) == r.expires > now

Visible(s, e) == {cache[screen[s].user][e]} \ {None}

(* What the cache has for the screen. *)
CacheGet(s, e) == {r \in Visible(s, e) : e \notin screen[s].forced /\ Unexpired(r)}

CacheRead(s) ==
    LET hit(e) == (CHOOSE r \in CacheGet(s, e) : TRUE).body
    IN  /\ screen[s].pc = "read"
        /\ CallMisses(s, [e \in Endpoints |->
              IF CacheGet(s, e) = {} THEN None
              ELSE [body |-> hit(e), source |-> "cache", age |-> now - hit(e).made]])
        /\ UNCHANGED <<now, cache>>

(* "A broken cache is a slower response, not a failed one." *)
CacheReadFails(s) ==
    /\ screen[s].pc = "read"
    /\ CallMisses(s, screen[s].data)
    /\ UNCHANGED <<now, cache>>

(* Promise.all is through: cacheable answers are stored. *)
ToStore(s) == {e \in Endpoints : /\ screen[s].data[e] # None /\ Ttl[e] > 0
                                 /\ screen[s].data[e].source = "upstream"}

AllOver(s) == \A e \in Endpoints : call[s][e].pc \in {"none", "over"}

Gather(s) ==
    /\ screen[s].pc = "calls" /\ AllOver(s)
    /\ screen' = [screen EXCEPT ![s].pc = IF ToStore(s) # {} THEN "write" ELSE "done",
                                ![s].gathered = IF ToStore(s) # {} THEN now ELSE 0]
    /\ UNCHANGED <<now, cache, call>>

(* fanout_cache_put: upsert, with the database's time. *)
CacheWrite(s) ==
    /\ screen[s].pc = "write"
    /\ cache' = [cache EXCEPT ![screen[s].user] = [e \in Endpoints |->
                    IF e \in ToStore(s)
                    THEN [body |-> screen[s].data[e].body, expires |-> now + Ttl[e]]
                    ELSE @[e]]]
    /\ screen' = [screen EXCEPT ![s].pc = "done", ![s].gathered = 0]
    /\ UNCHANGED <<now, call>>

CacheWriteFails(s) ==
    /\ screen[s].pc = "write"
    /\ screen' = [screen EXCEPT ![s].pc = "done", ![s].gathered = 0]
    /\ UNCHANGED <<now, cache, call>>

-----------------------------------------------------------------------------
(* callOne() *)

Over(s, e) == call' = [call EXCEPT ![s][e] = [NoCall EXCEPT !.pc = "over"]]

HeadersArrive(s, e) ==
    /\ call[s][e].pc = "waiting"
    /\ call' = [call EXCEPT ![s][e].pc = "body"]
    /\ UNCHANGED <<now, cache, screen>>

(* The whole body, made by the upstream some time after the request. *)
BodyArrives(s, e) ==
    /\ call[s][e].pc = "body"
    /\ \E t \in call[s][e].sent..now :
          screen' = [screen EXCEPT ![s].data[e] =
                        [body |-> [user |-> screen[s].user, made |-> t], source |-> "upstream", age |-> 0]]
    /\ Over(s, e)
    /\ UNCHANGED <<now, cache>>

(* An error status, a body that is not JSON, a connection that breaks. *)
CallFails(s, e) ==
    /\ call[s][e].pc \in {"waiting", "body"}
    /\ Over(s, e)
    /\ UNCHANGED <<now, cache, screen>>

(* Mutant: the timer is cleared when the headers are there. *)
DeadlineBeforeBody(s, e) ==
    /\ call[s][e].pc = "waiting" /\ now = call[s][e].sent + Timeout
    /\ Over(s, e)
    /\ UNCHANGED <<now, cache, screen>>

(* The abort: headers and body are inside the same deadline. *)
Deadline(s, e) ==
    /\ call[s][e].pc \in {"waiting", "body"} /\ now = call[s][e].sent + Timeout
    /\ Over(s, e)
    /\ UNCHANGED <<now, cache, screen>>

(* Time does not pass a deadline that is due, or the longest write; at the  *)
(* bound it leaves room for the deadlines of a screen that is begun.        *)
Tick ==
    /\ now < MaxNow
    /\ \A s \in Screens :
          /\ \A e \in Endpoints : call[s][e].pc \in {"waiting", "body"} => now < call[s][e].sent + Timeout
          /\ screen[s].pc = "write" => now < screen[s].gathered + PutDelay
          /\ screen[s].pc = "calls" => ~AllOver(s)
          /\ screen[s].pc = "read" => now + Timeout < MaxNow
    /\ now' = now + 1
    /\ UNCHANGED <<cache, screen, call>>

-----------------------------------------------------------------------------
CacheStep(s) == CacheRead(s) \/ CacheReadFails(s) \/ CacheWrite(s) \/ CacheWriteFails(s)

(* No screen is begun so late that its deadlines are beyond MaxNow. *)
Next ==
    \/ Tick
    \/ \E s \in Screens :
          \/ /\ now + Timeout <= MaxNow
             /\ \E u \in Users, f \in SUBSET Endpoints, r \in BOOLEAN : Begin(s, u, f, r)
          \/ CacheStep(s) \/ Gather(s)
          \/ \E e \in Endpoints : HeadersArrive(s, e) \/ BodyArrives(s, e) \/ CallFails(s, e) \/ Deadline(s, e)

Spec == Init /\ [][Next]_vars

(* Timers fire and the database answers or refuses; upstreams owe nothing.  *)
Fairness ==
    /\ WF_vars(Tick)
    /\ \A s \in Screens : WF_vars(CacheStep(s)) /\ WF_vars(Gather(s))
    /\ \A s \in Screens, e \in Endpoints : WF_vars(Deadline(s, e))

FairSpec == Spec /\ Fairness

-----------------------------------------------------------------------------
(* What the fan-out promises. *)

(* "Caching follows the upstream's own Cache-Control": what is served from  *)
(* the cache was made less than max-age before, give or take the time its   *)
(* screen waited for other upstreams and for the write, whoever wrote the   *)
(* row last and in whatever order, and is the data of the user it is for.   *)
CacheHonest ==
    \A s \in Screens, e \in Endpoints :
        LET d == screen[s].data[e]
        IN  d # None =>
                /\ d.body.user = screen[s].user
                /\ d.source = "upstream" \/ d.age < Ttl[e] + Timeout + PutDelay

(* "Whatever has answered by then is returned": every screen is answered,   *)
(* although upstreams may hang at any point.                                *)
ScreensAnswered == \A s \in Screens : (screen[s].pc # "free") ~> (screen[s].pc = "done")
=============================================================================
