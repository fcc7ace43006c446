------------------------------ MODULE Failover -------------------------------
(***************************************************************************)
(* The edge worker of edge-resilience (worker/worker.ts): reads of one     *)
(* cacheable URL, served from the edge cache, from a primary or from a     *)
(* standby, with the failure marker that holds traffic on the standby.     *)
(*                                                                         *)
(* An action of a request is the code up to its next await.  Requests      *)
(* overlap, origins go down and up, and the worker is redeployed with      *)
(* other variables while requests of the old one are under way.  Writes to *)
(* the cache are made behind waitUntil: they land in any order, some time  *)
(* later or never.                                                         *)
(***************************************************************************)
EXTENDS Integers

CONSTANTS
    Reqs,           \* requests
    Configs,        \* deployments: [standby: BOOLEAN, outage: BOOLEAN]
    Hold,           \* HOLD_MS, in ticks
    MaxNow,         \* bound on time
    None

ASSUME ConfigsAssumption == Configs \subseteq [standby: BOOLEAN, outage: BOOLEAN]
ASSUME HoldAssumption == Hold \in Nat /\ MaxNow \in Nat
ASSUME NoneAssumption ==
    None \notin {"ok", "client", "forbidden", "server", "empty", "cache", "primary", "standby"}

Origins == {"primary", "standby"}
(* What fetch gives: a class of statuses.  "forbidden" is 403, which is     *)
(* also how the runtime reports an unroutable origin; "server" is 5xx, and  *)
(* stands for an exception too, which the client gets as a 5xx if nothing   *)
(* catches it.                                                              *)
Answers == {"ok", "client", "forbidden", "server"}
Errors == {"forbidden", "server"}
PCs == {"free", "lookup", "marker", "choose", "standbyFirst", "primaryLast",
        "primary", "standbyLast", "stale", "done"}
Times == 0..MaxNow

VARIABLES
    now,
    marker,         \* the entry under https://worker/last-failure: a time, or None
    cached,         \* the entry of the URL: the origin it came from, or None
    writes,         \* cache writes behind waitUntil that have not landed
    req,            \* the requests
    failures        \* times at which a request saw the primary fail (history)

edge == <<marker, cached, writes>>
vars == <<now, edge, req, failures>>

Writes == [key: {"marker"}, val: Times] \cup [key: {"url"}, val: Origins]

(* A request: its deployment, lastFailureTime, when it chose, which origins *)
(* failed it, its answer and where from, and whether the URL was cached     *)
(* when it arrived.                                                         *)
Requests ==
    [pc: PCs, env: Configs \cup {None}, last: Times \cup {None}, chose: Times \cup {None},
     failed: SUBSET Origins, answer: Answers \cup {"empty", None},
     from: Origins \cup {"cache", None}, warm: BOOLEAN]
NoRequest == [pc |-> "free", env |-> None, last |-> None, chose |-> None, failed |-> {},
              answer |-> None, from |-> None, warm |-> FALSE]

TypeOK ==
    /\ now \in Times
    /\ marker \in Times \cup {None} /\ cached \in Origins \cup {None}
    /\ writes \subseteq Writes
    /\ failures \subseteq Times
    /\ req \in [Reqs -> Requests]
    /\ \A r \in Reqs : req[r].pc # "free" => req[r].env \in Configs

Init ==
    /\ now = 0 /\ marker = None /\ cached = None /\ writes = {}
    /\ req = [r \in Reqs |-> NoRequest]
    /\ failures = {}

At(r, l) == req[r].pc = l
Goto(r, l) == req' = [req EXCEPT ![r].pc = l]
(* The response is sent. *)
Respond(r, a, from, failed) ==
    req' = [req EXCEPT ![r].pc = "done", ![r].answer = a, ![r].from = from, ![r].failed = failed]

(* An origin is up or down at any time; OUTAGE sends the requests for the   *)
(* primary to an unroutable address.                                        *)
Fetched(r, o) ==
    IF o = "primary" /\ req[r].env.outage THEN Errors ELSE Answers

(* Mutant: only 5xx counts. *)
IsFailureServerOnly(r, a) == a = "server"

(* isFailure, or an exception. *)
IsFailure(r, a) == a \in Errors \/ (req[r].env.outage /\ a # "ok")

(* The origins that failed r, once o has answered a. *)
FailedWith(r, o, a) == IF a \in Errors THEN req[r].failed \cup {o} ELSE req[r].failed

(* Line 148: an answer that is ok is cached, whoever gave it. *)
Answered(r, o, a) ==
    /\ Respond(r, a, o, FailedWith(r, o, a))
    /\ writes' = IF a = "ok" THEN writes \cup {[key |-> "url", val |-> o]} ELSE writes

-----------------------------------------------------------------------------
(* A request. *)

(* The worker may have been redeployed since the last request.  Failover    *)
(* mode does not look into the cache first.                                 *)
Arrive(r, c) ==
    /\ At(r, "free")
    /\ req' = [req EXCEPT ![r].pc = IF c.standby THEN "marker" ELSE "lookup",
                          ![r].env = c, ![r].warm = cached # None]
    /\ UNCHANGED <<now, edge, failures>>

Lookup(r) ==
    /\ At(r, "lookup")
    /\ IF cached # None THEN Respond(r, "ok", "cache", {}) ELSE Goto(r, "marker")
    /\ UNCHANGED <<now, edge, failures>>

ReadMarker(r) ==
    /\ At(r, "marker")
    /\ req' = [req EXCEPT ![r].last = marker, ![r].pc = "choose"]
    /\ UNCHANGED <<now, edge, failures>>

(* Still inside the hold window; no marker reads as time 0, long ago. *)
InHold(r) ==
    /\ req[r].env.standby /\ Hold > 0
    /\ req[r].last # None
    /\ now - req[r].last < Hold

Choose(r) ==
    /\ At(r, "choose")
    /\ req' = [req EXCEPT ![r].chose = now, ![r].last = None,
                          ![r].pc = IF InHold(r) THEN "standbyFirst" ELSE "primary"]
    /\ UNCHANGED <<now, edge, failures>>

(* Mutant: an answer of the standby renews the hold. *)
StandbyFirstRenews(r) ==
    /\ At(r, "standbyFirst")
    /\ \E a \in Fetched(r, "standby") :
          IF IsFailure(r, a)
          THEN req' = [req EXCEPT ![r].pc = "primaryLast", ![r].failed = {"standby"}] /\ UNCHANGED writes
          ELSE /\ Respond(r, a, "standby", {})
               /\ writes' = writes \cup {[key |-> "marker", val |-> now]}
    /\ UNCHANGED <<now, marker, cached, failures>>

(* In the hold window: the standby, and if it fails the primary. *)
StandbyFirst(r) ==
    /\ At(r, "standbyFirst")
    /\ \E a \in Fetched(r, "standby") :
          IF IsFailure(r, a)
          THEN req' = [req EXCEPT ![r].pc = "primaryLast", ![r].failed = {"standby"}] /\ UNCHANGED writes
          ELSE Answered(r, "standby", a)
    /\ UNCHANGED <<now, marker, cached, failures>>

(* Not checked, not caught: the client gets what it gives. *)
PrimaryLast(r) ==
    /\ At(r, "primaryLast")
    /\ \E a \in Fetched(r, "primary") : Answered(r, "primary", a)
    /\ UNCHANGED <<now, marker, cached, failures>>

(* What is marked: the time of the failure (mutant: the end of the hold). *)
MarkerUntil(t) == [key |-> "marker", val |-> t + Hold]
Marker(t) == [key |-> "marker", val |-> t]

(* The primary; a failure is marked if there is a standby. *)
Primary(r) ==
    /\ At(r, "primary")
    /\ \E a \in Fetched(r, "primary") :
          IF ~IsFailure(r, a) THEN Answered(r, "primary", a) /\ UNCHANGED failures
          ELSE /\ req' = [req EXCEPT ![r].failed = {"primary"},
                                     ![r].pc = IF req[r].env.standby THEN "standbyLast" ELSE "stale"]
               /\ IF req[r].env.standby
                  THEN /\ writes' = writes \cup {Marker(now)}
                       /\ failures' = failures \cup {now}
                  ELSE UNCHANGED <<writes, failures>>
    /\ UNCHANGED <<now, marker, cached>>

(* Not checked, not caught. *)
StandbyLast(r) ==
    /\ At(r, "standbyLast")
    /\ \E a \in Fetched(r, "standby") : Answered(r, "standby", a)
    /\ UNCHANGED <<now, marker, cached, failures>>

(* No standby: what another request has cached meanwhile, or 503. *)
Stale(r) ==
    /\ At(r, "stale")
    /\ IF cached # None THEN Respond(r, "ok", "cache", req[r].failed)
       ELSE Respond(r, "empty", None, req[r].failed)
    /\ UNCHANGED <<now, edge, failures>>

-----------------------------------------------------------------------------
(* The edge and time. *)

Land(w) ==
    /\ w \in writes
    /\ writes' = writes \ {w}
    /\ IF w.key = "marker" THEN marker' = w.val /\ UNCHANGED cached
       ELSE cached' = w.val /\ UNCHANGED marker
    /\ UNCHANGED <<now, req, failures>>

Tick ==
    /\ now < MaxNow /\ now' = now + 1
    /\ UNCHANGED <<edge, req, failures>>

Step(r) ==
    \/ \E c \in Configs : Arrive(r, c)
    \/ Lookup(r) \/ ReadMarker(r) \/ Choose(r) \/ StandbyFirst(r)
    \/ PrimaryLast(r) \/ Primary(r) \/ StandbyLast(r) \/ Stale(r)

Next ==
    \/ \E r \in Reqs : Step(r)
    \/ \E w \in writes : Land(w)
    \/ Tick

Spec == Init /\ [][Next]_vars

-----------------------------------------------------------------------------
(* What the worker promises. *)

(* "returns to primary when the window expires": a client is served by the  *)
(* standby only if the primary failed its own request, or failed somebody's *)
(* less than HOLD_MS before the request chose, however the requests         *)
(* overlap and whichever marker writes land late, out of order or never.    *)
StandbyEarned ==
    \A r \in Reqs :
        req[r].from = "standby" =>
            \/ "primary" \in req[r].failed
            \/ \E t \in failures : 0 <= req[r].chose - t /\ req[r].chose - t < Hold

(* A client sees an error only if everything that could have served it      *)
(* failed during its own request: every origin of its deployment and, with  *)
(* no standby, a cache that held nothing when it arrived ("a warm edge      *)
(* cache makes an origin outage invisible to reads").                       *)
FailsOnlyIfAllFail ==
    \A r \in Reqs :
        req[r].answer \in Errors \cup {"empty"} =>
            IF req[r].env.standby THEN req[r].failed = Origins
            ELSE "primary" \in req[r].failed /\ ~req[r].warm
=============================================================================
