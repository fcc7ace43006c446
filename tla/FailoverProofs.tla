--------------------------- MODULE FailoverProofs ----------------------------
(***************************************************************************)
(* Proofs about Failover, for any number of requests, any deployments and  *)
(* any hold.  IInv says of every request, at every point of the handler,   *)
(* what it already knows: which origins have failed it, and that the       *)
(* marker it read is the time of a real failure.                           *)
(***************************************************************************)
EXTENDS Failover, TLAPS

(* The primary failed somebody less than Hold before q chose, f being the   *)
(* times of its failures.                                                   *)
Recent(q, f) == \E t \in f : 0 <= q.chose - t /\ q.chose - t < Hold

(* Every marker, wherever it is, is the time of a failure of the primary. *)
MarksReal ==
    /\ marker # None => marker \in failures
    /\ \A w \in writes : w.key = "marker" => w.val \in failures

(* What holds of a request q at its point of the handler. *)
Underway(q, f) ==
    /\ q.pc # "free" => q.env \in Configs
    /\ q.pc # "done" => q.answer = None /\ q.from = None
    /\ q.last # None => q.last \in f
    /\ q.pc = "standbyFirst" => q.env.standby /\ Recent(q, f)
    /\ q.pc = "primaryLast" => q.env.standby /\ "standby" \in q.failed
    /\ q.pc = "standbyLast" => q.env.standby /\ "primary" \in q.failed
    /\ q.pc = "stale" => ~q.env.standby /\ "primary" \in q.failed
    /\ q.pc = "lookup" => ~q.env.standby

(* A cache that held the URL when q arrived still holds it, c being what    *)
(* the cache holds; so a request with no standby that gets past the lookup  *)
(* found the cache cold when it arrived.                                    *)
Warmth(q, c) ==
    /\ q.warm => c # None
    /\ q.pc \notin {"free", "lookup", "done"} /\ ~q.env.standby => ~q.warm

(* What StandbyEarned and FailsOnlyIfAllFail say of q. *)
Outcome(q, f) ==
    /\ q.from = "standby" => "primary" \in q.failed \/ Recent(q, f)
    /\ q.answer \in Errors \cup {"empty"} =>
          IF q.env.standby THEN q.failed = Origins ELSE "primary" \in q.failed /\ ~q.warm

RequestOK(q, f, c) == q \in Requests /\ Underway(q, f) /\ Warmth(q, c) /\ Outcome(q, f)

EdgeOK ==
    /\ now \in Times
    /\ marker \in Times \cup {None} /\ cached \in Origins \cup {None}
    /\ writes \subseteq Writes
    /\ failures \subseteq 0..now

IInv ==
    /\ EdgeOK /\ MarksReal
    /\ req \in [Reqs -> Requests]
    /\ \A r \in Reqs : RequestOK(req[r], failures, cached)

-----------------------------------------------------------------------------
LEMMA InitIInv == Init => IInv
<1> SUFFICES ASSUME Init PROVE IInv  OBVIOUS
<1> USE HoldAssumption, NoneAssumption
<1>1. EdgeOK /\ MarksReal
    BY DEF Init, EdgeOK, MarksReal, Times, Origins
<1>2. NoRequest \in Requests
    BY DEF NoRequest, Requests, PCs, Times, Answers, Origins
<1>3. Underway(NoRequest, failures) /\ Warmth(NoRequest, cached) /\ Outcome(NoRequest, failures)
    BY DEF NoRequest, Underway, Warmth, Outcome, Errors, Origins
<1> QED  BY <1>1, <1>2, <1>3 DEF Init, IInv, RequestOK

(* What is known of a request stays known when failures are added and the   *)
(* cache is not emptied.                                                    *)
LEMMA Kept ==
    ASSUME NEW q, NEW f, NEW g, NEW c, NEW d, RequestOK(q, f, c), f \subseteq g, c # None => d # None
    PROVE  RequestOK(q, g, d)
BY DEF RequestOK, Underway, Warmth, Outcome, Recent

(* One request moves, to q. *)
LEMMA OneMoves ==
    ASSUME IInv, NEW r \in Reqs, NEW q, EdgeOK', MarksReal', failures \subseteq failures',
           cached # None => cached' # None, req' = [req EXCEPT ![r] = q],
           RequestOK(q, failures', cached')
    PROVE  IInv'
<1>1. req' \in [Reqs -> Requests]
    BY DEF IInv, RequestOK
<1>2. ASSUME NEW s \in Reqs PROVE RequestOK(req'[s], failures', cached')
    <2>1. CASE s = r
        BY <2>1 DEF IInv
    <2>2. CASE s # r
        <3>1. RequestOK(req[s], failures, cached)  BY DEF IInv
        <3>2. RequestOK(req[s], failures', cached')  BY <3>1, Kept
        <3> QED  BY <2>2, <3>2 DEF IInv
    <2> QED  BY <2>1, <2>2
<1> QED  BY <1>1, <1>2 DEF IInv

(* A request moves and writes nothing. *)
LEMMA OnlyMoves ==
    ASSUME IInv, NEW r \in Reqs, NEW q, UNCHANGED <<now, edge, failures>>,
           req' = [req EXCEPT ![r] = q], RequestOK(q, failures, cached)
    PROVE  IInv'
<1>1. EdgeOK' /\ MarksReal'
    BY DEF IInv, EdgeOK, MarksReal, edge
<1> QED  BY <1>1, OneMoves DEF edge

(* Nobody moves. *)
LEMMA NoneMoves ==
    ASSUME IInv, EdgeOK', MarksReal', UNCHANGED <<req, failures>>, cached # None => cached' # None
    PROVE  IInv'
<1>1. ASSUME NEW s \in Reqs PROVE RequestOK(req'[s], failures', cached')
    <2>1. RequestOK(req[s], failures, cached)  BY DEF IInv
    <2> QED  BY <2>1, Kept
<1> QED  BY <1>1 DEF IInv

-----------------------------------------------------------------------------
(* One lemma per step of a request. *)

LEMMA ArriveKeeps ==
    ASSUME IInv, NEW r \in Reqs, NEW c \in Configs, Arrive(r, c) PROVE IInv'
<1> DEFINE q == [req[r] EXCEPT !.pc = IF c.standby THEN "marker" ELSE "lookup",
                               !.env = c, !.warm = cached # None]
<1>1. req[r] \in Requests /\ RequestOK(req[r], failures, cached) /\ req[r].pc = "free"
    BY DEF IInv, Arrive, At
<1>2. req' = [req EXCEPT ![r] = q] /\ UNCHANGED <<now, edge, failures>>
    BY <1>1 DEF Arrive, IInv, Requests
<1>3. c.standby \in BOOLEAN
    BY ConfigsAssumption
<1>4. q \in Requests
    BY <1>1, <1>3 DEF Requests, PCs
<1>5. Underway(q, failures) /\ Warmth(q, cached) /\ Outcome(q, failures)
    BY <1>1, <1>3, NoneAssumption DEF Requests, RequestOK, Underway, Warmth, Outcome, Recent, Errors
<1> HIDE DEF q
<1>6. RequestOK(q, failures, cached)
    BY <1>4, <1>5 DEF RequestOK
<1> QED  BY <1>2, <1>6, OnlyMoves

LEMMA LookupKeeps ==
    ASSUME IInv, NEW r \in Reqs, Lookup(r) PROVE IInv'
<1>1. req[r] \in Requests /\ RequestOK(req[r], failures, cached) /\ req[r].pc = "lookup"
    BY DEF IInv, Lookup, At
<1>2. UNCHANGED <<now, edge, failures>>
    BY DEF Lookup
<1>3. CASE cached # None
    <2> DEFINE q == [req[r] EXCEPT !.pc = "done", !.answer = "ok", !.from = "cache", !.failed = {}]
    <2>1. req' = [req EXCEPT ![r] = q]
        BY <1>1, <1>3 DEF Lookup, Respond, IInv, Requests
    <2>2. RequestOK(q, failures, cached)
        BY <1>1, <1>3 DEF Requests, PCs, Answers, RequestOK, Underway, Warmth, Outcome, Recent, Errors
    <2> HIDE DEF q
    <2> QED  BY <1>2, <2>1, <2>2, OnlyMoves
<1>4. CASE cached = None
    <2> DEFINE q == [req[r] EXCEPT !.pc = "marker"]
    <2>1. req' = [req EXCEPT ![r] = q]
        BY <1>1, <1>4 DEF Lookup, Goto, IInv, Requests
    <2>2. RequestOK(q, failures, cached)
        BY <1>1, <1>4, NoneAssumption
        DEF Requests, PCs, RequestOK, Underway, Warmth, Outcome, Recent, Errors
    <2> HIDE DEF q
    <2> QED  BY <1>2, <2>1, <2>2, OnlyMoves
<1> QED  BY <1>3, <1>4

LEMMA ReadMarkerKeeps ==
    ASSUME IInv, NEW r \in Reqs, ReadMarker(r) PROVE IInv'
<1> DEFINE q == [req[r] EXCEPT !.last = marker, !.pc = "choose"]
<1>1. req[r] \in Requests /\ RequestOK(req[r], failures, cached) /\ req[r].pc = "marker"
    BY DEF IInv, ReadMarker, At
<1>2. req' = [req EXCEPT ![r] = q] /\ UNCHANGED <<now, edge, failures>>
    BY <1>1 DEF ReadMarker, IInv, Requests
<1>3. marker \in Times \cup {None} /\ (marker # None => marker \in failures)
    BY DEF IInv, EdgeOK, MarksReal
<1>4. RequestOK(q, failures, cached)
    BY <1>1, <1>3, NoneAssumption
    DEF Requests, PCs, RequestOK, Underway, Warmth, Outcome, Recent, Errors
<1> HIDE DEF q
<1> QED  BY <1>2, <1>4, OnlyMoves

(* The marker that was read is the time of a failure, so a request that     *)
(* finds itself inside the hold has its failure.                            *)
LEMMA ChooseKeeps ==
    ASSUME IInv, NEW r \in Reqs, Choose(r) PROVE IInv'
<1> DEFINE q == [req[r] EXCEPT !.chose = now, !.last = None,
                               !.pc = IF InHold(r) THEN "standbyFirst" ELSE "primary"]
<1>1. req[r] \in Requests /\ RequestOK(req[r], failures, cached) /\ req[r].pc = "choose"
    BY DEF IInv, Choose, At
<1>2. req' = [req EXCEPT ![r] = q] /\ UNCHANGED <<now, edge, failures>>
    BY <1>1 DEF Choose, IInv, Requests
<1>3. now \in Times /\ failures \subseteq 0..now
    BY DEF IInv, EdgeOK
<1>4. ASSUME InHold(r) PROVE req[r].env.standby /\ Recent(q, failures)
    <2>1. req[r].last \in failures /\ now - req[r].last < Hold /\ req[r].env.standby
        BY <1>1, <1>4 DEF InHold, RequestOK, Underway
    <2>2. 0 <= now - req[r].last
        <3>1. now \in Int
            BY <1>3, HoldAssumption DEF Times
        <3>2. req[r].last \in 0..now
            BY <1>3, <2>1
        <3> DEFINE l == req[r].last
        <3>3. l \in 0..now  BY <3>2
        <3> HIDE DEF l
        <3>4. 0 <= now - l  BY <3>1, <3>3
        <3> QED  BY <3>4 DEF l
    <2>3. q.chose = now
        BY <1>1 DEF Requests
    <2> QED  BY <2>1, <2>2, <2>3 DEF Recent
<1> DEFINE hold == InHold(r)
<1>5. hold => req[r].env.standby /\ Recent(q, failures)
    BY <1>4
<1> HIDE DEF hold
<1>6. q = [req[r] EXCEPT !.chose = now, !.last = None, !.pc = IF hold THEN "standbyFirst" ELSE "primary"]
    BY DEF hold
<1> HIDE DEF q
<1>7. q \in Requests
    BY <1>1, <1>3, <1>6 DEF Requests, PCs
<1>8. Underway(q, failures)
    BY <1>1, <1>5, <1>6 DEF Requests, RequestOK, Underway
<1>9. Warmth(q, cached) /\ Outcome(q, failures)
    BY <1>1, <1>6, NoneAssumption DEF Requests, RequestOK, Underway, Warmth, Outcome, Errors
<1>10. RequestOK(q, failures, cached)
    BY <1>7, <1>8, <1>9 DEF RequestOK
<1> QED  BY <1>2, <1>10, OnlyMoves

(* An answer that is given to the client, by origin o: q is the request     *)
(* afterwards, and the cache may get a write.                               *)
LEMMA AnsweredKeeps ==
    ASSUME IInv, NEW r \in Reqs, NEW o \in Origins, NEW a \in Answers, Answered(r, o, a),
           UNCHANGED <<now, marker, cached, failures>>, req[r].pc \notin {"free", "lookup", "done"},
           o = "standby" => "primary" \in req[r].failed \/ Recent(req[r], failures),
           a \in Errors /\ req[r].env.standby => req[r].failed \cup {o} = Origins,
           a \in Errors /\ ~req[r].env.standby => o = "primary"
    PROVE  IInv'
<1> DEFINE q == [req[r] EXCEPT !.pc = "done", !.answer = a, !.from = o, !.failed = FailedWith(r, o, a)]
<1>1. req[r] \in Requests /\ RequestOK(req[r], failures, cached)
    BY DEF IInv
<1>2. req' = [req EXCEPT ![r] = q]
    BY <1>1 DEF Answered, Respond, IInv, Requests
<1>3. EdgeOK' /\ MarksReal'
    BY DEF IInv, EdgeOK, MarksReal, Answered, Writes
<1>4. FailedWith(r, o, a) \subseteq Origins /\ req[r].failed \subseteq FailedWith(r, o, a)
    BY <1>1 DEF FailedWith, Requests
<1>5. a \in Errors => FailedWith(r, o, a) = req[r].failed \cup {o}
    BY DEF FailedWith
<1> DEFINE w == FailedWith(r, o, a)
<1>6. q = [req[r] EXCEPT !.pc = "done", !.answer = a, !.from = o, !.failed = w] /\ w \subseteq Origins
      /\ req[r].failed \subseteq w /\ (a \in Errors => w = req[r].failed \cup {o})
    BY <1>4, <1>5
<1> HIDE DEF q, w
<1>7. q \in Requests
    BY <1>1, <1>6 DEF Requests, PCs, Origins
<1>8. q.pc = "done" /\ q.answer = a /\ q.from = o /\ q.failed = w /\ q.env = req[r].env
      /\ q.warm = req[r].warm /\ q.chose = req[r].chose /\ q.last = req[r].last
    BY <1>1, <1>6 DEF Requests
<1>9. Underway(q, failures) /\ Warmth(q, cached)
    BY <1>1, <1>8 DEF RequestOK, Underway, Warmth
<1>10. Outcome(q, failures)
    <2>1. q.from = "standby" => "primary" \in q.failed \/ Recent(q, failures)
        BY <1>6, <1>8 DEF Recent
    <2>2. q.answer \in Errors \cup {"empty"} => a \in Errors
        BY <1>8 DEF Answers, Errors
    <2>3. ~req[r].env.standby => ~q.warm
        BY <1>1, <1>8 DEF RequestOK, Warmth
    <2> QED  BY <1>6, <1>8, <2>1, <2>2, <2>3 DEF Outcome
<1>11. RequestOK(q, failures', cached')
    BY <1>7, <1>9, <1>10 DEF RequestOK
<1> QED  BY <1>2, <1>3, <1>11, OneMoves

LEMMA StandbyFirstKeeps ==
    ASSUME IInv, NEW r \in Reqs, StandbyFirst(r) PROVE IInv'
<1>1. req[r] \in Requests /\ RequestOK(req[r], failures, cached) /\ req[r].pc = "standbyFirst"
      /\ UNCHANGED <<now, marker, cached, failures>>
    BY DEF IInv, StandbyFirst, At
<1>2. req[r].env.standby /\ Recent(req[r], failures)
    BY <1>1 DEF RequestOK, Underway
<1>3. PICK a \in Fetched(r, "standby") :
          IF IsFailure(r, a)
          THEN req' = [req EXCEPT ![r].pc = "primaryLast", ![r].failed = {"standby"}] /\ UNCHANGED writes
          ELSE Answered(r, "standby", a)
    BY DEF StandbyFirst
<1>4. CASE IsFailure(r, a)
    <2> DEFINE q == [req[r] EXCEPT !.pc = "primaryLast", !.failed = {"standby"}]
    <2>1. req' = [req EXCEPT ![r] = q] /\ UNCHANGED <<now, edge, failures>>
        BY <1>1, <1>3, <1>4 DEF IInv, Requests, edge
    <2>2. RequestOK(q, failures, cached)
        BY <1>1, <1>2, NoneAssumption
        DEF Requests, PCs, Origins, RequestOK, Underway, Warmth, Outcome, Errors
    <2> HIDE DEF q
    <2> QED  BY <2>1, <2>2, OnlyMoves
<1>5. CASE ~IsFailure(r, a)
    <2>1. Answered(r, "standby", a) /\ a \in Answers /\ a \notin Errors
        BY <1>3, <1>5 DEF Fetched, IsFailure
    <2> QED  BY <1>1, <1>2, <2>1, AnsweredKeeps DEF Origins
<1> QED  BY <1>4, <1>5

LEMMA PrimaryLastKeeps ==
    ASSUME IInv, NEW r \in Reqs, PrimaryLast(r) PROVE IInv'
<1>1. req[r] \in Requests /\ RequestOK(req[r], failures, cached) /\ req[r].pc = "primaryLast"
      /\ UNCHANGED <<now, marker, cached, failures>>
    BY DEF IInv, PrimaryLast, At
<1>2. PICK a \in Fetched(r, "primary") : Answered(r, "primary", a)
    BY DEF PrimaryLast
<1>3. a \in Answers
    BY DEF Fetched, Answers, Errors
<1>4. req[r].failed \cup {"primary"} = Origins /\ req[r].env.standby
    BY <1>1 DEF RequestOK, Underway, Requests, Origins
<1> QED  BY <1>1, <1>2, <1>3, <1>4, AnsweredKeeps DEF Origins

LEMMA StandbyLastKeeps ==
    ASSUME IInv, NEW r \in Reqs, StandbyLast(r) PROVE IInv'
<1>1. req[r] \in Requests /\ RequestOK(req[r], failures, cached) /\ req[r].pc = "standbyLast"
      /\ UNCHANGED <<now, marker, cached, failures>>
    BY DEF IInv, StandbyLast, At
<1>2. PICK a \in Fetched(r, "standby") : Answered(r, "standby", a)
    BY DEF StandbyLast
<1>3. a \in Answers
    BY DEF Fetched, Answers, Errors
<1>4. req[r].failed \cup {"standby"} = Origins /\ req[r].env.standby /\ "primary" \in req[r].failed
    BY <1>1 DEF RequestOK, Underway, Requests, Origins
<1> QED  BY <1>1, <1>2, <1>3, <1>4, AnsweredKeeps DEF Origins

LEMMA PrimaryKeeps ==
    ASSUME IInv, NEW r \in Reqs, Primary(r) PROVE IInv'
<1>1. req[r] \in Requests /\ RequestOK(req[r], failures, cached) /\ req[r].pc = "primary"
      /\ UNCHANGED <<now, marker, cached>> /\ EdgeOK /\ MarksReal
    BY DEF IInv, Primary, At
<1>2. PICK a \in Fetched(r, "primary") :
          IF ~IsFailure(r, a) THEN Answered(r, "primary", a) /\ UNCHANGED failures
          ELSE /\ req' = [req EXCEPT ![r].failed = {"primary"},
                                     ![r].pc = IF req[r].env.standby THEN "standbyLast" ELSE "stale"]
               /\ IF req[r].env.standby
                  THEN /\ writes' = writes \cup {Marker(now)}
                       /\ failures' = failures \cup {now}
                  ELSE UNCHANGED <<writes, failures>>
    BY DEF Primary
<1>3. CASE ~IsFailure(r, a)
    <2>1. Answered(r, "primary", a) /\ UNCHANGED failures /\ a \in Answers /\ a \notin Errors
        BY <1>2, <1>3 DEF Fetched, IsFailure, Answers, Errors
    <2> QED  BY <1>1, <2>1, AnsweredKeeps DEF Origins
<1>4. CASE IsFailure(r, a)
    <2> DEFINE q == [req[r] EXCEPT !.failed = {"primary"},
                                   !.pc = IF req[r].env.standby THEN "standbyLast" ELSE "stale"]
    <2>1. req' = [req EXCEPT ![r] = q]
        BY <1>1, <1>2, <1>4 DEF IInv, Requests
    <2>2. q \in Requests
        BY <1>1 DEF Requests, PCs, Origins
    <2>3. Underway(q, failures) /\ Warmth(q, cached) /\ Outcome(q, failures)
        BY <1>1, NoneAssumption DEF Requests, RequestOK, Underway, Warmth, Outcome, Errors
    <2> HIDE DEF q
    <2>4. RequestOK(q, failures, cached)
        BY <2>2, <2>3 DEF RequestOK
    <2>5. CASE req[r].env.standby
        <3>1. writes' = writes \cup {Marker(now)} /\ failures' = failures \cup {now}
            BY <1>2, <1>4, <2>5
        <3>2. Marker(now).key = "marker" /\ Marker(now).val = now /\ Marker(now) \in Writes
            BY <1>1 DEF Marker, Writes, EdgeOK
        <3>3. now \in 0..now
            BY <1>1, HoldAssumption DEF EdgeOK, Times
        <3>4. EdgeOK'
            BY <1>1, <3>1, <3>2, <3>3 DEF EdgeOK
        <3>5. MarksReal'
            BY <1>1, <3>1, <3>2 DEF MarksReal
        <3>6. RequestOK(q, failures', cached')
            BY <1>1, <2>4, <3>1, Kept
        <3> QED  BY <1>1, <2>1, <3>1, <3>4, <3>5, <3>6, OneMoves
    <2>6. CASE ~req[r].env.standby
        BY <1>1, <1>2, <1>4, <2>1, <2>4, <2>6, OnlyMoves DEF edge
    <2> QED  BY <2>5, <2>6
<1> QED  BY <1>3, <1>4

LEMMA StaleKeeps ==
    ASSUME IInv, NEW r \in Reqs, Stale(r) PROVE IInv'
<1>1. req[r] \in Requests /\ RequestOK(req[r], failures, cached) /\ req[r].pc = "stale"
      /\ UNCHANGED <<now, edge, failures>>
    BY DEF IInv, Stale, At
<1>2. CASE cached # None
    <2> DEFINE q == [req[r] EXCEPT !.pc = "done", !.answer = "ok", !.from = "cache", !.failed = req[r].failed]
    <2>1. req' = [req EXCEPT ![r] = q]
        BY <1>1, <1>2 DEF Stale, Respond, IInv, Requests
    <2>2. RequestOK(q, failures, cached)
        BY <1>1, <1>2 DEF Requests, PCs, Answers, RequestOK, Underway, Warmth, Outcome, Errors
    <2> HIDE DEF q
    <2> QED  BY <1>1, <2>1, <2>2, OnlyMoves
<1>3. CASE cached = None
    <2> DEFINE q == [req[r] EXCEPT !.pc = "done", !.answer = "empty", !.from = None, !.failed = req[r].failed]
    <2>1. req' = [req EXCEPT ![r] = q]
        BY <1>1, <1>3 DEF Stale, Respond, IInv, Requests
    <2>2. q \in Requests /\ Underway(q, failures) /\ Warmth(q, cached)
        BY <1>1, <1>3 DEF Requests, PCs, RequestOK, Underway, Warmth
    <2>3. Outcome(q, failures)
        BY <1>1, NoneAssumption DEF Requests, RequestOK, Underway, Warmth, Outcome
    <2> HIDE DEF q
    <2>4. RequestOK(q, failures, cached)
        BY <2>2, <2>3 DEF RequestOK
    <2> QED  BY <1>1, <2>1, <2>4, OnlyMoves
<1> QED  BY <1>2, <1>3

-----------------------------------------------------------------------------
(* The edge and time. *)

LEMMA LandKeeps ==
    ASSUME IInv, NEW w \in writes, Land(w) PROVE IInv'
<1>1. EdgeOK /\ MarksReal /\ w \in Writes /\ writes' \subseteq writes /\ UNCHANGED <<now, req, failures>>
    BY DEF IInv, EdgeOK, Land
<1>2. CASE w.key = "marker"
    <2>1. marker' = w.val /\ UNCHANGED cached /\ w.val \in Times
        BY <1>1, <1>2 DEF Land, Writes
    <2>2. EdgeOK' /\ MarksReal'
        BY <1>1, <1>2, <2>1 DEF EdgeOK, MarksReal
    <2> QED  BY <1>1, <2>1, <2>2, NoneMoves
<1>3. CASE w.key # "marker"
    <2>1. cached' = w.val /\ UNCHANGED marker /\ w.val \in Origins
        BY <1>1, <1>3 DEF Land, Writes
    <2>2. EdgeOK' /\ MarksReal' /\ cached' # None
        BY <1>1, <2>1, NoneAssumption DEF EdgeOK, MarksReal, Origins
    <2> QED  BY <1>1, <2>2, NoneMoves
<1> QED  BY <1>2, <1>3

LEMMA TickKeeps ==
    ASSUME IInv, Tick PROVE IInv'
<1>1. EdgeOK /\ MarksReal /\ now' = now + 1 /\ now < MaxNow /\ UNCHANGED <<edge, req, failures>>
    BY DEF IInv, Tick
<1>2. now' \in Times /\ 0..now \subseteq 0..now'
    BY <1>1, HoldAssumption DEF EdgeOK, Times
<1>3. EdgeOK' /\ MarksReal' /\ UNCHANGED cached
    BY <1>1, <1>2 DEF EdgeOK, MarksReal, edge
<1> QED  BY <1>1, <1>3, NoneMoves

LEMMA NextIInv == IInv /\ [Next]_vars => IInv'
<1> SUFFICES ASSUME IInv, [Next]_vars PROVE IInv'  OBVIOUS
<1>1. ASSUME NEW r \in Reqs, Step(r) PROVE IInv'
    BY <1>1, ArriveKeeps, LookupKeeps, ReadMarkerKeeps, ChooseKeeps, StandbyFirstKeeps,
       PrimaryLastKeeps, PrimaryKeeps, StandbyLastKeeps, StaleKeeps DEF Step
<1>2. ASSUME NEW w \in writes, Land(w) PROVE IInv'
    BY <1>2, LandKeeps
<1>3. CASE Tick
    BY <1>3, TickKeeps
<1>4. CASE UNCHANGED vars
    <2>1. EdgeOK' /\ MarksReal'
        BY <1>4 DEF IInv, EdgeOK, MarksReal, vars, edge
    <2> QED  BY <1>4, <2>1, NoneMoves DEF vars, edge
<1> QED  BY <1>1, <1>2, <1>3, <1>4 DEF Next

LEMMA Invariant == Spec => []IInv
BY InitIInv, NextIInv, PTL DEF Spec

-----------------------------------------------------------------------------
(* The state of the worker and of the edge cache keeps its types, and a     *)
(* request under way has a deployment.                                      *)
THEOREM TypeCorrect == Spec => []TypeOK
<1>1. ASSUME IInv PROVE TypeOK
    <2>1. now \in Times /\ marker \in Times \cup {None} /\ cached \in Origins \cup {None}
          /\ writes \subseteq Writes /\ req \in [Reqs -> Requests]
        BY <1>1 DEF IInv, EdgeOK
    <2>2. failures \subseteq Times
        <3>1. 0..now \subseteq Times
            BY <2>1, HoldAssumption DEF Times
        <3> QED  BY <1>1, <3>1 DEF IInv, EdgeOK
    <2>3. \A r \in Reqs : req[r].pc # "free" => req[r].env \in Configs
        BY <1>1 DEF IInv, RequestOK, Underway
    <2> QED  BY <2>1, <2>2, <2>3 DEF TypeOK
<1> QED  BY <1>1, Invariant, PTL

(* A client is served by the standby only after a failure of the primary    *)
(* that it met itself or that is younger than HOLD_MS, for any number of    *)
(* overlapping requests and any fate of the marker's writes.                *)
THEOREM StandbyOnlyWhenEarned == Spec => []StandbyEarned
<1>1. IInv => StandbyEarned
    BY DEF IInv, RequestOK, Outcome, Recent, StandbyEarned
<1> QED  BY <1>1, Invariant, PTL

(* An error reaches a client only if every origin of its deployment failed  *)
(* it and, with no standby, the cache was cold when it arrived.             *)
THEOREM ErrorOnlyWhenAllFail == Spec => []FailsOnlyIfAllFail
<1>1. IInv => FailsOnlyIfAllFail
    BY DEF IInv, RequestOK, Outcome, FailsOnlyIfAllFail
<1> QED  BY <1>1, Invariant, PTL
=============================================================================
