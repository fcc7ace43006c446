---------------------------- MODULE RunbookProofs ----------------------------
(***************************************************************************)
(* Proofs about Runbook, for every policy, any probes and any history of   *)
(* restarts.                                                               *)
(*                                                                         *)
(* Between the observation a decision uses and the restart it sends there  *)
(* are up to three awaited calls, and an operator who restarts meanwhile.  *)
(* IInv says, at each of these awaits, how old the observation and the     *)
(* cached readings can be, and that the decision still holds: a restart    *)
(* recorded after the one being sent is not earlier than it.               *)
(***************************************************************************)
EXTENDS Runbook, FiniteSetTheorems, TLAPS

Times == Int \cup {None}
Runs == [at : Int, samples : Nat]
Views == {"proceed", "blocked", "unreadable"}
Flags == BOOLEAN
States == {"ACTIVE_HEALTHY", "other", None}
OptViews == Views \cup {None}
FailRuns == [Triggers -> Runs \cup {None}]
OkTimes == [Triggers -> Times]
EpisodeTypes ==
    [start : Times, round : Times, obs : Times, failSince : FailRuns, okSince : Times,
     detected : Flags, failOpen : Flags, status : States, statusAt : Times,
     gate : OptViews, gateAt : Times, sent : Times, post : Times,
     statusRead : Times, gateRead : Times, against : Flags, lastOk : OkTimes, lastBad : Times]

(* The longest time from an observation to the end of its round. *)
Rest == Max({Interval, 3 * Slow})

(* The caches are as old as they look: a reading is dated by the            *)
(* observation it was made for, which is not later.                         *)
CachesDated(e) ==
    /\ e.statusAt # None => e.statusRead # None /\ e.statusAt <= e.statusRead
    /\ e.post = None /\ e.gateAt # None => e.gateRead # None /\ e.gateAt <= e.gateRead
    /\ e.gateAt # None /\ e.gate # "blocked" => ~e.against

(* A run of failures began after the last good sample, a run of good rounds *)
(* after the last bad one and after the restart.                            *)
RunsReal(e, t) ==
    /\ \A p \in Triggers :
          /\ e.lastOk[p] # None /\ e.lastOk[p] <= t
          /\ e.failSince[p] # None => e.lastOk[p] <= e.failSince[p].at
    /\ e.lastBad # None => e.lastBad <= t
    /\ e.post # None => e.post <= t
    /\ e.okSince # None /\ e.lastBad # None => e.lastBad <= e.okSince
    /\ e.okSince # None /\ e.post # None => e.post <= e.okSince

Underway(e, t) ==
    /\ e \in EpisodeTypes
    /\ e.start # None /\ e.start <= t
    /\ CachesDated(e) /\ RunsReal(e, t)

(* The locals after an observation: the round goes on inside the cap. *)
InRound(e) ==
    /\ e.obs # None /\ e.round # None /\ e.round <= e.obs
    /\ e.obs - e.start < HardStop

(* Before a restart, something being detected. *)
Consulting(e) == InRound(e) /\ e.post = None /\ e.okSince = None /\ Detected(e) # {}

(* What RestartEarned asks of the locals e when a restart is sent at t. *)
Earned(e, t) ==
    /\ \E p \in Triggers : t - e.lastOk[p] >= DetectAfter
    /\ e.status = "ACTIVE_HEALTHY" /\ t - e.statusRead < StatusPoll + Slow
    /\ ~e.against /\ t - e.gateRead < GatePoll + Slow
    /\ e.gate = "unreadable" => e.failOpen

(* A restart at t keeps its distance to the earlier ones. *)
SpacedAt(t) ==
    LET earlier == {r \in restarts : r.at < t}
    IN  /\ \A r \in earlier : t - r.at >= MinInterval
        /\ Cardinality({r \in earlier : t - r.at < Window}) < MaxRestarts

EpisodeOK ==
    /\ pc \in {"idle", "probes", "sleep", "status", "gate", "verify", "post"}
    /\ pc = "idle" => due = None
    /\ pc # "idle" => Underway(ep, now) /\ due \in Int /\ now <= due
    /\ pc = "probes" => /\ ep.round # None /\ ep.round <= now
                        /\ due <= ep.start + HardStop - 1 + Rest + Slow
    /\ pc = "sleep" => due <= ep.start + HardStop - 1 + Rest
    /\ pc = "status" => Consulting(ep) /\ ep.obs <= now /\ due <= ep.obs + Slow
    /\ pc = "gate" => /\ Consulting(ep) /\ ep.obs <= now /\ due <= ep.obs + 2 * Slow
                      /\ ep.statusRead # None /\ due - ep.statusRead < StatusPoll + Slow
    /\ pc = "verify" => InRound(ep) /\ ep.post # None /\ ep.obs <= now /\ due <= ep.obs + Slow
    /\ pc = "post" => /\ InRound(ep) /\ ep.post = None /\ ep.okSince = None
                      /\ ep.sent # None /\ ep.obs <= ep.sent /\ ep.sent <= now
                      /\ due <= ep.obs + 3 * Slow

HistoryOK ==
    /\ IsFiniteSet(restarts)
    /\ restarts \subseteq [at : Int, by : {"runbook", "operator"}]
    /\ \A r \in restarts : r.at <= now
    /\ unrecorded \subseteq Int /\ \A t \in unrecorded : t <= now
    /\ \A t \in Ours : SpacedAt(t)
    /\ pc = "post" => SpacedAt(ep.sent) /\ \A t \in Ours : t <= ep.sent

IInv == now \in Int /\ EpisodeOK /\ HistoryOK /\ RecoveredReal

(* A step keeps IInv, and a restart it sends is earned. *)
StepOK == IInv' /\ (pc # "post" /\ pc' = "post" => Earned(ep', now))

-----------------------------------------------------------------------------
(* Operators. *)

LEMMA MaxPair ==
    ASSUME NEW a \in Int, NEW b \in Int
    PROVE  Max({a, b}) \in Int /\ Max({a, b}) >= a /\ Max({a, b}) >= b /\ Max({a, b}) \in {a, b}
<1>1. \E x \in {a, b} : \A y \in {a, b} : x >= y
    <2>1. CASE a >= b
        BY <2>1
    <2>2. CASE ~(a >= b)
        BY <2>2
    <2> QED  BY <2>1, <2>2
<1>2. Max({a, b}) \in {a, b} /\ \A y \in {a, b} : Max({a, b}) >= y
    BY <1>1 DEF Max
<1> QED  BY <1>2

LEMMA MinPair ==
    ASSUME NEW a \in Nat, NEW b \in Nat
    PROVE  Min({a, b}) \in Nat
<1>1. \E x \in {a, b} : \A y \in {a, b} : x <= y
    <2>1. CASE a <= b
        BY <2>1
    <2>2. CASE ~(a <= b)
        BY <2>2
    <2> QED  BY <2>1, <2>2
<1>2. Min({a, b}) \in {a, b}
    BY <1>1 DEF Min
<1> QED  BY <1>2

LEMMA RestBounds == Rest \in Int /\ Rest >= Interval /\ Rest >= 3 * Slow
<1>1. Interval \in Int /\ 3 * Slow \in Int
    BY TimesAssumption
<1> QED  BY <1>1, MaxPair DEF Rest

LEMMA Ranks ==
    ASSUME NEW s \in Statuses
    PROVE  /\ s = "operational" => Rank(s) = 0
           /\ s = "under_maintenance" => Rank(s) = 1
           /\ s = "unheard of" => Rank(s) = 5
BY DEF Rank

LEMMA RankValues == ASSUME NEW s \in Statuses PROVE Rank(s) \in {0, 1, 5}
BY Ranks DEF Statuses

(* A region is operational only if every component with its name is. *)
LEMMA OperationalMeansAll ==
    ASSUME NEW C \in SUBSET Statuses, RegionStatus(C) = "operational"
    PROVE  C = {"operational"}
<1>1. C # {}
    BY DEF RegionStatus
<1>2. \A c \in C : c \in Statuses /\ c \in {"operational", "under_maintenance", "unheard of"}
    BY DEF Statuses
<1>3. \E s \in C : \A c \in C : Rank(c) <= Rank(s)
    <2>1. ASSUME NEW s \in C, NEW c \in C, s = "unheard of" PROVE Rank(c) <= Rank(s)
        <3>1. Rank(s) = 5 /\ Rank(c) \in {0, 1, 5}
            BY <2>1, Ranks, RankValues
        <3> QED  BY <3>1
    <2>2. ASSUME NEW s \in C, NEW c \in C, s = "under_maintenance", "unheard of" \notin C
          PROVE  Rank(c) <= Rank(s)
        <3>1. Rank(s) = 1 /\ Rank(c) \in {0, 1}
            BY <1>2, <2>2, Ranks
        <3> QED  BY <3>1
    <2>3. ASSUME NEW s \in C, NEW c \in C, "under_maintenance" \notin C, "unheard of" \notin C
          PROVE  Rank(c) <= Rank(s)
        <3>1. Rank(s) = 0 /\ Rank(c) = 0
            BY <1>2, <2>3, Ranks
        <3> QED  BY <3>1
    <2> QED  BY <1>1, <2>1, <2>2, <2>3
<1> DEFINE worst == CHOOSE s \in C : \A c \in C : Rank(c) <= Rank(s)
<1>4. worst \in C /\ \A c \in C : Rank(c) <= Rank(worst)
    BY <1>3
<1>5. worst = "operational"
    BY <1>1 DEF RegionStatus
<1> HIDE DEF worst
<1>6. ASSUME NEW c \in C PROVE c = "operational"
    <2>1. Rank(worst) = 0
        BY <1>4, <1>5, Ranks
    <2>2. Rank(c) <= 0
        BY <1>4, <2>1
    <2>3. CASE c = "under_maintenance"
        <3>1. Rank(c) = 1  BY <2>3, Ranks
        <3> QED  BY <2>2, <3>1
    <2>4. CASE c = "unheard of"
        <3>1. Rank(c) = 5  BY <2>4, Ranks
        <3> QED  BY <2>2, <3>1
    <2> QED  BY <1>2, <2>3, <2>4
<1> QED  BY <1>4, <1>5, <1>6

(* The gate lets a restart pass only when the page does not speak against   *)
(* it: an incident that gates one restart-advising incident out does not    *)
(* hide another that says not to restart.                                   *)
LEMMA ProceedMeansNotAgainst ==
    ASSUME NEW page \in Pages, GateView(page) = "proceed"
    PROVE  ~Against(page)
<1>1. PICK C \in SUBSET Statuses, i \in Incidents, j \in Incidents :
          page = [components |-> C, incidents |-> {i, j}]
    BY DEF Pages
<1>2. page.components = {"operational"}
    BY <1>1, OperationalMeansAll DEF GateView
<1>3. ASSUME NEW k \in page.incidents, k.open, k.against,
             k.ours \/ k.scope \in {"all-regions", "unscoped"}
      PROVE  FALSE
    <2>1. k \in Incidents
        BY <1>1
    <2>2. ~Blocks(k)
        BY <1>3 DEF GateView, AdvisesRestart
    <2>3. k.lifecycle /\ (k.ours => k.scope \in {"regions", "body-regions"})
        BY <1>3, <2>1 DEF Incidents
    <2> QED  BY <1>3, <2>2, <2>3 DEF Blocks
<1> QED  BY <1>2, <1>3 DEF Against

LEMMA ReadingHonest ==
    ASSUME NEW r \in GateReadings
    PROVE  r.view \in Views /\ r.against \in BOOLEAN /\ (r.view # "blocked" => ~r.against)
<1>1. CASE r = Unreadable
    BY <1>1 DEF Unreadable, Views
<1>2. ASSUME NEW p \in Pages, r = [view |-> GateView(p), against |-> Against(p)]
      PROVE  r.view \in Views /\ r.against \in BOOLEAN /\ (r.view # "blocked" => ~r.against)
    <2>1. GateView(p) \in {"proceed", "blocked"}
        BY DEF GateView
    <2>2. Against(p) \in BOOLEAN
        BY DEF Against
    <2>3. GateView(p) = "proceed" => ~Against(p)
        BY ProceedMeansNotAgainst
    <2>4. r.view = GateView(p) /\ r.against = Against(p)
        BY <1>2
    <2> QED  BY <2>1, <2>2, <2>3, <2>4 DEF Views
<1> QED  BY <1>1, <1>2 DEF GateReadings
-----------------------------------------------------------------------------
(* The history of restarts. *)

LEMMA OursMember ==
    \A t : t \in Ours <=> t \in unrecorded \/ \E r \in restarts : r.by = "runbook" /\ r.at = t
BY DEF Ours

LEMMA OursTimes == ASSUME IInv, NEW t \in Ours PROVE t \in Int /\ t <= now
<1>1. t \in unrecorded \/ \E r \in restarts : r.at = t
    BY OursMember
<1> QED  BY <1>1 DEF IInv, HistoryOK

(* The history is left alone, and no restart is being sent after the step. *)
LEMMA HistoryStill ==
    ASSUME IInv, UNCHANGED <<now, restarts, unrecorded>>, pc' # "post"
    PROVE  HistoryOK'
<1>1. Ours' = Ours
    BY DEF Ours
<1>2. \A t : SpacedAt(t)' = SpacedAt(t)
    BY DEF SpacedAt
<1> QED  BY <1>1, <1>2 DEF IInv, HistoryOK

(* A restart that is not earlier than t does not change what t is spaced    *)
(* from.                                                                    *)
LEMMA SpacedKept ==
    ASSUME IInv, NEW t \in Int, SpacedAt(t), NEW r, r.at \in Int, r.at >= t,
           restarts' = restarts \cup {r}
    PROVE  SpacedAt(t)'
<1>1. \A q \in restarts : q.at \in Int
    BY DEF IInv, HistoryOK
<1>2. {q \in restarts' : q.at < t} = {q \in restarts : q.at < t}
    BY <1>1
<1> QED  BY <1>2 DEF SpacedAt

(* decide() looked at the history at the observation; a restart sent later  *)
(* is no closer to it.                                                      *)
LEMMA DecidedSpaced ==
    ASSUME IInv, NEW e, e.obs \in Int, e.obs <= now, Decision(e) = "restart"
    PROVE  SpacedAt(now) /\ \A t \in Ours : t <= now
<1> USE TimesAssumption, CountsAssumption
<1>1. ~Cooling(e.obs) /\ ~Exhausted(e.obs)
    BY DEF Decision
<1>2. now \in Int /\ IsFiniteSet(restarts) /\ \A r \in restarts : r.at \in Int
    BY DEF IInv, HistoryOK
<1> DEFINE earlier == {r \in restarts : r.at < now}
<1> DEFINE A == {r \in earlier : now - r.at < Window}
<1> DEFINE B == {r \in restarts : e.obs - r.at < Window}
<1>3. \A r \in earlier : now - r.at >= MinInterval
    BY <1>1, <1>2 DEF Cooling
<1>4. A \subseteq B
    BY <1>2
<1>5. IsFiniteSet(B)
    BY <1>2, FS_Subset
<1>6. Cardinality(A) \in Nat /\ Cardinality(B) \in Nat /\ Cardinality(A) <= Cardinality(B)
    BY <1>4, <1>5, FS_Subset, FS_CardinalityType
<1>7. ~(Cardinality(B) >= MaxRestarts)
    BY <1>1 DEF Exhausted
<1>8. Cardinality(A) < MaxRestarts
    BY <1>6, <1>7
<1> QED  BY <1>3, <1>8, OursTimes DEF SpacedAt

-----------------------------------------------------------------------------
(* The ways for a turn of supervise() to end. *)

(* The fields that Underway does not mention do not matter to it. *)
LEMMA UnderwayLike ==
    ASSUME NEW e, NEW x \in EpisodeTypes, NEW t, Underway(e, t),
           x.start = e.start, x.statusAt = e.statusAt, x.statusRead = e.statusRead,
           x.post = e.post, x.gateAt = e.gateAt, x.gateRead = e.gateRead, x.gate = e.gate,
           x.against = e.against, x.lastOk = e.lastOk, x.failSince = e.failSince,
           x.lastBad = e.lastBad, x.okSince = e.okSince
    PROVE  Underway(x, t)
BY DEF Underway, CachesDated, RunsReal

LEMMA TimesTyped ==
    ASSUME NEW e \in EpisodeTypes
    PROVE  /\ e.start # None => e.start \in Int
           /\ e.round # None => e.round \in Int
           /\ e.obs # None => e.obs \in Int
           /\ e.okSince # None => e.okSince \in Int
           /\ e.statusAt # None => e.statusAt \in Int
           /\ e.statusRead # None => e.statusRead \in Int
           /\ e.gateAt # None => e.gateAt \in Int
           /\ e.gateRead # None => e.gateRead \in Int
           /\ e.sent # None => e.sent \in Int
           /\ e.post # None => e.post \in Int
           /\ e.lastBad # None => e.lastBad \in Int
BY DEF EpisodeTypes, Times

LEMMA Positive ==
    /\ Interval \in Nat /\ DetectAfter \in Nat /\ Settle \in Nat /\ StatusPoll \in Nat
    /\ GatePoll \in Nat /\ HardStop \in Nat /\ Slow \in Nat
    /\ Slow > 0 /\ StatusPoll > 0 /\ GatePoll > 0 /\ HardStop > 0
BY TimesAssumption

(* SleepOn, some time after the observation. *)
LEMMA Sleeps ==
    ASSUME IInv, NEW e, Underway(e, now), InRound(e), e.obs <= now, now <= e.obs + 3 * Slow,
           SleepOn(e), now' = now
    PROVE  EpisodeOK' /\ RecoveredReal' /\ pc' = "sleep"
<1> DEFINE x == [e EXCEPT !.round = None, !.obs = None]
<1>0. None \in Times
    BY DEF Times
<1>1. /\ x \in EpisodeTypes /\ x.start = e.start /\ x.statusAt = e.statusAt
      /\ x.statusRead = e.statusRead /\ x.post = e.post /\ x.gateAt = e.gateAt
      /\ x.gateRead = e.gateRead /\ x.gate = e.gate /\ x.against = e.against
      /\ x.lastOk = e.lastOk /\ x.failSince = e.failSince /\ x.lastBad = e.lastBad
      /\ x.okSince = e.okSince
    BY <1>0 DEF Underway, EpisodeTypes
<1>2. ep' = x /\ pc' = "sleep" /\ due' = Max({now, e.round + Interval}) /\ report' = None
    BY DEF SleepOn
<1> HIDE DEF x
<1>3. Underway(x, now)
    BY <1>1, UnderwayLike
<1>4. now \in Int /\ e.round \in Int /\ e.obs \in Int /\ e.start \in Int
    BY TimesTyped DEF IInv, InRound, Underway
<1>5. due' \in Int /\ now <= due' /\ due' \in {now, e.round + Interval}
    <2>1. e.round + Interval \in Int
        BY <1>4, Positive
    <2> QED  BY <1>2, <1>4, <2>1, MaxPair
<1>6. due' <= e.start + HardStop - 1 + Rest
    BY <1>4, <1>5, RestBounds, Positive DEF InRound
<1>7. EpisodeOK'
    BY <1>1, <1>2, <1>3, <1>5, <1>6 DEF EpisodeOK
<1> QED  BY <1>2, <1>7 DEF RecoveredReal

(* Finish, with the start of the settled run of good rounds or without. *)
LEMMA Finishes ==
    ASSUME IInv, NEW o, NEW e, NEW r, Finish(o, e, r), now' = now,
           r # None => r = e.okSince /\ Underway(e, now) /\ Settled(e)
    PROVE  EpisodeOK' /\ RecoveredReal' /\ pc' = "idle"
<1>1. pc' = "idle" /\ due' = None
      /\ report' = [outcome |-> o, recovered |-> r, post |-> e.post, at |-> e.obs, lastBad |-> e.lastBad]
    BY DEF Finish
<1>2. EpisodeOK'
    BY <1>1 DEF EpisodeOK
<1>3. RecoveredReal'
    <2>1. CASE r = None
        BY <1>1, <2>1 DEF RecoveredReal
    <2>2. CASE r # None
        BY <1>1, <2>2 DEF RecoveredReal, Underway, RunsReal, Settled
    <2> QED  BY <2>1, <2>2
<1> QED  BY <1>1, <1>2, <1>3

(* The same when the history is left alone. *)
LEMMA StillOK ==
    ASSUME IInv, UNCHANGED <<now, restarts, unrecorded>>, EpisodeOK', RecoveredReal', pc' # "post"
    PROVE  StepOK
BY HistoryStill DEF StepOK, IInv

LEMMA Members ==
    /\ None \in Times /\ Int \subseteq Times
    /\ TRUE \in Flags /\ FALSE \in Flags /\ None \in States /\ None \in OptViews
    /\ Views \subseteq OptViews /\ "ACTIVE_HEALTHY" \in States /\ "other" \in States
BY DEF Times, Flags, States, OptViews

-----------------------------------------------------------------------------
(* Before a restart. *)

LEMMA DetectedLong ==
    ASSUME NEW e, NEW t \in Int, Underway(e, t), Consulting(e), e.obs <= t
    PROVE  \E p \in Triggers : t - e.lastOk[p] >= DetectAfter
<1>1. PICK p \in Triggers : e.failSince[p] # None /\ e.obs - e.failSince[p].at >= DetectAfter
    BY DEF Consulting, Detected
<1>2. e.failSince[p] \in Runs /\ e.lastOk[p] \in Times
    BY <1>1 DEF Underway, EpisodeTypes, FailRuns, OkTimes
<1>3. e.lastOk[p] <= e.failSince[p].at /\ e.lastOk[p] # None
    BY <1>1 DEF Underway, RunsReal
<1>4. e.failSince[p].at \in Int /\ e.lastOk[p] \in Int /\ e.obs \in Int
    BY <1>2, <1>3, TimesTyped DEF Runs, Times, Underway, Consulting, InRound
<1> QED  BY <1>1, <1>3, <1>4, Positive

(* The decision and what follows it. *)
LEMMA Decides ==
    ASSUME IInv, NEW e, Underway(e, now), Consulting(e), e.obs <= now, now <= e.obs + 2 * Slow,
           e.statusRead # None, now - e.statusRead < StatusPoll + Slow,
           e.gateAt # None, e.gateRead # None, now - e.gateRead < GatePoll + Slow,
           Decide(e), UNCHANGED <<now, restarts, unrecorded>>
    PROVE  StepOK
<1>1. e \in EpisodeTypes /\ now \in Int /\ e.obs \in Int /\ InRound(e)
    BY TimesTyped DEF Underway, Consulting, InRound, IInv
<1>2. CASE Decision(e) = "escalate" /\ Finish("escalated", e, None)
    BY <1>2, Finishes, StillOK
<1>3. CASE Decision(e) = "hold" /\ SleepOn(e)
    <2>1. now <= e.obs + 3 * Slow
        BY <1>1, Positive
    <2> QED  BY <1>1, <1>3, <2>1, Sleeps, StillOK
<1>4. CASE Decision(e) = "restart" /\ Await("post", [e EXCEPT !.sent = now])
    <2> DEFINE x == [e EXCEPT !.sent = now]
    <2>0. now \in Times
        BY <1>1, Members
    <2>1. /\ x \in EpisodeTypes /\ x.start = e.start /\ x.statusAt = e.statusAt
          /\ x.statusRead = e.statusRead /\ x.post = e.post /\ x.gateAt = e.gateAt
          /\ x.gateRead = e.gateRead /\ x.gate = e.gate /\ x.against = e.against
          /\ x.lastOk = e.lastOk /\ x.failSince = e.failSince /\ x.lastBad = e.lastBad
          /\ x.okSince = e.okSince
        BY <1>1, <2>0 DEF EpisodeTypes
    <2>2. /\ x.obs = e.obs /\ x.round = e.round /\ x.sent = now
          /\ x.status = e.status /\ x.failOpen = e.failOpen
        BY <1>1 DEF EpisodeTypes
    <2>3. pc' = "post" /\ ep' = x /\ due' = now + Slow /\ report' = None
        BY <1>4 DEF Await
    <2> HIDE DEF x
    <2>4. Underway(x, now)
        BY <2>1, UnderwayLike
    <2>5. InRound(x) /\ x.post = None /\ x.okSince = None
        BY <2>1, <2>2 DEF Consulting, InRound
    <2>6. due' \in Int /\ now <= due' /\ due' <= x.obs + 3 * Slow
        BY <1>1, <2>2, <2>3, Positive
    <2>7. x.sent # None
        BY <1>1, <2>2, NoneAssumption
    <2>8. EpisodeOK'
        BY <1>1, <2>2, <2>3, <2>4, <2>5, <2>6, <2>7 DEF EpisodeOK
    <2>9. HistoryOK'
        <3>1. Ours' = Ours
            BY DEF Ours
        <3>2. \A t : SpacedAt(t)' = SpacedAt(t)
            BY DEF SpacedAt
        <3>3. SpacedAt(now) /\ \A t \in Ours : t <= now
            BY <1>1, <1>4, DecidedSpaced
        <3>4. ep'.sent = now
            BY <2>2, <2>3
        <3> QED  BY <3>1, <3>2, <3>3, <3>4 DEF IInv, HistoryOK
    <2>10. RecoveredReal'
        BY <2>3 DEF RecoveredReal
    <2>11. e.status = "ACTIVE_HEALTHY" /\ e.gate # "blocked" /\ (e.gate = "unreadable" => e.failOpen)
        BY <1>4 DEF Decision
    <2>12. ~e.against
        BY <2>11 DEF Underway, CachesDated
    <2>13. \E p \in Triggers : now - e.lastOk[p] >= DetectAfter
        BY <1>1, DetectedLong
    <2>14. Earned(ep', now)
        BY <2>1, <2>2, <2>3, <2>11, <2>12, <2>13 DEF Earned
    <2> QED  BY <1>1, <2>8, <2>9, <2>10, <2>14 DEF StepOK, IInv
<1> QED  BY <1>2, <1>3, <1>4 DEF Decide

LEMMA ReadsGate ==
    ASSUME IInv, NEW e, Underway(e, now), Consulting(e), e.obs <= now, now <= e.obs + Slow,
           e.statusRead # None, now - e.statusRead < StatusPoll,
           ReadGate(e), UNCHANGED <<now, restarts, unrecorded>>
    PROVE  StepOK
<1>1. /\ e \in EpisodeTypes /\ now \in Int /\ e.obs \in Int /\ InRound(e) /\ e.post = None
      /\ e.statusRead \in Int
    BY TimesTyped DEF Underway, Consulting, InRound, IInv
<1>2. CASE Stale(e.gateAt, e.obs, GatePoll) /\ Await("gate", e)
    <2>1. pc' = "gate" /\ ep' = e /\ due' = now + Slow /\ report' = None
        BY <1>2 DEF Await
    <2>2. due' \in Int /\ now <= due' /\ due' <= e.obs + 2 * Slow /\ due' - e.statusRead < StatusPoll + Slow
        BY <1>1, <2>1, Positive
    <2>3. EpisodeOK' /\ RecoveredReal'
        BY <1>1, <2>1, <2>2 DEF EpisodeOK, RecoveredReal
    <2> QED  BY <2>1, <2>3, StillOK
<1>3. CASE ~Stale(e.gateAt, e.obs, GatePoll) /\ Decide(e)
    <2>1. e.gateAt # None /\ ~(e.obs - e.gateAt >= GatePoll)
        BY <1>3 DEF Stale
    <2>2. e.gateRead # None /\ e.gateAt <= e.gateRead
        BY <1>1, <2>1 DEF Underway, CachesDated
    <2>3. e.gateAt \in Int /\ e.gateRead \in Int
        BY <1>1, <2>1, <2>2, TimesTyped
    <2>4. /\ now - e.gateRead < GatePoll + Slow /\ now - e.statusRead < StatusPoll + Slow
          /\ now <= e.obs + 2 * Slow
        BY <1>1, <2>1, <2>2, <2>3, Positive
    <2> QED  BY <1>3, <2>1, <2>2, <2>4, Decides
<1> QED  BY <1>2, <1>3 DEF ReadGate

LEMMA ReadsStatus ==
    ASSUME IInv, NEW e, Underway(e, now), Consulting(e), e.obs = now,
           ReadStatus(e), UNCHANGED <<now, restarts, unrecorded>>
    PROVE  StepOK
<1>1. e \in EpisodeTypes /\ now \in Int /\ InRound(e) /\ e.post = None
    BY DEF Underway, Consulting, IInv
<1>2. CASE Stale(e.statusAt, e.obs, StatusPoll) /\ Await("status", e)
    <2>1. pc' = "status" /\ ep' = e /\ due' = now + Slow /\ report' = None
        BY <1>2 DEF Await
    <2>2. due' \in Int /\ now <= due' /\ due' <= e.obs + Slow /\ e.obs <= now
        BY <1>1, <2>1, Positive
    <2>3. EpisodeOK' /\ RecoveredReal'
        BY <1>1, <2>1, <2>2 DEF EpisodeOK, RecoveredReal
    <2> QED  BY <2>1, <2>3, StillOK
<1>3. CASE ~Stale(e.statusAt, e.obs, StatusPoll) /\ ReadGate(e)
    <2>1. e.statusAt # None /\ ~(e.obs - e.statusAt >= StatusPoll)
        BY <1>3 DEF Stale
    <2>2. e.statusRead # None /\ e.statusAt <= e.statusRead
        BY <1>1, <2>1 DEF Underway, CachesDated
    <2>3. e.statusAt \in Int /\ e.statusRead \in Int
        BY <1>1, <2>1, <2>2, TimesTyped
    <2>4. now - e.statusRead < StatusPoll /\ e.obs <= now /\ now <= e.obs + Slow
        BY <1>1, <2>1, <2>2, <2>3, Positive
    <2> QED  BY <1>3, <2>2, <2>4, ReadsGate
<1> QED  BY <1>2, <1>3 DEF ReadStatus

(* Of a round before the restart: something detected means a bad round. *)
LEMMA Watches ==
    ASSUME IInv, NEW e, Underway(e, now), InRound(e), e.obs = now, e.post = None,
           Detected(e) # {} => e.okSince = None,
           Watch(e), UNCHANGED <<now, restarts, unrecorded>>
    PROVE  StepOK
<1>1. e \in EpisodeTypes /\ now \in Int
    BY DEF Underway, IInv
<1>2. CASE Detected(e) # {} /\ ReadStatus([e EXCEPT !.detected = TRUE])
    <2> DEFINE x == [e EXCEPT !.detected = TRUE]
    <2>1. /\ x \in EpisodeTypes /\ x.start = e.start /\ x.statusAt = e.statusAt
          /\ x.statusRead = e.statusRead /\ x.post = e.post /\ x.gateAt = e.gateAt
          /\ x.gateRead = e.gateRead /\ x.gate = e.gate /\ x.against = e.against
          /\ x.lastOk = e.lastOk /\ x.failSince = e.failSince /\ x.lastBad = e.lastBad
          /\ x.okSince = e.okSince
        BY <1>1, Members DEF EpisodeTypes
    <2>2. x.obs = e.obs /\ x.round = e.round
        BY <1>1 DEF EpisodeTypes
    <2>3. ReadStatus(x)
        BY <1>2
    <2> HIDE DEF x
    <2>4. Underway(x, now)
        BY <2>1, UnderwayLike
    <2>5. Detected(x) = Detected(e)
        BY <2>1, <2>2 DEF Detected
    <2>6. Consulting(x)
        BY <1>2, <2>1, <2>2, <2>5 DEF Consulting, InRound
    <2> QED  BY <2>2, <2>3, <2>4, <2>6, ReadsStatus
<1>3. CASE e.detected /\ Settled(e) /\ Finish("self-cleared", e, e.okSince)
    BY <1>3, Finishes, StillOK
<1>4. CASE Finish("no-fault", e, None)
    BY <1>4, Finishes, StillOK
<1>5. CASE SleepOn(e)
    <2>1. e.obs <= now /\ now <= e.obs + 3 * Slow
        BY <1>1, Positive
    <2> QED  BY <1>5, <2>1, Sleeps, StillOK
<1> QED  BY <1>2, <1>3, <1>4, <1>5 DEF Watch

-----------------------------------------------------------------------------
(* After the restart. *)

LEMMA VerifiedKeeps ==
    ASSUME IInv, NEW e, Underway(e, now), InRound(e), e.obs <= now, now <= e.obs + Slow,
           Verified(e), UNCHANGED <<now, restarts, unrecorded>>
    PROVE  StepOK
<1>1. now \in Int /\ e.obs \in Int
    BY TimesTyped DEF Underway, InRound, IInv
<1>2. CASE Settled(e) /\ Finish("recovered", e, e.okSince)
    BY <1>2, Finishes, StillOK
<1>3. CASE Finish("unrecovered", e, None)
    BY <1>3, Finishes, StillOK
<1>4. CASE SleepOn(e)
    <2>1. now <= e.obs + 3 * Slow
        BY <1>1, Positive
    <2> QED  BY <1>4, <2>1, Sleeps, StillOK
<1> QED  BY <1>2, <1>3, <1>4 DEF Verified

LEMMA VerifyKeeps ==
    ASSUME IInv, NEW e, Underway(e, now), InRound(e), e.obs = now, e.post # None,
           Verify(e), UNCHANGED <<now, restarts, unrecorded>>
    PROVE  StepOK
<1>1. now \in Int
    BY DEF IInv
<1>2. CASE Await("verify", e)
    <2>1. pc' = "verify" /\ ep' = e /\ due' = now + Slow /\ report' = None
        BY <1>2 DEF Await
    <2>2. due' \in Int /\ now <= due' /\ due' <= e.obs + Slow /\ e.obs <= now
        BY <1>1, <2>1, Positive
    <2>3. EpisodeOK' /\ RecoveredReal'
        BY <1>1, <2>1, <2>2 DEF EpisodeOK, RecoveredReal
    <2> QED  BY <2>1, <2>3, StillOK
<1>3. CASE Verified(e)
    <2>1. e.obs <= now /\ now <= e.obs + Slow
        BY <1>1, Positive
    <2> QED  BY <1>3, <2>1, VerifiedKeeps
<1> QED  BY <1>2, <1>3 DEF Verify

-----------------------------------------------------------------------------
(* The steps. *)

(* The trackers after a round in which the probes of bad failed. *)
LEMMA ObservedTyped ==
    ASSUME ep \in EpisodeTypes, now \in Int, NEW bad \in SUBSET Paths
    PROVE  /\ Observed(bad) \in FailRuns
           /\ \A p \in Triggers : p \notin bad => Observed(bad)[p] = None
           /\ \A p \in Triggers : p \in bad /\ ep.failSince[p] = None => Observed(bad)[p].at = now
           /\ \A p \in Triggers : p \in bad /\ ep.failSince[p] # None =>
                 Observed(bad)[p].at = ep.failSince[p].at
<1>1. ep.failSince \in FailRuns
    BY DEF EpisodeTypes
<1>2. ASSUME NEW p \in Triggers
      PROVE  /\ Observed(bad)[p] \in Runs \cup {None}
             /\ p \notin bad => Observed(bad)[p] = None
             /\ p \in bad /\ ep.failSince[p] = None => Observed(bad)[p].at = now
             /\ p \in bad /\ ep.failSince[p] # None => Observed(bad)[p].at = ep.failSince[p].at
    <2>1. CASE p \notin bad
        BY <2>1 DEF Observed
    <2>2. CASE p \in bad /\ ep.failSince[p] = None
        <3>1. Observed(bad)[p] = [at |-> now, samples |-> 1]
            BY <2>2 DEF Observed
        <3> QED  BY <2>2, <3>1 DEF Runs
    <2>3. CASE p \in bad /\ ep.failSince[p] # None
        <3> DEFINE run == ep.failSince[p]
        <3>1. run \in Runs
            BY <1>1, <2>3 DEF FailRuns
        <3>2. Observed(bad)[p] = [run EXCEPT !.samples = Min({run.samples + 1, MinSamples})]
            BY <2>3, <3>1 DEF Observed, Runs
        <3>3. Min({run.samples + 1, MinSamples}) \in Nat
            BY <3>1, MinPair, CountsAssumption DEF Runs
        <3> HIDE DEF run
        <3>4. Observed(bad)[p] \in Runs /\ Observed(bad)[p].at = run.at
            BY <3>1, <3>2, <3>3 DEF Runs
        <3> QED  BY <2>3, <3>4 DEF run
    <2> QED  BY <2>1, <2>2, <2>3
<1>3. Observed(bad) \in FailRuns
    <2>1. Observed(bad) = [p \in Triggers |-> Observed(bad)[p]]
        BY DEF Observed
    <2> QED  BY <1>2, <2>1 DEF FailRuns
<1> QED  BY <1>2, <1>3

LEMMA ObserveKeeps == ASSUME IInv, NEW bad \in SUBSET Paths, Observe(bad) PROVE StepOK
<1> DEFINE okTimes == [p \in Triggers |-> IF p \in bad THEN ep.lastOk[p] ELSE now]
<1> DEFINE badTime == IF bad = {} THEN ep.lastBad ELSE now
<1> DEFINE e == [ep EXCEPT !.obs = now, !.failSince = Observed(bad), !.okSince = OkSince(bad),
                           !.lastOk = [p \in Triggers |-> IF p \in bad THEN @[p] ELSE now],
                           !.lastBad = IF bad = {} THEN @ ELSE now]
<1>1. /\ pc = "probes" /\ UNCHANGED <<now, restarts, unrecorded>>
      /\ \/ Overtime(e) /\ Finish("hard-stop", e, None)
         \/ ~Overtime(e) /\ ep.post = None /\ Watch(e)
         \/ ~Overtime(e) /\ ep.post # None /\ Verify(e)
    BY DEF Observe
<1>2. /\ now \in Int /\ now \in Times /\ now # None /\ ep \in EpisodeTypes /\ Underway(ep, now)
      /\ ep.round # None /\ ep.round <= now
    BY <1>1, Members, NoneAssumption DEF IInv, EpisodeOK, Underway
<1>3. ep.lastBad \in Times /\ ep.okSince \in Times /\ ep.lastOk \in OkTimes
    BY <1>2 DEF EpisodeTypes
<1>4. OkSince(bad) \in Times /\ badTime \in Times /\ okTimes \in OkTimes
    BY <1>2, <1>3, Members DEF OkSince, OkTimes
<1>5. Observed(bad) \in FailRuns
    BY <1>2, ObservedTyped
<1>6. e = [ep EXCEPT !.obs = now, !.failSince = Observed(bad), !.okSince = OkSince(bad),
                     !.lastOk = okTimes, !.lastBad = badTime]
    OBVIOUS
<1> HIDE DEF okTimes, badTime, e
<1>7. /\ e \in EpisodeTypes /\ e.start = ep.start /\ e.statusAt = ep.statusAt
      /\ e.statusRead = ep.statusRead /\ e.post = ep.post /\ e.gateAt = ep.gateAt
      /\ e.gateRead = ep.gateRead /\ e.gate = ep.gate /\ e.against = ep.against
    BY <1>2, <1>4, <1>5, <1>6 DEF EpisodeTypes
<1>8. /\ e.obs = now /\ e.round = ep.round /\ e.failSince = Observed(bad)
      /\ e.okSince = OkSince(bad) /\ e.lastOk = okTimes /\ e.lastBad = badTime
    BY <1>2, <1>4, <1>5, <1>6 DEF EpisodeTypes
<1>9. RunsReal(e, now)
    <2>1. ASSUME NEW p \in Triggers
          PROVE  /\ e.lastOk[p] # None /\ e.lastOk[p] <= now
                 /\ e.failSince[p] # None => e.lastOk[p] <= e.failSince[p].at
        <3>1. ep.lastOk[p] # None /\ ep.lastOk[p] <= now
              /\ (ep.failSince[p] # None => ep.lastOk[p] <= ep.failSince[p].at)
            BY <1>2 DEF Underway, RunsReal
        <3>2. CASE p \notin bad
            BY <1>2, <1>8, <3>2, ObservedTyped DEF okTimes
        <3>3. CASE p \in bad /\ ep.failSince[p] = None
            BY <1>2, <1>8, <3>1, <3>3, ObservedTyped DEF okTimes
        <3>4. CASE p \in bad /\ ep.failSince[p] # None
            BY <1>2, <1>8, <3>1, <3>4, ObservedTyped DEF okTimes
        <3> QED  BY <3>2, <3>3, <3>4
    <2>2. /\ ep.lastBad # None => ep.lastBad <= now
          /\ ep.post # None => ep.post <= now
          /\ ep.okSince # None /\ ep.lastBad # None => ep.lastBad <= ep.okSince
          /\ ep.okSince # None /\ ep.post # None => ep.post <= ep.okSince
        BY <1>2 DEF Underway, RunsReal
    <2>3. e.lastBad # None => e.lastBad <= now
        BY <1>2, <1>8, <2>2 DEF badTime
    <2>4. e.post # None => e.post <= now
        BY <1>7, <2>2
    <2>5. e.okSince # None /\ e.lastBad # None => e.lastBad <= e.okSince
        BY <1>2, <1>8, <2>2 DEF badTime, OkSince
    <2>6. e.okSince # None /\ e.post # None => e.post <= e.okSince
        BY <1>2, <1>7, <1>8, <2>2 DEF OkSince
    <2> QED  BY <2>1, <2>3, <2>4, <2>5, <2>6 DEF RunsReal
<1>10. Underway(e, now)
    BY <1>2, <1>7, <1>9 DEF Underway, CachesDated
<1>11. Detected(e) # {} => e.okSince = None
    <2> SUFFICES ASSUME NEW p \in Detected(e) PROVE e.okSince = None  OBVIOUS
    <2>1. p \in Triggers /\ Observed(bad)[p] # None
        BY <1>8 DEF Detected
    <2>2. p \in bad
        BY <1>2, <2>1, ObservedTyped
    <2> QED  BY <1>8, <2>2 DEF OkSince
<1>12. ~Overtime(e) => InRound(e)
    <2>1. e.start \in Int
        BY <1>2, <1>7, TimesTyped DEF Underway
    <2> QED  BY <1>2, <1>7, <1>8, <2>1, Positive DEF InRound, Overtime
<1>13. CASE Overtime(e) /\ Finish("hard-stop", e, None)
    BY <1>1, <1>13, Finishes, StillOK
<1>14. CASE ~Overtime(e) /\ ep.post = None /\ Watch(e)
    BY <1>1, <1>7, <1>8, <1>10, <1>11, <1>12, <1>14, Watches
<1>15. CASE ~Overtime(e) /\ ep.post # None /\ Verify(e)
    BY <1>1, <1>7, <1>8, <1>10, <1>12, <1>15, VerifyKeeps
<1> QED  BY <1>1, <1>13, <1>14, <1>15

(* The status is read at now, for the observation of the round. *)
LEMMA StatusRead ==
    ASSUME IInv, NEW v \in {"ACTIVE_HEALTHY", "other"}, pc \in {"status", "verify"}
    PROVE  /\ Underway(WithStatus(v), now) /\ InRound(WithStatus(v))
           /\ WithStatus(v).obs = ep.obs /\ WithStatus(v).obs <= now /\ now <= WithStatus(v).obs + Slow
           /\ WithStatus(v).statusRead = now
           /\ pc = "status" => Consulting(WithStatus(v))
<1> DEFINE x == WithStatus(v)
<1>1. /\ Underway(ep, now) /\ InRound(ep) /\ ep \in EpisodeTypes /\ now \in Int /\ due \in Int
      /\ ep.obs <= now /\ now <= due /\ due <= ep.obs + Slow
    BY DEF IInv, EpisodeOK, Underway, Consulting
<1>2. ep.obs \in Int /\ ep.obs \in Times /\ now \in Times /\ now # None /\ v \in States
    BY <1>1, TimesTyped, Members, NoneAssumption DEF InRound
<1>3. x = [ep EXCEPT !.status = v, !.statusAt = ep.obs, !.statusRead = now]
    BY DEF WithStatus
<1> HIDE DEF x
<1>4. /\ x \in EpisodeTypes /\ x.start = ep.start /\ x.post = ep.post /\ x.gateAt = ep.gateAt
      /\ x.gateRead = ep.gateRead /\ x.gate = ep.gate /\ x.against = ep.against
      /\ x.lastOk = ep.lastOk /\ x.failSince = ep.failSince /\ x.lastBad = ep.lastBad
      /\ x.okSince = ep.okSince
    BY <1>1, <1>2, <1>3 DEF EpisodeTypes
<1>5. x.obs = ep.obs /\ x.round = ep.round /\ x.statusAt = ep.obs /\ x.statusRead = now
    BY <1>1, <1>2, <1>3 DEF EpisodeTypes
<1>6. Underway(x, now)
    BY <1>1, <1>2, <1>4, <1>5 DEF Underway, CachesDated, RunsReal
<1>7. InRound(x)
    BY <1>1, <1>4, <1>5 DEF InRound
<1>8. x.obs <= now /\ now <= x.obs + Slow
    BY <1>1, <1>2, <1>5, Positive
<1>9. ASSUME pc = "status" PROVE Consulting(x)
    <2>1. Consulting(ep)
        BY <1>9 DEF IInv, EpisodeOK
    <2>2. Detected(x) = Detected(ep)
        BY <1>4, <1>5 DEF Detected
    <2> QED  BY <1>4, <1>7, <2>1, <2>2 DEF Consulting
<1> QED  BY <1>5, <1>6, <1>7, <1>8, <1>9 DEF x

LEMMA StatusAnswersKeeps ==
    ASSUME IInv, NEW v \in {"ACTIVE_HEALTHY", "other"}, StatusAnswers(v) PROVE StepOK
<1> DEFINE x == WithStatus(v)
<1>1. pc = "status" /\ ReadGate(x) /\ UNCHANGED <<now, restarts, unrecorded>>
    BY DEF StatusAnswers
<1>2. /\ Underway(x, now) /\ Consulting(x) /\ x.obs <= now /\ now <= x.obs + Slow
      /\ x.statusRead = now
    BY <1>1, StatusRead
<1> HIDE DEF x
<1>3. x.statusRead # None /\ now - x.statusRead < StatusPoll
    BY <1>2, Positive, NoneAssumption DEF IInv
<1> QED  BY <1>1, <1>2, <1>3, ReadsGate

LEMMA VerifyStatusAnswersKeeps ==
    ASSUME IInv, NEW v \in {"ACTIVE_HEALTHY", "other"}, VerifyStatusAnswers(v) PROVE StepOK
<1>1. pc = "verify" /\ Verified(WithStatus(v)) /\ UNCHANGED <<now, restarts, unrecorded>>
    BY DEF VerifyStatusAnswers
<1> QED  BY <1>1, StatusRead, VerifiedKeeps

LEMMA GateAnswersKeeps == ASSUME IInv, NEW r \in GateReadings, GateAnswers(r) PROVE StepOK
<1> DEFINE x == [ep EXCEPT !.gate = r.view, !.gateAt = ep.obs, !.gateRead = now, !.against = r.against]
<1>1. pc = "gate" /\ Decide(x) /\ UNCHANGED <<now, restarts, unrecorded>>
    BY DEF GateAnswers
<1>2. /\ Underway(ep, now) /\ Consulting(ep) /\ ep \in EpisodeTypes /\ now \in Int /\ due \in Int
      /\ ep.obs <= now /\ now <= due /\ due <= ep.obs + 2 * Slow
      /\ ep.statusRead # None /\ due - ep.statusRead < StatusPoll + Slow
    BY <1>1 DEF IInv, EpisodeOK, Underway
<1>3. ep.obs \in Int /\ ep.obs \in Times /\ now \in Times /\ now # None /\ ep.statusRead \in Int
    BY <1>2, TimesTyped, Members, NoneAssumption DEF InRound, Consulting
<1>4. r.view \in OptViews /\ r.against \in Flags
    BY ReadingHonest DEF OptViews, Flags
<1>5. r.view # "blocked" => ~r.against
    BY ReadingHonest
<1> HIDE DEF x
<1>6. /\ x \in EpisodeTypes /\ x.start = ep.start /\ x.statusAt = ep.statusAt
      /\ x.statusRead = ep.statusRead /\ x.post = ep.post
      /\ x.lastOk = ep.lastOk /\ x.failSince = ep.failSince /\ x.lastBad = ep.lastBad
      /\ x.okSince = ep.okSince
    BY <1>2, <1>3, <1>4 DEF EpisodeTypes, x
<1>7. /\ x.obs = ep.obs /\ x.round = ep.round /\ x.gateAt = ep.obs /\ x.gateRead = now
      /\ x.gate = r.view /\ x.against = r.against
    BY <1>2, <1>3, <1>4 DEF EpisodeTypes, x
<1>8. CachesDated(x)
    <2>1. x.statusAt # None => x.statusRead # None /\ x.statusAt <= x.statusRead
        BY <1>2, <1>6 DEF Underway, CachesDated
    <2> QED  BY <1>2, <1>3, <1>5, <1>7, <2>1 DEF CachesDated
<1>9. Underway(x, now)
    BY <1>2, <1>6, <1>8 DEF Underway, RunsReal
<1>10. Consulting(x)
    <2>1. Detected(x) = Detected(ep)
        BY <1>6, <1>7 DEF Detected
    <2> QED  BY <1>2, <1>6, <1>7, <2>1 DEF Consulting, InRound
<1>11. /\ x.obs <= now /\ now <= x.obs + 2 * Slow
       /\ x.statusRead # None /\ now - x.statusRead < StatusPoll + Slow
       /\ x.gateAt # None /\ x.gateRead # None /\ now - x.gateRead < GatePoll + Slow
    BY <1>2, <1>3, <1>6, <1>7, Positive, NoneAssumption
<1> QED  BY <1>1, <1>9, <1>10, <1>11, Decides

(* The restart that was sent at ep.sent becomes one of ours. *)
LEMMA SentKept ==
    ASSUME IInv, pc = "post"
    PROVE  /\ Underway(ep, now) /\ InRound(ep) /\ ep \in EpisodeTypes /\ now \in Int
           /\ ep.post = None /\ ep.okSince = None
           /\ ep.obs \in Int /\ ep.sent \in Int /\ ep.obs <= ep.sent /\ ep.sent <= now
           /\ ep.obs <= now /\ now <= ep.obs + 3 * Slow
           /\ SpacedAt(ep.sent) /\ \A t \in Ours : t <= ep.sent
<1>1. /\ Underway(ep, now) /\ InRound(ep) /\ ep \in EpisodeTypes /\ now \in Int /\ due \in Int
      /\ ep.post = None /\ ep.okSince = None
      /\ ep.sent # None /\ ep.obs <= ep.sent /\ ep.sent <= now
      /\ now <= due /\ due <= ep.obs + 3 * Slow
    BY DEF IInv, EpisodeOK, Underway
<1>2. ep.obs \in Int /\ ep.sent \in Int
    BY <1>1, TimesTyped DEF InRound
<1>3. SpacedAt(ep.sent) /\ \A t \in Ours : t <= ep.sent
    BY DEF IInv, HistoryOK
<1> QED  BY <1>1, <1>2, <1>3, Positive

LEMMA PostAnswersKeeps == ASSUME IInv, PostAnswers PROVE StepOK
<1> DEFINE r == [at |-> ep.sent, by |-> "runbook"]
<1> DEFINE x == [ep EXCEPT !.post = ep.sent, !.sent = None, !.status = None, !.statusAt = None,
                           !.statusRead = None, !.gateRead = None, !.lastBad = None]
<1>1. /\ pc = "post" /\ restarts' = restarts \cup {r} /\ SleepOn(x)
      /\ UNCHANGED <<now, unrecorded>>
    BY DEF PostAnswers
<1>2. /\ Underway(ep, now) /\ InRound(ep) /\ ep \in EpisodeTypes /\ now \in Int
      /\ ep.post = None /\ ep.okSince = None
      /\ ep.sent \in Int /\ ep.sent <= now
      /\ ep.obs <= now /\ now <= ep.obs + 3 * Slow
      /\ SpacedAt(ep.sent) /\ \A t \in Ours : t <= ep.sent
    BY <1>1, SentKept
<1>3. ep.sent \in Times /\ ep.sent # None
    BY <1>2, Members, NoneAssumption
<1>4. r.at = ep.sent /\ r.by = "runbook" /\ r \in [at : Int, by : {"runbook", "operator"}]
    BY <1>2
<1> HIDE DEF x, r
<1>5. /\ x \in EpisodeTypes /\ x.start = ep.start /\ x.statusAt = None /\ x.post = ep.sent
      /\ x.gateAt = ep.gateAt /\ x.gate = ep.gate /\ x.against = ep.against
      /\ x.lastOk = ep.lastOk /\ x.failSince = ep.failSince /\ x.lastBad = None
      /\ x.okSince = ep.okSince /\ x.obs = ep.obs /\ x.round = ep.round
    BY <1>2, <1>3, Members DEF EpisodeTypes, x
<1>6. Underway(x, now) /\ InRound(x)
    BY <1>2, <1>3, <1>5 DEF Underway, CachesDated, RunsReal, InRound
<1>7. EpisodeOK' /\ RecoveredReal' /\ pc' = "sleep"
    BY <1>1, <1>2, <1>5, <1>6, Sleeps
<1>8. HistoryOK'
    <2>1. IsFiniteSet(restarts')
        BY <1>1, FS_AddElement DEF IInv, HistoryOK
    <2>2. /\ restarts' \subseteq [at : Int, by : {"runbook", "operator"}]
          /\ \A q \in restarts' : q.at <= now'
          /\ unrecorded' \subseteq Int /\ \A t \in unrecorded' : t <= now'
        BY <1>1, <1>2, <1>4 DEF IInv, HistoryOK
    <2>3. ASSUME NEW t \in Ours' PROVE SpacedAt(t)'
        <3>1. t \in Ours \/ t = ep.sent
            BY <1>1, <1>4 DEF Ours
        <3>2. t \in Int /\ t <= ep.sent /\ SpacedAt(t)
            BY <1>2, <3>1, OursTimes DEF IInv, HistoryOK
        <3> QED  BY <1>1, <1>2, <1>4, <3>2, SpacedKept
    <2> QED  BY <1>7, <2>1, <2>2, <2>3 DEF HistoryOK
<1> QED  BY <1>1, <1>2, <1>7, <1>8 DEF StepOK, IInv

LEMMA PostRefusedKeeps == ASSUME IInv, PostRefused PROVE StepOK
BY Finishes, StillOK DEF PostRefused

LEMMA PostLostKeeps == ASSUME IInv, PostLost PROVE StepOK
<1>1. /\ pc = "post" /\ Finish("restart-refused", [ep EXCEPT !.post = ep.sent], None)
      /\ unrecorded' = unrecorded \cup {ep.sent} /\ UNCHANGED <<now, restarts>>
    BY DEF PostLost
<1>2. EpisodeOK' /\ RecoveredReal' /\ pc' = "idle"
    BY <1>1, Finishes
<1>3. ep.sent \in Int /\ ep.sent <= now /\ SpacedAt(ep.sent) /\ now \in Int
    BY <1>1, SentKept
<1>4. ASSUME NEW t \in Ours' PROVE SpacedAt(t)'
    <2>1. t \in Ours \/ t = ep.sent
        BY <1>1 DEF Ours
    <2>2. SpacedAt(t)
        BY <1>3, <2>1 DEF IInv, HistoryOK
    <2> QED  BY <1>1, <2>2 DEF SpacedAt
<1>5. HistoryOK'
    BY <1>1, <1>2, <1>3, <1>4 DEF IInv, HistoryOK
<1> QED  BY <1>1, <1>2, <1>3, <1>5 DEF StepOK, IInv

LEMMA BeginKeeps == ASSUME IInv, Begin PROVE StepOK
<1> DEFINE oks == [p \in Triggers |-> now]
<1>1. PICK open \in BOOLEAN :
          Await("probes", [NoEpisode EXCEPT !.start = now, !.round = now, !.failOpen = open,
                                            !.lastOk = [p \in Triggers |-> now]])
    BY DEF Begin
<1> DEFINE x == [NoEpisode EXCEPT !.start = now, !.round = now, !.failOpen = open, !.lastOk = oks]
<1>2. /\ pc' = "probes" /\ due' = now + Slow /\ ep' = x /\ report' = None
      /\ UNCHANGED <<now, restarts, unrecorded>>
    BY <1>1 DEF Await, Begin
<1>3. now \in Int /\ now \in Times /\ now # None /\ open \in Flags
    BY Members, NoneAssumption DEF IInv, Flags
<1>4. oks \in OkTimes /\ [p \in Triggers |-> None] \in FailRuns /\ [p \in Triggers |-> None] \in OkTimes
    BY <1>3, Members DEF OkTimes, FailRuns
<1>5. NoEpisode \in EpisodeTypes
    BY <1>4, Members DEF NoEpisode, EpisodeTypes
<1>6. /\ NoEpisode.statusAt = None /\ NoEpisode.gateAt = None /\ NoEpisode.lastBad = None
      /\ NoEpisode.okSince = None /\ NoEpisode.post = None
      /\ \A p \in Triggers : NoEpisode.failSince[p] = None
    BY DEF NoEpisode
<1> HIDE DEF oks
<1>7. /\ x \in EpisodeTypes /\ x.start = now /\ x.round = now /\ x.lastOk = oks
      /\ x.statusAt = None /\ x.gateAt = None /\ x.lastBad = None /\ x.okSince = None
      /\ x.post = None /\ \A p \in Triggers : x.failSince[p] = None
    BY <1>3, <1>4, <1>5, <1>6 DEF EpisodeTypes
<1> HIDE DEF x
<1>8. Underway(x, now)
    BY <1>3, <1>7 DEF Underway, CachesDated, RunsReal, oks
<1>9. due' \in Int /\ now <= due' /\ due' <= x.start + HardStop - 1 + Rest + Slow
    BY <1>2, <1>3, <1>7, Positive, RestBounds
<1>10. EpisodeOK' /\ RecoveredReal'
    BY <1>2, <1>3, <1>7, <1>8, <1>9 DEF EpisodeOK, RecoveredReal
<1> QED  BY <1>2, <1>10, StillOK

LEMMA WakeKeeps == ASSUME IInv, Wake PROVE StepOK
<1> DEFINE x == [ep EXCEPT !.round = now]
<1>1. /\ pc = "sleep" /\ now = due /\ pc' = "probes" /\ due' = now + Slow /\ ep' = x
      /\ report' = None /\ UNCHANGED <<now, restarts, unrecorded>>
    BY DEF Wake, Await
<1>2. /\ Underway(ep, now) /\ ep \in EpisodeTypes /\ now \in Int /\ now \in Times /\ now # None
      /\ due <= ep.start + HardStop - 1 + Rest
    BY <1>1, Members, NoneAssumption DEF IInv, EpisodeOK, Underway
<1> HIDE DEF x
<1>3. /\ x \in EpisodeTypes /\ x.start = ep.start /\ x.statusAt = ep.statusAt
      /\ x.statusRead = ep.statusRead /\ x.post = ep.post /\ x.gateAt = ep.gateAt
      /\ x.gateRead = ep.gateRead /\ x.gate = ep.gate /\ x.against = ep.against
      /\ x.lastOk = ep.lastOk /\ x.failSince = ep.failSince /\ x.lastBad = ep.lastBad
      /\ x.okSince = ep.okSince /\ x.round = now
    BY <1>2 DEF EpisodeTypes, x
<1>4. Underway(x, now)
    BY <1>2, <1>3, UnderwayLike
<1>5. x.start \in Int
    BY <1>3, <1>4, TimesTyped DEF Underway
<1>6. due' \in Int /\ now <= due' /\ due' <= x.start + HardStop - 1 + Rest + Slow
    BY <1>1, <1>2, <1>3, <1>5, Positive, RestBounds
<1>7. EpisodeOK' /\ RecoveredReal'
    BY <1>1, <1>2, <1>3, <1>4, <1>6 DEF EpisodeOK, RecoveredReal
<1> QED  BY <1>1, <1>7, StillOK

(* The operator's restart is not earlier than any of ours, the one being    *)
(* sent included.                                                           *)
LEMMA OperatorKeeps == ASSUME IInv, OperatorRestarts PROVE StepOK
<1> DEFINE r == [at |-> now, by |-> "operator"]
<1>1. restarts' = restarts \cup {r} /\ UNCHANGED <<now, pc, due, ep, report, unrecorded>>
    BY DEF OperatorRestarts
<1>2. now \in Int /\ r.at = now /\ r.by = "operator" /\ r \in [at : Int, by : {"runbook", "operator"}]
    BY DEF IInv
<1> HIDE DEF r
<1>3. EpisodeOK' /\ RecoveredReal'
    BY <1>1 DEF IInv, EpisodeOK, RecoveredReal
<1>4. Ours' = Ours
    BY <1>1, <1>2 DEF Ours
<1>5. ASSUME NEW t \in Int, t <= now, SpacedAt(t) PROVE SpacedAt(t)'
    BY <1>1, <1>2, <1>5, SpacedKept
<1>6. IsFiniteSet(restarts')
    BY <1>1, FS_AddElement DEF IInv, HistoryOK
<1>7. /\ restarts' \subseteq [at : Int, by : {"runbook", "operator"}]
      /\ \A q \in restarts' : q.at <= now'
      /\ unrecorded' \subseteq Int /\ \A t \in unrecorded' : t <= now'
    BY <1>1, <1>2 DEF IInv, HistoryOK
<1>8. \A t \in Ours' : SpacedAt(t)'
    BY <1>4, <1>5, OursTimes DEF IInv, HistoryOK
<1>9. pc' = "post" => SpacedAt(ep.sent)' /\ \A t \in Ours' : t <= ep'.sent
    BY <1>1, <1>4, <1>5, SentKept
<1>10. HistoryOK'
    BY <1>1, <1>6, <1>7, <1>8, <1>9 DEF HistoryOK
<1> QED  BY <1>1, <1>2, <1>3, <1>10 DEF StepOK, IInv

LEMMA TickKeeps == ASSUME IInv, Tick PROVE StepOK
<1>1. /\ now \in Int /\ now' = now + 1
      /\ due # None => now < due
      /\ UNCHANGED <<pc, due, ep, report, restarts, unrecorded>>
    BY DEF Tick, IInv
<1>2. ASSUME pc # "idle"
      PROVE  Underway(ep, now') /\ now' <= due /\ due \in Int
    <2>1. Underway(ep, now) /\ due \in Int /\ ep \in EpisodeTypes
        BY <1>2 DEF IInv, EpisodeOK, Underway
    <2>2. now' <= due
        BY <1>1, <2>1, NoneAssumption
    <2>3. ep.start # None /\ ep.start <= now'
        BY <1>1, <2>1, TimesTyped DEF Underway
    <2>4. \A p \in Triggers : ep.lastOk[p] # None /\ ep.lastOk[p] <= now'
        <3>1. ASSUME NEW p \in Triggers PROVE ep.lastOk[p] # None /\ ep.lastOk[p] <= now'
            <4>1. ep.lastOk[p] # None /\ ep.lastOk[p] <= now /\ ep.lastOk[p] \in Times
                BY <2>1 DEF Underway, RunsReal, EpisodeTypes, OkTimes
            <4>2. ep.lastOk[p] \in Int
                BY <4>1 DEF Times
            <4> QED  BY <1>1, <4>1, <4>2
        <3> QED  BY <3>1
    <2>5. (ep.lastBad # None => ep.lastBad <= now') /\ (ep.post # None => ep.post <= now')
        BY <1>1, <2>1, TimesTyped DEF Underway, RunsReal
    <2> QED  BY <2>1, <2>2, <2>3, <2>4, <2>5 DEF Underway, RunsReal
<1>3. EpisodeOK'
    <2> USE <1>1, <1>2 DEF IInv, EpisodeOK
    <2>1. CASE pc = "idle"
        BY <2>1
    <2>2. CASE pc = "probes"
        <3>1. ep.round \in Int
            BY <2>2, TimesTyped DEF Underway
        <3> QED  BY <2>2, <3>1
    <2>3. CASE pc = "sleep"
        BY <2>3
    <2>4. CASE pc \in {"status", "gate", "verify"}
        <3>1. ep.obs \in Int
            BY <2>4, TimesTyped DEF Underway, Consulting, InRound
        <3> QED  BY <2>4, <3>1
    <2>5. CASE pc = "post"
        <3>1. ep.sent \in Int
            BY <2>5, SentKept
        <3> QED  BY <2>5, <3>1
    <2> QED  BY <2>1, <2>2, <2>3, <2>4, <2>5
<1>4. HistoryOK'
    <2>1. Ours' = Ours
        BY <1>1 DEF Ours
    <2>2. \A t : SpacedAt(t)' = SpacedAt(t)
        BY <1>1 DEF SpacedAt
    <2>3. /\ \A r \in restarts : r.at \in Int /\ r.at <= now
          /\ \A t \in unrecorded : t \in Int /\ t <= now
        BY DEF IInv, HistoryOK
    <2>4. (\A r \in restarts : r.at <= now') /\ \A t \in unrecorded : t <= now'
        BY <1>1, <2>3
    <2> QED  BY <1>1, <2>1, <2>2, <2>4 DEF IInv, HistoryOK
<1>5. RecoveredReal'
    BY <1>1 DEF IInv, RecoveredReal
<1> QED  BY <1>1, <1>3, <1>4, <1>5 DEF StepOK, IInv

LEMMA NextKeeps == ASSUME IInv, [Next]_vars PROVE StepOK
<1>1. CASE Begin \/ Wake \/ PostAnswers \/ PostRefused \/ PostLost \/ OperatorRestarts \/ Tick
    BY <1>1, BeginKeeps, WakeKeeps, PostAnswersKeeps, PostRefusedKeeps, PostLostKeeps,
       OperatorKeeps, TickKeeps
<1>2. ASSUME NEW bad \in SUBSET Paths, Observe(bad) PROVE StepOK
    BY <1>2, ObserveKeeps
<1>3. ASSUME NEW v \in {"ACTIVE_HEALTHY", "other"}, StatusAnswers(v) \/ VerifyStatusAnswers(v)
      PROVE  StepOK
    BY <1>3, StatusAnswersKeeps, VerifyStatusAnswersKeeps
<1>4. ASSUME NEW r \in GateReadings, GateAnswers(r) PROVE StepOK
    BY <1>4, GateAnswersKeeps
<1>5. CASE UNCHANGED vars
    <2>1. \A t : SpacedAt(t)' = SpacedAt(t)
        BY <1>5 DEF vars, SpacedAt
    <2>2. IInv'
        BY <1>5, <2>1 DEF vars, IInv, EpisodeOK, HistoryOK, RecoveredReal, Ours
    <2> QED  BY <1>5, <2>2 DEF vars, StepOK
<1> QED  BY <1>1, <1>2, <1>3, <1>4, <1>5 DEF Next

LEMMA InitIInv == ASSUME Init PROVE IInv
<1>1. now \in Int /\ pc = "idle" /\ due = None /\ report = None /\ restarts = {} /\ unrecorded = {}
    BY CreatedAssumption DEF Init
<1>2. EpisodeOK /\ RecoveredReal
    BY <1>1 DEF EpisodeOK, RecoveredReal
<1>3. Ours = {} /\ IsFiniteSet(restarts)
    BY <1>1, FS_EmptySet DEF Ours
<1>4. HistoryOK
    BY <1>1, <1>3 DEF HistoryOK
<1> QED  BY <1>1, <1>2, <1>4 DEF IInv

-----------------------------------------------------------------------------
LEMMA Inductive == Spec => []IInv
<1>1. Init => IInv  BY InitIInv
<1>2. IInv /\ [Next]_vars => IInv'  BY NextKeeps DEF StepOK
<1> QED  BY <1>1, <1>2, PTL DEF Spec

(* Over all episodes, every restart the runbook sends, answered or not,     *)
(* keeps MinInterval to each earlier one in the history and is one of at    *)
(* most MaxRestarts in its window, although the operator may restart        *)
(* between the decision and the call.                                       *)
THEOREM Spaced == Spec => []RestartsSpaced
<1>1. IInv => RestartsSpaced
    BY DEF IInv, HistoryOK, RestartsSpaced, SpacedAt
<1> QED  BY <1>1, Inductive, PTL

(* supervise() reports a recovery only when every probe has been good in    *)
(* every round for Settle, and credits a restart only with what followed it.*)
THEOREM Recovered == Spec => []RecoveredReal
<1>1. IInv => RecoveredReal  BY DEF IInv
<1> QED  BY <1>1, Inductive, PTL

(* An episode is over one round after the cap, whichever calls are slow and *)
(* however often the guard rails hold it.                                   *)
THEOREM Bounded == Spec => []EpisodeBounded
<1>1. ASSUME IInv, pc # "idle" PROVE now - ep.start < HardStop + Rest + Slow
    <2>1. now \in Int /\ due \in Int /\ ep.start \in Int /\ now <= due /\ ep \in EpisodeTypes
        BY <1>1, TimesTyped DEF IInv, EpisodeOK, Underway
    <2> USE <1>1, <2>1, Positive, RestBounds DEF IInv, EpisodeOK
    <2>2. CASE pc = "probes"
        BY <2>2
    <2>3. CASE pc = "sleep"
        BY <2>3
    <2>4. CASE pc \in {"status", "gate", "verify", "post"}
        <3>1. InRound(ep) /\ due <= ep.obs + 3 * Slow /\ ep.obs \in Int
            BY <2>4, TimesTyped DEF Consulting, InRound
        <3> QED  BY <3>1 DEF InRound
    <2> QED  BY <2>2, <2>3, <2>4
<1>2. IInv => EpisodeBounded
    BY <1>1 DEF EpisodeBounded, Rest
<1> QED  BY <1>2, Inductive, PTL

(* A restart is sent only when a trigger has had no good sample for         *)
(* DetectAfter, the last status read was healthy, the status page did not   *)
(* speak against it, and neither reading is older than its polling interval *)
(* and one slow call.                                                       *)
THEOREM EarnedAlways == Spec => RestartEarned
<1>1. ASSUME IInv, [Next]_vars PROVE pc # "post" /\ pc' = "post" => Earned(ep', now)
    BY <1>1, NextKeeps DEF StepOK
<1>2. ASSUME IInv, [Next]_vars
      PROVE  [pc # "post" /\ pc' = "post" =>
                /\ \E p \in Triggers : now - ep'.lastOk[p] >= DetectAfter
                /\ ep'.status = "ACTIVE_HEALTHY" /\ now - ep'.statusRead < StatusPoll + Slow
                /\ ~ep'.against /\ now - ep'.gateRead < GatePoll + Slow
                /\ ep'.gate = "unreadable" => ep'.failOpen]_vars
    BY <1>1, <1>2 DEF Earned
<1> QED  BY <1>2, Inductive, PTL DEF Spec, RestartEarned
=============================================================================
