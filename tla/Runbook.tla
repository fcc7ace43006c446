------------------------------- MODULE Runbook -------------------------------
(***************************************************************************)
(* The restart runbook of lifecycle-ops (lib/runbook.ts) behind the change *)
(* gate (lib/gate.ts): supervise() probes a project, detects a sustained   *)
(* failure of its data path, restarts it if every guard rail allows that,  *)
(* and verifies the recovery on the data path.                             *)
(*                                                                         *)
(* An action is the code up to the next await.  Every awaited call takes   *)
(* up to Slow; the status of the project and the status page are cached    *)
(* between rounds; the answer to the restart may be lost.  Episodes follow *)
(* one another over one history of restarts, to which the operator adds    *)
(* restarts of their own.                                                  *)
(***************************************************************************)
EXTENDS Integers, FiniteSets, FiniteSetsExt

CONSTANTS
    Paths, Triggers,                    \* probes; triggerPaths
    Interval, DetectAfter, MinSamples,  \* the policy, in ticks
    Settle, VerifyMax, MinInterval, MaxRestarts, Window, StatusPoll, GatePoll,
    MinAge, Created,                    \* RESTART_MIN_AGE_MS, createdAtMs
    MaxWatch, HardStop,                 \* maxWatchMs, hardStopMs
    Slow,                               \* the longest an awaited call takes
    MaxNow, MaxOperator,                \* bounds: time, restarts by the operator
    None

ASSUME TriggersAssumption == Triggers \subseteq Paths
ASSUME TimesAssumption ==
    \A t \in {Interval, DetectAfter, Settle, VerifyMax, MinInterval, Window, StatusPoll,
              GatePoll, MaxWatch, HardStop, Slow} : t \in Nat \ {0}
ASSUME CountsAssumption == MinSamples \in Nat /\ MaxRestarts \in Nat
ASSUME CreatedAssumption == Created \in Int /\ MinAge \in Int /\ MaxNow \in Int
ASSUME NoneAssumption == None \notin Int

-----------------------------------------------------------------------------
(* The change gate: what one reading of the status page says of a restart.  *)
(* Of an incident: is it open, which regions its title or else its text     *)
(* names and whether ours is one of them, and whether the text has the      *)
(* wording of lifecycle operations, advises a restart, or advises against   *)
(* one (either advice has that wording).                                    *)
Incidents ==
    {i \in [open: BOOLEAN, scope: {"all-regions", "regions", "body-regions", "unscoped"},
            ours: BOOLEAN, lifecycle: BOOLEAN, for: BOOLEAN, against: BOOLEAN] :
        /\ i.ours => i.scope \in {"regions", "body-regions"}
        /\ i.for \/ i.against => i.lifecycle}

(* The statuses of the components with the region's name, and incidents.    *)
Statuses == {"operational", "under_maintenance", "unheard of"}
Pages == {[components |-> c, incidents |-> {i, j}] : c \in SUBSET Statuses, i, j \in Incidents}

(* SEVERITY; an unknown status is the worst. *)
Rank(s) == CASE s = "operational" -> 0 [] s = "under_maintenance" -> 1 [] OTHER -> 5

RegionStatus(components) ==
    IF components = {} THEN "missing"
    ELSE CHOOSE s \in components : \A c \in components : Rank(c) <= Rank(s)

(* What decide() of the gate makes a blocker of, for a restart and with the *)
(* default policy.                                                          *)
Blocks(i) ==
    /\ i.open
    /\ \/ i.scope = "all-regions"
       \/ i.scope = "regions" /\ i.ours
       \/ i.scope = "body-regions" /\ i.ours /\ i.lifecycle
       \/ i.scope = "unscoped" /\ i.lifecycle

AdvisesRestart(i) == i.for /\ ~i.against

(* gateView: open incidents that advise a restart do not block one. *)
GateView(page) ==
    LET rest == {i \in page.incidents : ~(i.open /\ AdvisesRestart(i))}
    IN  IF RegionStatus(page.components) = "operational" /\ \A i \in rest : ~Blocks(i)
        THEN "proceed" ELSE "blocked"

(* A page speaks against a restart: a component of the region is not well,  *)
(* or an open incident that may be about the region says not to restart.    *)
Against(page) ==
    \/ page.components # {"operational"}
    \/ \E i \in page.incidents :
           /\ i.open /\ i.against
           /\ i.ours \/ i.scope \in {"all-regions", "unscoped"}

Unreadable == [view |-> "unreadable", against |-> FALSE]
GateReadings == {[view |-> GateView(p), against |-> Against(p)] : p \in Pages} \cup {Unreadable}

-----------------------------------------------------------------------------
VARIABLES
    now,
    pc,             \* where supervise() is
    due,            \* when its sleep or the awaited call ends at the latest
    ep,             \* its locals
    report,         \* the last episode returned, or None
    restarts,       \* restartsAtMs, and whose restart each one is
    unrecorded      \* restarts that were made although no answer came (history)

vars == <<now, pc, due, ep, report, restarts, unrecorded>>

(* Start of the episode and of the round, time of the observation; start    *)
(* and length of the run of failures per trigger, start of the run of good  *)
(* rounds (cleared before the restart, rec after it), whether something was *)
(* detected; the cached status and gate; when the restart was sent and when *)
(* it was accepted.  History: when the caches were really read and what the *)
(* page said, the last good sample per trigger, and the last bad round      *)
(* before the restart or after it.                                          *)
NoEpisode ==
    [start |-> None, round |-> None, obs |-> None, failSince |-> [p \in Triggers |-> None],
     okSince |-> None, detected |-> FALSE, failOpen |-> FALSE,
     status |-> None, statusAt |-> None, gate |-> None, gateAt |-> None,
     sent |-> None, post |-> None,
     statusRead |-> None, gateRead |-> None, against |-> FALSE,
     lastOk |-> [p \in Triggers |-> None], lastBad |-> None]

Init ==
    /\ now = Created /\ pc = "idle" /\ due = None
    /\ ep = NoEpisode /\ report = None
    /\ restarts = {} /\ unrecorded = {}

Await(l, e) == pc' = l /\ due' = now + Slow /\ ep' = e /\ report' = None

(* The rest of the interval, at least 0; the round's locals are gone.       *)
SleepOn(e) ==
    /\ pc' = "sleep" /\ due' = Max({now, e.round + Interval})
    /\ ep' = [e EXCEPT !.round = None, !.obs = None] /\ report' = None

Finish(o, e, recovered) ==
    /\ pc' = "idle" /\ due' = None /\ ep' = NoEpisode
    /\ report' = [outcome |-> o, recovered |-> recovered, post |-> e.post,
                  at |-> e.obs, lastBad |-> e.lastBad]

(* supervise(); the policy says what an unreadable status page means. *)
Begin ==
    /\ pc = "idle"
    /\ \E open \in BOOLEAN :
          Await("probes", [NoEpisode EXCEPT !.start = now, !.round = now, !.failOpen = open,
                                            !.lastOk = [p \in Triggers |-> now]])
    /\ UNCHANGED <<now, restarts, unrecorded>>

-----------------------------------------------------------------------------
(* The guard rails. *)

(* Mutant: the pause after a restart is the time it may take to recover. *)
CoolingWhileVerifying(at) == \E r \in restarts : at - r.at < VerifyMax
Cooling(at) == \E r \in restarts : at - r.at < MinInterval

Exhausted(at) == Cardinality({r \in restarts : at - r.at < Window}) >= MaxRestarts

(* decide(), once something is detected. *)
Decision(e) ==
    IF Exhausted(e.obs) THEN "escalate"
    ELSE IF \/ e.status # "ACTIVE_HEALTHY"
            \/ Cooling(e.obs)
            \/ e.obs - Created < MinAge
            \/ e.gate = "unreadable" /\ ~e.failOpen
            \/ e.gate = "blocked"
         THEN "hold" ELSE "restart"

(* The decision and what follows it in the same turn. *)
Decide(e) ==
    \/ Decision(e) = "escalate" /\ Finish("escalated", e, None)
    \/ Decision(e) = "restart" /\ Await("post", [e EXCEPT !.sent = now])
    \/ Decision(e) = "hold" /\ SleepOn(e)

Stale(at, obs, poll) == IF at = None THEN TRUE ELSE obs - at >= poll

ReadGate(e) ==
    \/ Stale(e.gateAt, e.obs, GatePoll) /\ Await("gate", e)
    \/ ~Stale(e.gateAt, e.obs, GatePoll) /\ Decide(e)

ReadStatus(e) ==
    \/ Stale(e.statusAt, e.obs, StatusPoll) /\ Await("status", e)
    \/ ~Stale(e.statusAt, e.obs, StatusPoll) /\ ReadGate(e)

-----------------------------------------------------------------------------
(* A round. *)

(* Detector.observe: a good sample ends the run of failures (mutant: it     *)
(* does not).  Samples are counted up to MinSamples.                        *)
ObservedForgiving(bad) ==
    [p \in Triggers |->
        IF p \notin bad THEN ep.failSince[p]
        ELSE IF ep.failSince[p] = None THEN [at |-> now, samples |-> 1]
        ELSE [ep.failSince[p] EXCEPT !.samples = Min({@ + 1, MinSamples})]]
Observed(bad) ==
    [p \in Triggers |->
        IF p \notin bad THEN None
        ELSE IF ep.failSince[p] = None THEN [at |-> now, samples |-> 1]
        ELSE [ep.failSince[p] EXCEPT !.samples = Min({@ + 1, MinSamples})]]

(* Detector.detected *)
Detected(e) ==
    {p \in Triggers : /\ e.failSince[p] # None
                      /\ e.obs - e.failSince[p].at >= DetectAfter
                      /\ e.failSince[p].samples >= MinSamples}

(* RecoveryTracker.observe (mutant: only the triggers have to be well). *)
OkSinceOnTriggers(bad) ==
    IF bad \cap Triggers # {} THEN None ELSE IF ep.okSince = None THEN now ELSE ep.okSince
OkSince(bad) ==
    IF bad # {} THEN None ELSE IF ep.okSince = None THEN now ELSE ep.okSince

Settled(e) == e.okSince # None /\ e.obs - e.okSince >= Settle

(* Before a restart: consult and decide, or go on watching. *)
Watch(e) ==
    \/ Detected(e) # {} /\ ReadStatus([e EXCEPT !.detected = TRUE])
    \/ /\ Detected(e) = {}
       /\ \/ e.detected /\ Settled(e) /\ Finish("self-cleared", e, e.okSince)
          \/ ~e.detected /\ e.obs - e.start >= MaxWatch /\ Finish("no-fault", e, None)
          \/ e.detected /\ ~Settled(e) /\ SleepOn(e)
          \/ ~e.detected /\ e.obs - e.start < MaxWatch /\ SleepOn(e)

(* After it: recovered on the data path, given up, or another round. *)
Verified(e) ==
    \/ Settled(e) /\ Finish("recovered", e, e.okSince)
    \/ ~Settled(e) /\ e.obs - e.post >= VerifyMax /\ Finish("unrecovered", e, None)
    \/ ~Settled(e) /\ e.obs - e.post < VerifyMax /\ SleepOn(e)

Verify(e) ==
    \/ Stale(e.statusAt, e.obs, StatusPoll) /\ Await("verify", e)
    \/ ~Stale(e.statusAt, e.obs, StatusPoll) /\ Verified(e)

(* Mutant: an episode that has detected a fault is not stopped. *)
OvertimeUndetected(e) == ~e.detected /\ e.obs - e.start >= HardStop
Overtime(e) == e.obs - e.start >= HardStop

(* Every probe has answered, or failed at its deadline; those in bad failed. *)
Observe(bad) ==
    LET e == [ep EXCEPT !.obs = now, !.failSince = Observed(bad), !.okSince = OkSince(bad),
                        !.lastOk = [p \in Triggers |-> IF p \in bad THEN @[p] ELSE now],
                        !.lastBad = IF bad = {} THEN @ ELSE now]
    IN  /\ pc = "probes"
        /\ \/ Overtime(e) /\ Finish("hard-stop", e, None)
           \/ ~Overtime(e) /\ ep.post = None /\ Watch(e)
           \/ ~Overtime(e) /\ ep.post # None /\ Verify(e)
        /\ UNCHANGED <<now, restarts, unrecorded>>

(* controlStatus(): anything but ACTIVE_HEALTHY counts the same. *)
WithStatus(v) == [ep EXCEPT !.status = v, !.statusAt = ep.obs, !.statusRead = now]

StatusAnswers(v) ==
    /\ pc = "status"
    /\ ReadGate(WithStatus(v))
    /\ UNCHANGED <<now, restarts, unrecorded>>

VerifyStatusAnswers(v) ==
    /\ pc = "verify"
    /\ Verified(WithStatus(v))
    /\ UNCHANGED <<now, restarts, unrecorded>>

GateAnswers(r) ==
    /\ pc = "gate"
    /\ Decide([ep EXCEPT !.gate = r.view, !.gateAt = ep.obs,
                         !.gateRead = now, !.against = r.against])
    /\ UNCHANGED <<now, restarts, unrecorded>>

(* The restart is accepted: it enters the history, and the status is read   *)
(* again in the next round.                                                 *)
PostAnswers ==
    /\ pc = "post"
    /\ restarts' = restarts \cup {[at |-> ep.sent, by |-> "runbook"]}
    /\ SleepOn([ep EXCEPT !.post = ep.sent, !.sent = None, !.status = None, !.statusAt = None,
                          !.statusRead = None, !.gateRead = None, !.lastBad = None])
    /\ UNCHANGED <<now, unrecorded>>

(* It is refused. *)
PostRefused ==
    /\ pc = "post"
    /\ Finish("restart-refused", [ep EXCEPT !.post = ep.sent], None)
    /\ UNCHANGED <<now, restarts, unrecorded>>

(* It is made, but the call times out, fails or answers with an error. *)
PostLost ==
    /\ pc = "post"
    /\ Finish("restart-refused", [ep EXCEPT !.post = ep.sent], None)
    /\ unrecorded' = unrecorded \cup {ep.sent}
    /\ UNCHANGED <<now, restarts>>

Wake ==
    /\ pc = "sleep" /\ now = due
    /\ Await("probes", [ep EXCEPT !.round = now])
    /\ UNCHANGED <<now, restarts, unrecorded>>

-----------------------------------------------------------------------------
(* The operator restarts the project and records it. *)
OperatorRestarts ==
    /\ Cardinality({r \in restarts : r.by = "operator"}) < MaxOperator
    /\ restarts' = restarts \cup {[at |-> now, by |-> "operator"]}
    /\ UNCHANGED <<now, pc, due, ep, report, unrecorded>>

Tick ==
    /\ now < MaxNow
    /\ due # None => now < due
    /\ now' = now + 1
    /\ UNCHANGED <<pc, due, ep, report, restarts, unrecorded>>

Next ==
    \/ Begin \/ Wake \/ PostAnswers \/ PostRefused \/ PostLost
    \/ OperatorRestarts \/ Tick
    \/ \E bad \in SUBSET Paths : Observe(bad)
    \/ \E v \in {"ACTIVE_HEALTHY", "other"} : StatusAnswers(v) \/ VerifyStatusAnswers(v)
    \/ \E r \in GateReadings : GateAnswers(r)

Spec == Init /\ [][Next]_vars

-----------------------------------------------------------------------------
(* What the runbook promises. *)

Ours == {r.at : r \in {s \in restarts : s.by = "runbook"}} \cup unrecorded

(* "No second restart within this long of the previous one (ours or         *)
(* recorded)" and "at most this many restarts inside windowMs", over all    *)
(* episodes and although a decision uses the time of the observation and    *)
(* the operator may restart while it is prepared: a restart of the runbook, *)
(* answered or not, keeps its distance to every earlier one in the history. *)
(* (One whose answer is lost does not enter the history.)                   *)
RestartsSpaced ==
    \A t \in Ours :
        LET earlier == {r \in restarts : r.at < t}
        IN  /\ \A r \in earlier : t - r.at >= MinInterval
            /\ Cardinality({r \in earlier : t - r.at < Window}) < MaxRestarts

(* A restart is sent only when a trigger has had no good sample for         *)
(* DetectAfter, the project was last seen healthy, and the status page, if  *)
(* it could be read, did not speak against it; and neither was read longer  *)
(* ago than its polling interval and one slow call.                         *)
RestartEarned ==
    [][pc # "post" /\ pc' = "post" =>
        /\ \E p \in Triggers : now - ep'.lastOk[p] >= DetectAfter
        /\ ep'.status = "ACTIVE_HEALTHY" /\ now - ep'.statusRead < StatusPoll + Slow
        /\ ~ep'.against /\ now - ep'.gateRead < GatePoll + Slow
        /\ ep'.gate = "unreadable" => ep'.failOpen]_vars

(* "Every probe ok on every sample for settleMs": what is reported as the   *)
(* recovery is the first of good rounds only, long enough ago, and not      *)
(* before the restart it is credited to.                                    *)
RecoveredReal ==
    report # None /\ report.recovered # None =>
        /\ report.at - report.recovered >= Settle
        /\ report.lastBad # None => report.lastBad <= report.recovered
        /\ report.post # None => report.post <= report.recovered

(* "Absolute cap on the episode (holds included)": an episode that is held, *)
(* verified or waiting for an answer is over one round after the cap.       *)
EpisodeBounded ==
    pc # "idle" => now - ep.start < HardStop + Max({Interval, 3 * Slow}) + Slow
=============================================================================
