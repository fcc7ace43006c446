------------------------------- MODULE Sampler -------------------------------
(***************************************************************************)
(* The continuous multi-path sampler of the harness (sampleDuring in       *)
(* harness/src/sampler.ts).  One asynchronous loop per connection path     *)
(* probes that path while an operation runs; a watchdog decides when the   *)
(* sampling may stop and notices when the host was paused; the main        *)
(* function awaits the operation, the watchdog and the loops, and reports  *)
(* one window per path.                                                    *)
(*                                                                         *)
(* JavaScript runs one callback at a time, so an action is the code        *)
(* between two awaits.  Time is the wall clock relative to t0, in units.   *)
(* A timer fires before the clock moves past it (Tick waits for timers     *)
(* that are due) unless the host is paused (HostSleeps, LoopBlocked): then  *)
(* the clock moves and no callback runs in between.  The failure texts     *)
(* (modes), the down flag that only guards a log line and the log itself   *)
(* are left out.                                                           *)
(***************************************************************************)
EXTENDS Integers, FiniteSets, FiniteSetsExt

CONSTANTS
    Paths,              \* the probes
    Interval,           \* intervalMs
    MaxWait,            \* maxWaitMs
    Settle,             \* settleMs
    Deadline,           \* sampleDeadlineMs
    Slack,              \* PAUSE_SLACK_MS
    SuspendLengths,     \* how long one host pause may last (environment)
    MaxSuspends,        \* bound: host pauses in one run
    MaxTime             \* bound: the last instant of the clock

ASSUME IntervalAssumption == Interval \in Nat \ {0}
ASSUME WaitAssumption == MaxWait \in Nat \ {0} /\ Settle \in Nat
ASSUME DeadlineAssumption == Deadline \in Nat \ {0} /\ Slack \in Nat
ASSUME PathsAssumption == IsFiniteSet(Paths)
ASSUME SuspendAssumption == /\ SuspendLengths \subseteq Nat \ {0}
                            /\ MaxSuspends \in Nat
ASSUME MaxTimeAssumption == MaxTime \in Nat

(* null in the code: a time that has not been observed. *)
None == -1

VARIABLES
    now,        \* clock.wall() - t0
    stop,       \* the shared stop flag
    main,       \* what sampleDuring is awaiting, or how it ended
    endMs,      \* the clock when sampling ended, or None
    pc,         \* per path: probing, sleeping or done
    at,         \* per path: the instant its latest sample was started
    due,        \* per path: when its pending timer (deadline or sleep) fires
    samples, failures, healthyAtStart, firstFail, pendingRecovery, recovered,
    watch,      \* the watchdog: its pc, its pending timer and lastWall
    pauses,     \* the host pauses the watchdog has recorded
    oks, fails, \* history: the instants of the good and of the bad samples
    suspended   \* history: the real host pauses

clockVars  == <<now, suspended>>
pathVars   == <<pc, at, due, samples, failures, healthyAtStart, firstFail,
                pendingRecovery, recovered, oks, fails>>
watchVars  == <<watch, pauses>>
mainVars   == <<stop, main, endMs>>
vars == <<clockVars, pathVars, watchVars, mainVars>>

Times == Nat \cup {None}
PathPCs == {"probing", "sleeping", "done"}
WatchPCs == {"sleeping", "done"}
MainPCs == {"operation", "watchdog", "loops", "aborting", "returned", "rethrown"}
Finished == main \in {"returned", "rethrown"}

(* One type invariant: the fields of PathState, the watchdog's locals and   *)
(* the flags of sampleDuring keep their types.                              *)
TypeOK ==
    /\ now \in Nat
    /\ stop \in BOOLEAN
    /\ main \in MainPCs
    /\ endMs \in Times
    /\ pc \in [Paths -> PathPCs]
    /\ at \in [Paths -> Nat]
    /\ due \in [Paths -> Nat]
    /\ samples \in [Paths -> Nat]
    /\ failures \in [Paths -> Nat]
    /\ healthyAtStart \in [Paths -> {"null", "up", "down"}]
    /\ firstFail \in [Paths -> Times]
    /\ pendingRecovery \in [Paths -> Times]
    /\ recovered \in [Paths -> Times]
    /\ watch \in [pc: WatchPCs, due: Nat, lastWall: Nat]
    /\ pauses \subseteq Nat \X Nat
    /\ oks \in [Paths -> SUBSET Nat]
    /\ fails \in [Paths -> SUBSET Nat]
    /\ suspended \subseteq Nat \X Nat

-----------------------------------------------------------------------------
(* Initial state: the prologue of sampleDuring runs without an await, so    *)
(* every loop has started its first probe, the watchdog is in its first     *)
(* sleep and the operation has been called, all at t0.                      *)
Init ==
    /\ now = 0 /\ suspended = {}
    /\ stop = FALSE /\ main = "operation" /\ endMs = None
    /\ pc = [p \in Paths |-> "probing"]
    /\ at = [p \in Paths |-> 0]
    /\ due = [p \in Paths |-> Deadline]
    /\ samples = [p \in Paths |-> 0]
    /\ failures = [p \in Paths |-> 0]
    /\ healthyAtStart = [p \in Paths |-> "null"]
    /\ firstFail = [p \in Paths |-> None]
    /\ pendingRecovery = [p \in Paths |-> None]
    /\ recovered = [p \in Paths |-> None]
    /\ watch = [pc |-> "sleeping", due |-> Interval, lastWall |-> 0]
    /\ pauses = {}
    /\ oks = [p \in Paths |-> {}]
    /\ fails = [p \in Paths |-> {}]

(* Mutant: the loops test the stop flag only. *)
KeepGoingUntilStop == ~stop

(* The condition of both while loops. *)
KeepGoing == ~stop /\ now < MaxWait

-----------------------------------------------------------------------------
(* The loop of one path. *)

(* Mutant: a failure does not cancel the candidate recovery. *)
RecordFailureKeepsPending(p) ==
    /\ failures' = [failures EXCEPT ![p] = @ + 1]
    /\ firstFail' = [firstFail EXCEPT ![p] = IF @ = None THEN at[p] ELSE @]
    /\ fails' = [fails EXCEPT ![p] = @ \cup {at[p]}]
    /\ UNCHANGED <<pendingRecovery, recovered, oks>>

(* A sample came back bad. *)
RecordFailure(p) ==
    /\ failures' = [failures EXCEPT ![p] = @ + 1]
    /\ pendingRecovery' = [pendingRecovery EXCEPT ![p] = None]
    /\ firstFail' = [firstFail EXCEPT ![p] = IF @ = None THEN at[p] ELSE @]
    /\ fails' = [fails EXCEPT ![p] = @ \cup {at[p]}]
    /\ UNCHANGED <<recovered, oks>>

(* A sample came back good: the first one after a failure is a candidate    *)
(* recovery, believed once a later good one is settleMs away from it.       *)
RecordSuccess(p) ==
    /\ oks' = [oks EXCEPT ![p] = @ \cup {at[p]}]
    /\ IF firstFail[p] # None /\ recovered[p] = None
       THEN IF pendingRecovery[p] = None
            THEN /\ pendingRecovery' = [pendingRecovery EXCEPT ![p] = at[p]]
                 /\ UNCHANGED recovered
            ELSE /\ recovered' = [recovered EXCEPT ![p] =
                                    IF at[p] - pendingRecovery[p] >= Settle
                                    THEN pendingRecovery[p] ELSE None]
                 /\ UNCHANGED pendingRecovery
       ELSE UNCHANGED <<pendingRecovery, recovered>>
    /\ UNCHANGED <<failures, firstFail, fails>>

(* The code between the probe's answer and the sleep. *)
Record(p, ok) ==
    /\ samples' = [samples EXCEPT ![p] = @ + 1]
    /\ healthyAtStart' = [healthyAtStart EXCEPT ![p] =
                            IF @ = "null" THEN IF ok THEN "up" ELSE "down"
                            ELSE @]
    /\ IF ok THEN RecordSuccess(p) ELSE RecordFailure(p)
    /\ pc' = [pc EXCEPT ![p] = "sleeping"]
    /\ due' = [due EXCEPT ![p] = now + Interval]
    /\ UNCHANGED <<at, clockVars, watchVars, mainVars>>

(* Mutant: the answer of an abandoned probe is still recorded. *)
ProbeAnswersAfterDeadline(p) ==
    /\ pc[p] \in {"probing", "sleeping"}
    /\ \E ok \in BOOLEAN : Record(p, ok)

(* probe.run() settles, with either outcome (a rejection is a failure). *)
ProbeAnswers(p) ==
    /\ pc[p] = "probing"
    /\ \E ok \in BOOLEAN : Record(p, ok)

(* Mutant: no deadline, the loop waits for the probe itself. *)
ProbeDeadlineMissing(p) == pc[p] = "abandoned" /\ Record(p, FALSE)

(* withDeadline: a probe that has not answered in time counts as failed and *)
(* its promise is abandoned.                                                *)
ProbeDeadline(p) ==
    /\ pc[p] = "probing"
    /\ now >= due[p]
    /\ Record(p, FALSE)

(* Mutant: the sample is dated one deadline before the probe starts. *)
StartProbeBackdated(p) ==
    /\ pc' = [pc EXCEPT ![p] = "probing"]
    /\ at' = [at EXCEPT ![p] = now - Deadline]
    /\ due' = [due EXCEPT ![p] = now + Deadline]

(* The sample is dated before its probe is awaited. *)
StartProbe(p) ==
    /\ pc' = [pc EXCEPT ![p] = "probing"]
    /\ at' = [at EXCEPT ![p] = now]
    /\ due' = [due EXCEPT ![p] = now + Deadline]

(* Bun.sleep(intervalMs) ends: test the loop's condition again. *)
PathWakes(p) ==
    /\ pc[p] = "sleeping"
    /\ now >= due[p]
    /\ IF KeepGoing
       THEN StartProbe(p)
       ELSE pc' = [pc EXCEPT ![p] = "done"] /\ UNCHANGED <<at, due>>
    /\ UNCHANGED <<samples, failures, healthyAtStart, firstFail,
                   pendingRecovery, recovered, oks, fails,
                   clockVars, watchVars, mainVars>>

-----------------------------------------------------------------------------
(* The watchdog. *)

(* Every path that failed has recovered and settled. *)
AllSettled == \A p \in Paths : firstFail[p] = None \/ recovered[p] # None

(* Mutant: nothing down is taken for the end of an outage. *)
OutageOverWhenNothingDown == AllSettled

(* The early break: something went down and everything came back. *)
OutageOver == (\E p \in Paths : firstFail[p] # None) /\ AllSettled

(* A wake-up later than the slack is a host pause since the last wake-up.   *)
LatePause ==
    IF now - watch.lastWall - Interval > Slack
    THEN {<<watch.lastWall, now>>} ELSE {}

(* The loop's condition and early break, then the next sleep. *)
WatchdogRearm ==
    [pc |-> IF KeepGoing /\ ~OutageOver THEN "sleeping" ELSE "done",
     due |-> now + Interval,
     lastWall |-> now]

(* The watchdog's sleep ends. *)
WatchdogWakes ==
    /\ watch.pc = "sleeping"
    /\ now >= watch.due
    /\ pauses' = pauses \cup LatePause
    /\ watch' = WatchdogRearm
    /\ UNCHANGED <<clockVars, pathVars, mainVars>>

-----------------------------------------------------------------------------
(* The body of sampleDuring after its prologue. *)

OperationSucceeds ==
    /\ main = "operation"
    /\ main' = "watchdog"
    /\ UNCHANGED <<stop, endMs, clockVars, pathVars, watchVars>>

OperationThrows ==
    /\ main = "operation"
    /\ main' = "aborting"
    /\ stop' = TRUE
    /\ UNCHANGED <<endMs, clockVars, pathVars, watchVars>>

WatchdogAwaited ==
    /\ main = "watchdog"
    /\ watch.pc = "done"
    /\ main' = "loops"
    /\ stop' = TRUE
    /\ UNCHANGED <<endMs, clockVars, pathVars, watchVars>>

(* Mutant: sampleDuring returns without awaiting the loops. *)
LoopsNotAwaited ==
    /\ main = "loops"
    /\ main' = "returned"
    /\ endMs' = now
    /\ UNCHANGED <<stop, clockVars, pathVars, watchVars>>

LoopsAwaited ==
    /\ main = "loops"
    /\ \A p \in Paths : pc[p] = "done"
    /\ main' = "returned"
    /\ endMs' = now
    /\ UNCHANGED <<stop, clockVars, pathVars, watchVars>>

Rethrows ==
    /\ main = "aborting"
    /\ watch.pc = "done"
    /\ \A p \in Paths : pc[p] = "done"
    /\ main' = "rethrown"
    /\ UNCHANGED <<stop, endMs, clockVars, pathVars, watchVars>>

(* finalise: the overlap of a recorded pause with [from, to]. *)
Overlap(s, from, to) ==
    LET lo == IF s[1] > from THEN s[1] ELSE from
        hi == IF s[2] < to THEN s[2] ELSE to
    IN  IF hi > lo THEN hi - lo ELSE 0

(* finalise: the end of the span a path's window answers for. *)
WindowEnd(p) == IF recovered[p] # None THEN recovered[p] ELSE endMs

TotalOverlap(spans, from, to) ==
    MapThenSumSet(LAMBDA s : Overlap(s, from, to), spans)

(* Mutant: counted inside the outage only. *)
PausedMsInOutage(p) ==
    IF firstFail[p] = None THEN 0 ELSE TotalOverlap(pauses, firstFail[p], WindowEnd(p))

PausedMs(p) == TotalOverlap(pauses, 0, WindowEnd(p))

-----------------------------------------------------------------------------
(* Time: clock.wall() and the two ways it moves. *)

(* No timer is waiting to fire. *)
NothingDue ==
    /\ \A p \in Paths : pc[p] # "done" => now < due[p]
    /\ watch.pc # "done" => now < watch.due

Tick ==
    /\ ~Finished
    /\ NothingDue
    /\ now < MaxTime
    /\ now' = now + 1
    /\ UNCHANGED <<suspended, pathVars, watchVars, mainVars>>

(* The host is paused for one of SuspendLengths: no callback runs. *)
Paused(d) ==
    /\ ~Finished
    /\ Cardinality(suspended) < MaxSuspends
    /\ now + d <= MaxTime
    /\ now' = now + d
    /\ suspended' = suspended \cup {<<now, now + d>>}

(* The machine sleeps: the monotonic clock stops with it, so every timer    *)
(* keeps the time it still had to run.                                      *)
HostSleeps ==
    \E d \in SuspendLengths :
        /\ Paused(d)
        /\ due' = [p \in Paths |-> due[p] + d]
        /\ watch' = [watch EXCEPT !.due = @ + d]
        /\ UNCHANGED <<pc, at, samples, failures, healthyAtStart, firstFail,
                       pendingRecovery, recovered, oks, fails, pauses, mainVars>>

(* The event loop is blocked: both clocks go on and timers become overdue.  *)
LoopBlocked ==
    \E d \in SuspendLengths :
        /\ Paused(d)
        /\ UNCHANGED <<pathVars, watchVars, mainVars>>

(* sampleDuring has returned or thrown: nothing is left to run. *)
Ended == Finished /\ UNCHANGED vars

PathStep(p) == ProbeAnswers(p) \/ ProbeDeadline(p) \/ PathWakes(p)

MainStep == \/ OperationSucceeds \/ OperationThrows
            \/ WatchdogAwaited \/ LoopsAwaited \/ Rethrows

Next ==
    \/ \E p \in Paths : PathStep(p)
    \/ WatchdogWakes
    \/ MainStep
    \/ Tick \/ HostSleeps \/ LoopBlocked \/ Ended

Spec == Init /\ [][Next]_vars

(* Timers fire and awaited promises continue; the clock moves.  Nothing is  *)
(* assumed of a probe (it may hang) nor of the operation.                   *)
Fairness ==
    /\ WF_vars(Tick)
    /\ WF_vars(WatchdogWakes)
    /\ WF_vars(WatchdogAwaited) /\ WF_vars(LoopsAwaited) /\ WF_vars(Rethrows)
    /\ \A p \in Paths : WF_vars(ProbeDeadline(p)) /\ WF_vars(PathWakes(p))

FairSpec == Spec /\ Fairness

-----------------------------------------------------------------------------
(* What the windows promise. *)

(* A sustained recovery in the history of path p: good samples at i and at  *)
(* a later j at least settleMs apart, a failure before i, none in between.  *)
SettledRun(p, i, j) ==
    /\ i \in oks[p] /\ j \in oks[p] /\ i < j
    /\ j - i >= Settle
    /\ \E f \in fails[p] : f < i
    /\ \A f \in fails[p] : f < i \/ f > j

(* The first failure reported is the earliest failed sample. *)
FirstFailRight(p) ==
    IF fails[p] = {} THEN firstFail[p] = None
    ELSE firstFail[p] \in fails[p] /\ \A f \in fails[p] : firstFail[p] <= f

(* The recovery reported is the start of the earliest sustained recovery.   *)
RecoveryRight(p) ==
    /\ recovered[p] = None => \A i, j \in oks[p] : ~SettledRun(p, i, j)
    /\ recovered[p] # None =>
          /\ \E j \in oks[p] : SettledRun(p, recovered[p], j)
          /\ \A i, j \in oks[p] : SettledRun(p, i, j) => recovered[p] <= i

(* healthyAtStart is the verdict of the earliest sample of all. *)
StartRight(p) ==
    /\ healthyAtStart[p] = "null" <=> oks[p] = {} /\ fails[p] = {}
    /\ healthyAtStart[p] = "up" =>
          \E i \in oks[p] : \A f \in fails[p] : i < f
    /\ healthyAtStart[p] = "down" =>
          \E f \in fails[p] : \A i \in oks[p] : f < i

(* The one-pass bookkeeping of loop() computes, for every path and at every *)
(* moment, exactly the window a reader would find in the full history of    *)
(* its samples: a lucky sample, a blip shorter than settleMs or a later     *)
(* outage never moves it.                                                   *)
WindowMatchesHistory ==
    \A p \in Paths : FirstFailRight(p) /\ RecoveryRight(p) /\ StartRight(p)

(* No sample is lost or counted twice: the counters reported are the sizes  *)
(* of the history, although probes of several paths answer in any order and *)
(* a late answer races the sample deadline.                                 *)
CountsMatchHistory ==
    \A p \in Paths : /\ failures[p] = Cardinality(fails[p])
                     /\ samples[p] = failures[p] + Cardinality(oks[p])

(* "A null result has to be earned by waiting": when sampleDuring returns   *)
(* before maxWaitMs, some path did go down and come back, and a path left   *)
(* without a recovery was not known to be down when the watchdog decided to *)
(* stop: its first failed sample began after that or, host pauses aside,    *)
(* not more than one sample deadline before.                                *)
NullIsEarned ==
    main = "returned" /\ endMs < MaxWait =>
        /\ \E p \in Paths : recovered[p] # None
        /\ \A p \in Paths :
              firstFail[p] # None /\ recovered[p] = None =>
                  firstFail[p] + Deadline + TotalOverlap(suspended, 0, endMs) >= watch.lastWall

(* The windows handed to the caller never change after the return: no loop, *)
(* late probe or watchdog is still writing to them.                         *)
ResultsStable ==
    [][main = "returned" =>
        UNCHANGED <<samples, failures, healthyAtStart, firstFail, recovered,
                    pauses, endMs>>]_vars

(* maxWaitMs is a hard stop for sampling: every loop and the watchdog have  *)
(* ended one sample deadline and one interval after it, plus the time the   *)
(* host was paused.                                                         *)
HardStop ==
    now >= MaxWait + Deadline + Interval + TotalOverlap(suspended, 0, now)
        => watch.pc = "done" /\ \A p \in Paths : pc[p] = "done"

(* Once the operation has ended, sampleDuring returns or rethrows, although *)
(* a probe may never answer.                                                *)
Terminates == (main # "operation") ~> Finished

(* What allSettled and the early-exit comment promise when the operation    *)
(* returns and the watchdog has stopped early, so that sampling ends here:  *)
(* every path that failed has recovered.                                    *)
RecoveryAwaited ==
    [][main = "operation" /\ main' = "watchdog" /\ watch.pc = "done" /\ now < MaxWait
        => AllSettled]_vars

(* "Non-zero means the window, or a 'never failed', has a blind spot that   *)
(* long": a pause of the host inside [0, recoveredMs or end of sampling]    *)
(* that began before the watchdog's last wake-up is in pausedMs, and no     *)
(* time is in it beyond the pauses and one interval for each.               *)
PausedReported ==
    main = "returned" =>
        \A p \in Paths :
            /\ \A s \in suspended :
                  s[2] - s[1] > Slack + Interval /\ s[1] < watch.lastWall
                      => PausedMs(p) >= Overlap(s, 0, WindowEnd(p))
            /\ PausedMs(p) <= TotalOverlap(suspended, 0, endMs) + Interval * Cardinality(suspended)
=============================================================================
