------------------------------- MODULE Runner --------------------------------
(***************************************************************************)
(* The runner of the harness: main() of harness/src/run.ts with the plan   *)
(* of plan.ts and the two guards of settle.ts.  It plans the modules, runs *)
(* them one after the other, records one outcome for each, writes the      *)
(* artifact and picks the exit code.                                       *)
(*                                                                         *)
(* An action is one turn of the event loop.  A module's promise either has *)
(* something behind it that keeps the loop alive (work "pending") or has   *)
(* nothing and can never settle ("hung"); a module that is over may leave  *)
(* a handle open, which keeps the loop alive too.  When nothing keeps the  *)
(* loop alive it drains: "beforeExit" fires, and unless its listener       *)
(* schedules something the process exits.                                  *)
(***************************************************************************)
EXTENDS Integers, Sequences, FiniteSets

CONSTANTS
    Modules,        \* the registered test modules
    Rank,           \* per module: the place of its id in locale order, ties
                    \* (ids collide across experiments) in registry order
    Destructive,    \* the modules declared destructive
    Timed,          \* the modules that declare timeoutMs
    Vantage,        \* per module: its `where`
    Requires,       \* per module: the capabilities it needs
    Experiment,     \* per module: the experiment it belongs to
    Options,        \* the command lines considered
    Holding,        \* the modules whose handle may stay open for ever
    NoModule

ASSUME ModulesAssumption == IsFiniteSet(Modules) /\ NoModule \notin Modules
ASSUME RankAssumption == /\ Rank \in [Modules -> Nat]
                         /\ \A a, b \in Modules : Rank[a] = Rank[b] => a = b
ASSUME SubsetAssumption == /\ Destructive \subseteq Modules
                           /\ Timed \subseteq Modules
                           /\ Holding \subseteq Modules

VARIABLES
    plan,           \* planRun(...).run, in execution order
    skipped,        \* planRun(...).skipped
    chosen,         \* the modules the filters let through (history)
    pc,             \* where main() is
    io,             \* the harness's own awaited call: alive, or stalled
    current,        \* index in plan of the module the loop is at
    work,           \* the promise of each module's run()
    handles,        \* the modules that are over and left a handle open
    armed,          \* the module whose race the drain watch would wake
    wakes,          \* pending setTimeout(wake, 0), by module
    timer,          \* the module whose (unref'd) timeout timer is pending
    results, unsettled,
    artifact,       \* what has been written: nothing, the JSON, or both files
    mainDone, exit

planVars == <<plan, skipped, chosen>>
raceVars == <<armed, timer>>
outVars  == <<results, unsettled>>
vars == <<planVars, pc, io, current, work, handles, raceVars, wakes, outVars,
          artifact, mainDone, exit>>

Outcomes == {"settled", "threw", "drained", "timeout"}
Works == {"idle", "pending", "hung", "settled", "threw"}
PCs == {"setup", "start", "await", "json", "md", "finished", "exited"}
Running == -1

(* One type invariant: what main() and the drain watch keep. *)
TypeOK ==
    /\ plan \in Seq(Modules)
    /\ skipped \subseteq Modules /\ chosen \subseteq Modules
    /\ pc \in PCs
    /\ io \in {"alive", "stalled"}
    /\ current \in Nat
    /\ work \in [Modules -> Works]
    /\ handles \subseteq Modules
    /\ armed \in Modules \cup {NoModule}
    /\ timer \in Modules \cup {NoModule}
    /\ wakes \subseteq Modules
    /\ results \in Seq([module: Modules, kind: Outcomes])
    /\ unsettled \subseteq Modules
    /\ artifact \in {"none", "json", "full"}
    /\ mainDone \in BOOLEAN
    /\ exit \in {Running, 0, 1, 2}

-----------------------------------------------------------------------------
(* planRun: filters, skips and order. *)

(* --only and --experiment drop a module without a result. *)
Chosen(opts) ==
    {m \in Modules : /\ opts.only = {} \/ m \in opts.only
                     /\ opts.experiment \in {"", Experiment[m]}}

(* A chosen module that cannot run here is reported as skipped. *)
Runnable(m, opts) ==
    /\ Vantage[m] = opts.where
    /\ Requires[m] \subseteq opts.capabilities
    /\ m \in Destructive => opts.allowDestructive

(* Mutant: modules run in the order of their ids. *)
BeforeById(a, b) == Rank[a] < Rank[b]

(* The sort of plan.ts: read-only first, then by id. *)
Before(a, b) ==
    \/ a \notin Destructive /\ b \in Destructive
    \/ (a \in Destructive <=> b \in Destructive) /\ Rank[a] < Rank[b]

(* The sorted sequence of the modules of S. *)
Sorted(S) ==
    {s \in [1..Cardinality(S) -> S] :
        \A i, j \in 1..Cardinality(S) : i < j => Before(s[i], s[j])}

Init ==
    /\ \E opts \in Options :
          /\ chosen = Chosen(opts)
          /\ plan \in Sorted({m \in Chosen(opts) : Runnable(m, opts)})
          /\ skipped = {m \in Chosen(opts) : ~Runnable(m, opts)}
    /\ pc = "setup" /\ io = "alive" /\ current = 1
    /\ work = [m \in Modules |-> "idle"] /\ handles = {}
    /\ armed = NoModule /\ timer = NoModule /\ wakes = {}
    /\ results = <<>> /\ unsettled = {}
    /\ artifact = "none" /\ mainDone = FALSE /\ exit = Running

(* Where the loop over the plan goes from index i. *)
LoopPC(i) == IF i <= Len(plan) THEN "start" ELSE "json"

Current == plan[current]

-----------------------------------------------------------------------------
(* settleModule. *)

(* Mutant: a module that did not settle is not remembered. *)
RecordForgetsUnsettled(kind) ==
    /\ results' = Append(results, [module |-> Current, kind |-> kind])
    /\ current' = current + 1
    /\ pc' = LoopPC(current + 1)
    /\ UNCHANGED unsettled

(* The loop body after settleModule: record the outcome, go on. *)
Record(kind) ==
    /\ results' = Append(results, [module |-> Current, kind |-> kind])
    /\ unsettled' = IF kind \in {"drained", "timeout"}
                    THEN unsettled \cup {Current} ELSE unsettled
    /\ current' = current + 1
    /\ pc' = LoopPC(current + 1)

(* The race is decided: its finally clears the timer and disarms the watch, *)
(* and the loop records the outcome before any other callback runs.         *)
RaceEnds(kind) ==
    /\ armed' = NoModule
    /\ timer' = NoModule
    /\ Record(kind)

(* m is the module whose race is undecided. *)
Awaited(m) == pc = "await" /\ m = Current

(* A module is over; it may leave a handle open. *)
Leaves(m) == handles' \in {handles, handles \cup {m}}

(* work() throws before it returns a promise: nothing was armed. *)
StartThrows ==
    /\ pc = "start"
    /\ work' = [work EXCEPT ![Current] = "threw"]
    /\ Leaves(Current)
    /\ Record("threw")
    /\ UNCHANGED <<planVars, io, raceVars, wakes, artifact, mainDone, exit>>

(* Mutant: the declared timeoutMs is not passed on. *)
StartRunsNoTimeout ==
    /\ pc = "start"
    /\ \E w \in {"pending", "hung"} : work' = [work EXCEPT ![Current] = w]
    /\ armed' = Current
    /\ timer' = NoModule
    /\ pc' = "await"
    /\ UNCHANGED <<planVars, io, current, handles, wakes, outVars, artifact, mainDone, exit>>

(* Mutant: the watch is not armed. *)
StartRunsUnarmed ==
    /\ pc = "start"
    /\ \E w \in {"pending", "hung"} : work' = [work EXCEPT ![Current] = w]
    /\ armed' = NoModule
    /\ timer' = IF Current \in Timed THEN Current ELSE NoModule
    /\ pc' = "await"
    /\ UNCHANGED <<planVars, io, current, handles, wakes, outVars, artifact, mainDone, exit>>

(* work() returns a promise: arm the watch, start the timer, await the race.*)
StartRuns ==
    /\ pc = "start"
    /\ \E w \in {"pending", "hung"} : work' = [work EXCEPT ![Current] = w]
    /\ armed' = Current
    /\ timer' = IF Current \in Timed THEN Current ELSE NoModule
    /\ pc' = "await"
    /\ UNCHANGED <<planVars, io, current, handles, wakes, outVars, artifact, mainDone, exit>>

(* Mutant: the answer of an abandoned module is recorded when it comes. *)
ModuleSettlesLate(m, kind) ==
    /\ pc # "exited"
    /\ work[m] = "pending"
    /\ work' = [work EXCEPT ![m] = kind]
    /\ Leaves(m)
    /\ IF Awaited(m) THEN RaceEnds(kind)
       ELSE /\ results' = Append(results, [module |-> m, kind |-> kind])
            /\ UNCHANGED <<pc, current, raceVars, unsettled>>
    /\ UNCHANGED <<planVars, io, wakes, artifact, mainDone, exit>>

(* A module's promise settles.  If its race was already decided, nobody     *)
(* listens any more.                                                        *)
ModuleSettles(m, kind) ==
    /\ pc # "exited"
    /\ work[m] = "pending"
    /\ work' = [work EXCEPT ![m] = kind]
    /\ Leaves(m)
    /\ IF Awaited(m) THEN RaceEnds(kind)
       ELSE UNCHANGED <<pc, current, raceVars, outVars>>
    /\ UNCHANGED <<planVars, io, wakes, artifact, mainDone, exit>>

(* The awaited module settles with null: the race ends, the first use of    *)
(* the result throws, main() rejects and its catch exits with 1.            *)
ModuleSettlesNull ==
    /\ pc = "await"
    /\ work[Current] = "pending"
    /\ work' = [work EXCEPT ![Current] = "settled"]
    /\ Leaves(Current)
    /\ armed' = NoModule /\ timer' = NoModule
    /\ pc' = "exited" /\ exit' = 1
    /\ UNCHANGED <<planVars, io, current, wakes, outVars, artifact, mainDone>>

(* A handle a module left open is closed. *)
HandleCloses(m) ==
    /\ pc # "exited"
    /\ m \in handles
    /\ handles' = handles \ {m}
    /\ UNCHANGED <<planVars, pc, io, current, work, raceVars, wakes, outVars,
                   artifact, mainDone, exit>>

(* What was behind a module's promise ends without settling it. *)
ModuleStalls(m) ==
    /\ pc # "exited"
    /\ work[m] = "pending"
    /\ work' = [work EXCEPT ![m] = "hung"]
    /\ UNCHANGED <<planVars, pc, io, current, handles, raceVars, wakes, outVars,
                   artifact, mainDone, exit>>

-----------------------------------------------------------------------------
(* The event loop. *)

(* Main is awaiting a call of its own: setup, or the artifact writes. *)
InHarnessCall == pc \in {"setup", "json", "md"}

(* Something keeps the process alive; the timeout timer is unref'd and does *)
(* not.                                                                     *)
LoopAlive ==
    \/ \E m \in Modules : work[m] = "pending"
    \/ handles # {}
    \/ wakes # {}
    \/ InHarnessCall /\ io = "alive"

(* The module's timeout timer fires while something keeps the loop alive.   *)
TimeoutFires ==
    /\ pc = "await"
    /\ timer = Current
    /\ LoopAlive
    /\ RaceEnds("timeout")
    /\ UNCHANGED <<planVars, io, work, handles, wakes, artifact, mainDone, exit>>

(* Mutant: the wake-up resolves whatever race is being awaited. *)
WakeFiresForAnyone(m) ==
    /\ m \in wakes
    /\ pc # "exited"
    /\ wakes' = wakes \ {m}
    /\ IF pc = "await" THEN RaceEnds("drained")
       ELSE UNCHANGED <<pc, current, raceVars, outVars>>
    /\ UNCHANGED <<planVars, io, work, handles, artifact, mainDone, exit>>

(* The timer set by the drain listener resolves the promise of the race it  *)
(* was armed for, which may have been decided meanwhile.                    *)
WakeFires(m) ==
    /\ m \in wakes
    /\ pc # "exited"
    /\ wakes' = wakes \ {m}
    /\ IF Awaited(m) THEN RaceEnds("drained")
       ELSE UNCHANGED <<pc, current, raceVars, outVars>>
    /\ UNCHANGED <<planVars, io, work, handles, artifact, mainDone, exit>>

(* "beforeExit": no callback is pending and nothing keeps the loop alive.   *)
Drained == pc \notin {"start", "exited"} /\ ~LoopAlive

(* The listener finds an armed race and wakes it through a timer. *)
DrainWakes ==
    /\ Drained
    /\ armed # NoModule
    /\ wakes' = wakes \cup {armed}
    /\ armed' = NoModule
    /\ UNCHANGED <<planVars, pc, io, current, work, handles, timer, outVars,
                   artifact, mainDone, exit>>

(* No race is armed: the process exits, with 1 unless main() has finished.  *)
DrainExits ==
    /\ Drained
    /\ armed = NoModule
    /\ exit' = IF mainDone THEN 0 ELSE 1
    /\ pc' = "exited"
    /\ UNCHANGED <<planVars, io, current, work, handles, raceVars, wakes, outVars,
                   artifact, mainDone>>

-----------------------------------------------------------------------------
(* The rest of main(). *)

(* What the harness itself awaits loses what was behind it. *)
HarnessStalls ==
    /\ InHarnessCall /\ io = "alive"
    /\ io' = "stalled"
    /\ UNCHANGED <<planVars, pc, current, work, handles, raceVars, wakes, outVars,
                   artifact, mainDone, exit>>

(* main() rejects: its catch exits with 1. *)
HarnessThrows ==
    /\ InHarnessCall /\ io = "alive"
    /\ pc' = "exited"
    /\ exit' = 1
    /\ UNCHANGED <<planVars, io, current, work, handles, raceVars, wakes, outVars,
                   artifact, mainDone>>

(* buildCtx, loadTests and readProjectRegion are done: enter the loop. *)
SetupDone ==
    /\ pc = "setup" /\ io = "alive"
    /\ pc' = LoopPC(current)
    /\ UNCHANGED <<planVars, io, current, work, handles, raceVars, wakes, outVars,
                   artifact, mainDone, exit>>

JsonWritten ==
    /\ pc = "json" /\ io = "alive"
    /\ artifact' = "json"
    /\ pc' = "md"
    /\ UNCHANGED <<planVars, io, current, work, handles, raceVars, wakes, outVars,
                   mainDone, exit>>

(* Mutant: the exit code counts the modules that did not settle. *)
ReportWrittenExitsWithCount ==
    /\ pc = "md" /\ io = "alive"
    /\ artifact' = "full"
    /\ IF unsettled # {}
       THEN pc' = "exited" /\ exit' = 1 + Cardinality(unsettled) /\ UNCHANGED mainDone
       ELSE pc' = "finished" /\ mainDone' = TRUE /\ UNCHANGED exit
    /\ UNCHANGED <<planVars, io, current, work, handles, raceVars, wakes, outVars>>

(* The report is written: exit with 2 at once if a module did not settle,   *)
(* else let the process end by itself.                                      *)
ReportWritten ==
    /\ pc = "md" /\ io = "alive"
    /\ artifact' = "full"
    /\ IF unsettled # {}
       THEN pc' = "exited" /\ exit' = 2 /\ UNCHANGED mainDone
       ELSE pc' = "finished" /\ mainDone' = TRUE /\ UNCHANGED exit
    /\ UNCHANGED <<planVars, io, current, work, handles, raceVars, wakes, outVars>>

Exited == pc = "exited" /\ UNCHANGED vars

ModuleEnds(m) ==
    \/ \E kind \in {"settled", "threw"} : ModuleSettles(m, kind)
    \/ Awaited(m) /\ ModuleSettlesNull
    \/ ModuleStalls(m)

MainSteps == \/ StartThrows \/ StartRuns \/ SetupDone \/ JsonWritten
             \/ ReportWritten \/ HarnessStalls \/ HarnessThrows

Next ==
    \/ \E m \in Modules : ModuleEnds(m) \/ HandleCloses(m) \/ WakeFires(m)
    \/ TimeoutFires \/ DrainWakes \/ DrainExits
    \/ MainSteps
    \/ Exited

Spec == Init /\ [][Next]_vars

(* The loop runs what is due and main() goes on when its await is over.  A  *)
(* module that is not in Holding ends or stalls in the end and its handle   *)
(* is closed; one in Holding may keep its socket open for ever.             *)
Fairness ==
    /\ WF_vars(TimeoutFires) /\ WF_vars(DrainWakes) /\ WF_vars(DrainExits)
    /\ WF_vars(MainSteps)
    /\ \A m \in Modules : WF_vars(WakeFires(m))
    /\ \A m \in Modules \ Holding : WF_vars(ModuleEnds(m)) /\ WF_vars(HandleCloses(m))

FairSpec == Spec /\ Fairness

-----------------------------------------------------------------------------
(* What the runner promises. *)

(* The outcomes recorded are those of the plan's modules, in plan order and *)
(* each exactly once, whichever of a settlement, a drain, a timeout or a    *)
(* late callback of an abandoned module comes first.                        *)
ResultsInOrder ==
    /\ Len(results) = current - 1
    /\ Len(results) <= Len(plan)
    /\ \A i \in 1..Len(results) : results[i].module = plan[i]

(* No outcome is attributed to the wrong module or made up: a module        *)
(* recorded as drained can indeed never settle, one recorded as settled or  *)
(* thrown did so, and only a module with timeoutMs times out.               *)
OutcomesTruthful ==
    \A i \in 1..Len(results) :
        LET r == results[i]
        IN  /\ r.kind = "drained" => work[r.module] = "hung"
            /\ r.kind \in {"settled", "threw"} => work[r.module] = r.kind
            /\ r.kind = "timeout" => r.module \in Timed

Recorded == {results[i].module : i \in 1..Len(results)}

(* The exit code tells the truth: 0 and 2 come with both artifact files and *)
(* a result for every module the filters chose, 2 exactly when a module did *)
(* not settle, and 1 never comes with a complete artifact.                  *)
ExitHonest ==
    /\ exit \in {0, 2} => /\ artifact = "full"
                          /\ chosen = skipped \cup Recorded
    /\ exit = 0 => \A i \in 1..Len(results) : results[i].kind \in {"settled", "threw"}
    /\ exit = 2 => \E i \in 1..Len(results) : results[i].kind \in {"drained", "timeout"}
    /\ exit = 1 => artifact # "full"

(* No destructive module is started before every planned read-only module   *)
(* has its outcome.                                                         *)
DestructiveLast ==
    pc = "await" /\ Current \in Destructive =>
        \A m \in chosen \ (skipped \cup Destructive) : m \in Recorded

(* Another module's handle keeps the loop alive: the awaited module can     *)
(* never settle and has no timeoutMs, or main() is over.                    *)
Shadowed ==
    /\ \E m \in Modules : m \in handles \/ (work[m] = "pending" /\ ~Awaited(m))
    /\ \/ pc = "await" /\ work[Current] = "hung" /\ Current \notin Timed
       \/ pc = "finished"

(* Every run ends, although modules with timeoutMs may hold their handles   *)
(* for ever, unless one of the harness's own awaits stalls or such a handle *)
(* shadows a hung module without timeoutMs or the end of the process.       *)
RunEnds == <>(exit # Running \/ io = "stalled") \/ <>[]Shadowed

(* A module whose promise can never settle is recorded, with or without a   *)
(* timeoutMs of its own, unless a handle of another shadows it for ever:    *)
(* timeoutMs's comment says "caught without it" and has no such exception.  *)
HungRecorded ==
    \A m \in Modules :
        ((Awaited(m) /\ work[m] = "hung") ~> (m \in Recorded)) \/ <>[]Shadowed
=============================================================================
