---------------------------- MODULE RunnerProofs -----------------------------
(***************************************************************************)
(* Proofs about Runner, for every set of modules, every plan option and    *)
(* every choice of which modules time out or hang.                         *)
(***************************************************************************)
EXTENDS Runner, FiniteSetTheorems, FunctionTheorems, TLAPS

-----------------------------------------------------------------------------
(* The plan. *)

(* A sorted sequence lists its set, without repetition and in order. *)
LEMMA SortedLists ==
  ASSUME NEW S \in SUBSET Modules, NEW s \in Sorted(S)
  PROVE  /\ s \in Seq(Modules)
         /\ \A i \in 1..Len(s) : s[i] \in S
         /\ \A m \in S : \E i \in 1..Len(s) : s[i] = m
         /\ \A i, j \in 1..Len(s) : i < j => Before(s[i], s[j])
  <1> DEFINE n == Cardinality(S)
  <1>1. IsFiniteSet(S) /\ n \in Nat
    BY ModulesAssumption, FS_Subset, FS_CardinalityType
  <1>2. /\ s \in [1..n -> S]
        /\ \A i, j \in 1..n : i < j => Before(s[i], s[j])
    BY DEF Sorted
  <1>3. Len(s) = n /\ s \in Seq(Modules)
    BY <1>1, <1>2
  <1>4. \A i, j \in 1..n : s[i] = s[j] => i = j
    <2>1. \A m \in Modules : ~Before(m, m)
      BY RankAssumption DEF Before
    <2>2. \A i, j \in 1..n : i < j \/ j < i \/ i = j
      BY <1>1
    <2> QED  BY <1>2, <2>1, <2>2
  <1>5. s \in Injection(1..n, S)
    BY <1>2, <1>4, Fun_IsInj
  <1>6. IsFiniteSet(1..n) /\ Cardinality(1..n) = n
    BY <1>1, FS_Interval
  <1>7. s \in Surjection(1..n, S)
    BY <1>1, <1>5, <1>6, FS_Injection
  <1>8. \A m \in S : \E i \in 1..n : s[i] = m
    BY <1>7 DEF Surjection
  <1> QED  BY <1>2, <1>3, <1>8

(* What planRun guarantees of the plan. *)
PlanInv ==
    /\ \A i \in 1..Len(plan) : plan[i] \in chosen \ skipped
    /\ \A m \in chosen \ skipped : \E i \in 1..Len(plan) : plan[i] = m
    /\ \A i, j \in 1..Len(plan) : i < j => Before(plan[i], plan[j])
    /\ skipped \subseteq chosen

LEMMA PlanInit == Init => PlanInv /\ plan \in Seq(Modules)
  <1> SUFFICES ASSUME Init PROVE PlanInv /\ plan \in Seq(Modules)
    OBVIOUS
  <1>1. PICK opts \in Options :
          /\ chosen = Chosen(opts)
          /\ plan \in Sorted({m \in Chosen(opts) : Runnable(m, opts)})
          /\ skipped = {m \in Chosen(opts) : ~Runnable(m, opts)}
    BY DEF Init
  <1> DEFINE S == {m \in Chosen(opts) : Runnable(m, opts)}
  <1>2. S \in SUBSET Modules
    BY DEF Chosen
  <1>3. chosen \ skipped = S /\ skipped \subseteq chosen
    BY <1>1
  <1> HIDE DEF S
  <1>4. plan \in Sorted(S)
    BY <1>1 DEF S
  <1> QED  BY <1>2, <1>3, <1>4, SortedLists DEF PlanInv

(* No module is planned twice. *)
LEMMA PlanInjective ==
  ASSUME TypeOK, PlanInv, NEW i \in 1..Len(plan), NEW j \in 1..Len(plan),
         plan[i] = plan[j]
  PROVE  i = j
  <1>1. plan[i] \in Modules /\ Len(plan) \in Nat
    BY DEF TypeOK
  <1>2. ~Before(plan[i], plan[i])
    BY <1>1, RankAssumption DEF Before
  <1>3. ~(i < j) /\ ~(j < i)
    BY <1>2 DEF PlanInv
  <1> QED  BY <1>1, <1>3

-----------------------------------------------------------------------------
(* Type correctness needs to know that the loop stays within the plan. *)

LoopInv ==
    /\ current \in 1..(Len(plan) + 1)
    /\ pc \in {"start", "await"} => current <= Len(plan)
    /\ pc \in {"json", "md", "finished"} => current = Len(plan) + 1

TypeInv == TypeOK /\ LoopInv

LEMMA TypeInit == Init => TypeInv
  <1> SUFFICES ASSUME Init PROVE TypeInv
    OBVIOUS
  <1>1. plan \in Seq(Modules)
    BY PlanInit
  <1>2. skipped \subseteq Modules /\ chosen \subseteq Modules
    BY DEF Init, Chosen
  <1>3. /\ pc \in PCs /\ io \in {"alive", "stalled"} /\ current = 1
        /\ armed \in Modules \cup {NoModule} /\ timer \in Modules \cup {NoModule}
        /\ wakes \subseteq Modules /\ unsettled \subseteq Modules
        /\ artifact \in {"none", "json", "full"} /\ mainDone \in BOOLEAN
        /\ exit \in {Running, 0, 1, 2} /\ pc = "setup"
    BY DEF Init, PCs
  <1>4. work \in [Modules -> Works] /\ handles \subseteq Modules
    BY DEF Init, Works
  <1>5. results \in Seq([module: Modules, kind: Outcomes])
    BY DEF Init
  <1> QED  BY <1>1, <1>2, <1>3, <1>4, <1>5 DEF TypeInv, TypeOK, LoopInv

LEMMA CurrentPlanned ==
  ASSUME TypeInv, pc \in {"start", "await"}
  PROVE  Current \in Modules /\ current \in 1..Len(plan)
  BY DEF TypeInv, TypeOK, LoopInv, Current

LEMMA TypeRecord ==
  ASSUME TypeInv, pc \in {"start", "await"}, NEW kind \in Outcomes, Record(kind),
         plan' = plan
  PROVE  /\ results' \in Seq([module: Modules, kind: Outcomes])
         /\ unsettled' \subseteq Modules /\ current' \in Nat /\ pc' \in PCs
         /\ LoopInv'
  <1>1. Current \in Modules /\ current \in 1..Len(plan) /\ Len(plan) \in Nat
    BY CurrentPlanned DEF TypeInv, TypeOK
  <1>2. results' \in Seq([module: Modules, kind: Outcomes]) /\ unsettled' \subseteq Modules
    BY <1>1 DEF Record, TypeInv, TypeOK
  <1>3. current' = current + 1 /\ pc' = IF current + 1 <= Len(plan) THEN "start" ELSE "json"
    BY DEF Record, LoopPC
  <1> QED  BY <1>1, <1>2, <1>3 DEF LoopInv, PCs

LEMMA TypeStep == TypeInv /\ [Next]_vars => TypeInv'
  <1> SUFFICES ASSUME TypeInv, [Next]_vars PROVE TypeInv'
    OBVIOUS
  <1>1. ASSUME NEW m \in Modules, NEW kind \in {"settled", "threw"},
               ModuleSettles(m, kind)
        PROVE  TypeInv'
    <2>1. work' \in [Modules -> Works] /\ handles' \subseteq Modules
      BY <1>1 DEF ModuleSettles, Leaves, TypeInv, TypeOK, Works
    <2>2. CASE Awaited(m)
      BY <1>1, <2>1, <2>2, TypeRecord
         DEF ModuleSettles, RaceEnds, Awaited, Outcomes, TypeInv, TypeOK, planVars
    <2>3. CASE ~Awaited(m)
      BY <1>1, <2>1, <2>3
         DEF ModuleSettles, TypeInv, TypeOK, LoopInv, planVars, raceVars, outVars
    <2> QED  BY <2>2, <2>3
  <1>2. ASSUME NEW m \in Modules, ModuleStalls(m) PROVE TypeInv'
    BY <1>2 DEF ModuleStalls, TypeInv, TypeOK, LoopInv, Works, planVars, raceVars, outVars
  <1>3. ASSUME NEW m \in Modules, WakeFires(m) PROVE TypeInv'
    <2>1. CASE Awaited(m)
      BY <1>3, <2>1, TypeRecord
         DEF WakeFires, RaceEnds, Awaited, Outcomes, TypeInv, TypeOK, planVars
    <2>2. CASE ~Awaited(m)
      BY <1>3, <2>2 DEF WakeFires, TypeInv, TypeOK, LoopInv, planVars, raceVars, outVars
    <2> QED  BY <2>1, <2>2
  <1>4. ASSUME TimeoutFires PROVE TypeInv'
    BY <1>4, TypeRecord
       DEF TimeoutFires, RaceEnds, Outcomes, TypeInv, TypeOK, planVars
  <1>5. ASSUME DrainWakes \/ DrainExits PROVE TypeInv'
    BY <1>5 DEF DrainWakes, DrainExits, Drained, TypeInv, TypeOK, LoopInv, PCs,
                planVars, raceVars, outVars
  <1>6. ASSUME StartThrows PROVE TypeInv'
    <2>1. Current \in Modules
      BY <1>6, CurrentPlanned DEF StartThrows
    <2> QED
      BY <1>6, <2>1, TypeRecord
         DEF StartThrows, Leaves, Outcomes, TypeInv, TypeOK, Works, planVars, raceVars
  <1>7. ASSUME StartRuns PROVE TypeInv'
    <2>1. Current \in Modules /\ current <= Len(plan)
      BY <1>7, CurrentPlanned DEF StartRuns, TypeInv, LoopInv
    <2>2. /\ work' \in [Modules -> Works] /\ armed' \in Modules \cup {NoModule}
          /\ timer' \in Modules \cup {NoModule} /\ pc' = "await"
      BY <1>7, <2>1 DEF StartRuns, TypeInv, TypeOK, Works
    <2> QED
      BY <1>7, <2>1, <2>2 DEF StartRuns, TypeInv, TypeOK, LoopInv, PCs, planVars, outVars
  <1>8. ASSUME SetupDone \/ JsonWritten \/ ReportWritten \/ HarnessStalls \/ HarnessThrows
        PROVE  TypeInv'
    <2>1. UNCHANGED <<planVars, current, work, handles, raceVars, wakes, outVars>>
      BY <1>8 DEF SetupDone, JsonWritten, ReportWritten, HarnessStalls, HarnessThrows
    <2>2. /\ pc' \in PCs /\ io' \in {"alive", "stalled"} /\ mainDone' \in BOOLEAN
          /\ artifact' \in {"none", "json", "full"} /\ exit' \in {Running, 0, 1, 2}
      BY <1>8 DEF SetupDone, JsonWritten, ReportWritten, HarnessStalls, HarnessThrows,
                  TypeInv, TypeOK, PCs, LoopPC
    <2>3. LoopInv'
      BY <1>8, <2>1 DEF SetupDone, JsonWritten, ReportWritten, HarnessStalls,
                  HarnessThrows, TypeInv, TypeOK, LoopInv, LoopPC, planVars
    <2> QED
      BY <2>1, <2>2, <2>3 DEF TypeInv, TypeOK, planVars, raceVars, outVars
  <1>9. ASSUME UNCHANGED vars PROVE TypeInv'
    BY <1>9 DEF vars, planVars, raceVars, outVars, TypeInv, TypeOK, LoopInv
  <1>10. ASSUME NEW m \in Modules, HandleCloses(m) PROVE TypeInv'
    BY <1>10 DEF HandleCloses, planVars, raceVars, outVars, TypeInv, TypeOK, LoopInv
  <1>11. ASSUME ModuleSettlesNull PROVE TypeInv'
    <2>1. Current \in Modules
      BY <1>11, CurrentPlanned DEF ModuleSettlesNull
    <2>2. /\ work' \in [Modules -> Works] /\ handles' \subseteq Modules
          /\ armed' \in Modules \cup {NoModule} /\ timer' \in Modules \cup {NoModule}
          /\ pc' = "exited" /\ exit' = 1
      BY <1>11, <2>1 DEF ModuleSettlesNull, Leaves, TypeInv, TypeOK, Works
    <2> QED
      BY <1>11, <2>2 DEF ModuleSettlesNull, TypeInv, TypeOK, LoopInv, PCs, planVars, outVars
  <1> QED
    BY <1>1, <1>2, <1>3, <1>4, <1>5, <1>6, <1>7, <1>8, <1>9, <1>10, <1>11
       DEF Next, ModuleEnds, MainSteps, Exited

(* The runner's state keeps its types, for every registry and command line. *)
THEOREM TypeCorrect == Spec => []TypeOK
  <1>1. TypeInv => TypeOK
    BY DEF TypeInv
  <1> QED  BY TypeInit, TypeStep, <1>1, PTL DEF Spec

-----------------------------------------------------------------------------
(* Order and attribution of the outcomes. *)

(* m had its turn before the current module. *)
Past(m) == \E i \in 1..(current - 1) : plan[i] = m

(* The watch is armed for the awaited module only; a pending wake-up        *)
(* belongs to a module that can never settle and that is awaited or over.   *)
RaceInv ==
    /\ armed # NoModule => Awaited(armed)
    /\ timer # NoModule => timer \in Timed
    /\ pc = "await" => work[Current] \in {"pending", "hung"}
    /\ \A m \in wakes : work[m] = "hung" /\ (Awaited(m) \/ Past(m))
    /\ OutcomesTruthful

OrderInv == PlanInv /\ ResultsInOrder /\ RaceInv

LEMMA OrderInit == Init => OrderInv
  <1> SUFFICES ASSUME Init PROVE OrderInv
    OBVIOUS
  <1>1. PlanInv /\ plan \in Seq(Modules)
    BY PlanInit
  <1>2. results = <<>> /\ current = 1 /\ Len(results) = 0
    BY DEF Init
  <1>3. ResultsInOrder
    BY <1>1, <1>2 DEF ResultsInOrder
  <1>4. RaceInv
    BY <1>2 DEF Init, RaceInv, OutcomesTruthful
  <1> QED  BY <1>1, <1>3, <1>4 DEF OrderInv

(* Whoever has its turn has no outcome yet and no wake-up from before. *)
LEMMA CurrentIsFresh ==
  ASSUME TypeInv, OrderInv, pc \in {"start", "await"}
  PROVE  /\ ~Past(Current)
         /\ \A i \in 1..Len(results) : results[i].module # Current
  <1>1. current \in 1..Len(plan) /\ Len(plan) \in Nat
    BY CurrentPlanned DEF TypeInv, TypeOK
  <1>2. ~Past(Current)
    BY <1>1, PlanInjective DEF Past, Current, TypeInv, OrderInv
  <1>3. Len(results) = current - 1 /\ \A i \in 1..Len(results) : results[i].module = plan[i]
    BY DEF OrderInv, ResultsInOrder
  <1> QED  BY <1>2, <1>3 DEF Past

(* Recording the outcome of the current module extends the list by one. *)
LEMMA OrderRecord ==
  ASSUME TypeInv, OrderInv, pc \in {"start", "await"}, NEW kind \in Outcomes,
         Record(kind), plan' = plan
  PROVE  /\ ResultsInOrder'
         /\ Len(results') = Len(results) + 1
         /\ \A i \in 1..Len(results) : results'[i] = results[i]
         /\ results'[Len(results) + 1] = [module |-> Current, kind |-> kind]
         /\ \A m : m = Current \/ Past(m) => Past(m)'
         /\ pc' \in {"start", "json"}
  <1>1. /\ current \in 1..Len(plan) /\ Len(plan) \in Nat
        /\ results \in Seq([module: Modules, kind: Outcomes])
        /\ Current \in Modules
    BY CurrentPlanned DEF TypeInv, TypeOK
  <1>2. /\ results' = Append(results, [module |-> Current, kind |-> kind])
        /\ current' = current + 1 /\ pc' = LoopPC(current + 1)
    BY DEF Record
  <1>3. /\ Len(results) = current - 1
        /\ \A i \in 1..Len(results) : results[i].module = plan[i]
    BY DEF OrderInv, ResultsInOrder
  <1>4. /\ Len(results') = Len(results) + 1
        /\ \A i \in 1..Len(results) : results'[i] = results[i]
        /\ results'[Len(results) + 1] = [module |-> Current, kind |-> kind]
    BY <1>1, <1>2
  <1>5. ResultsInOrder'
    BY <1>1, <1>2, <1>3, <1>4 DEF ResultsInOrder, Current
  <1>6. ASSUME NEW m, m = Current \/ Past(m) PROVE Past(m)'
    BY <1>1, <1>2, <1>6 DEF Past, Current
  <1> QED  BY <1>2, <1>4, <1>5, <1>6 DEF LoopPC, Current

LEMMA ResultTypes ==
  ASSUME TypeOK
  PROVE  /\ Len(results) \in Nat
         /\ \A i \in 1..Len(results) :
               results[i].module \in Modules /\ results[i].kind \in Outcomes
  <1> DEFINE R == [module: Modules, kind: Outcomes]
  <1>1. results \in Seq(R)
    BY DEF TypeOK
  <1> HIDE DEF R
  <1>2. Len(results) \in Nat /\ \A i \in 1..Len(results) : results[i] \in R
    BY <1>1
  <1>3. \A r \in R : r.module \in Modules /\ r.kind \in Outcomes
    BY DEF R
  <1> QED  BY <1>2, <1>3

(* ... and keeps the outcomes truthful if the new one is. *)
LEMMA RaceRecord ==
  ASSUME TypeInv, OrderInv, pc \in {"start", "await"}, NEW kind \in Outcomes,
         Record(kind), UNCHANGED planVars,
         armed' = NoModule, timer' # NoModule => timer' \in Timed,
         \A m \in wakes' : m \in wakes /\ work'[m] = "hung",
         \A m \in Modules : m # Current => work'[m] = work[m],
         kind = "drained" => work'[Current] = "hung",
         kind \in {"settled", "threw"} => work'[Current] = kind,
         kind = "timeout" => Current \in Timed
  PROVE  OrderInv'
  <1>1. plan' = plan /\ chosen' = chosen /\ skipped' = skipped
    BY DEF planVars
  <1>2. /\ ResultsInOrder'
        /\ Len(results') = Len(results) + 1
        /\ \A i \in 1..Len(results) : results'[i] = results[i]
        /\ results'[Len(results) + 1] = [module |-> Current, kind |-> kind]
        /\ \A m : m = Current \/ Past(m) => Past(m)'
        /\ pc' \in {"start", "json"}
    BY <1>1, OrderRecord
  <1>3. \A m \in wakes' : Past(m)'
    BY <1>2 DEF OrderInv, RaceInv, Awaited
  <1>4. OutcomesTruthful'
    <2>1. Len(results) \in Nat /\ \A i \in 1..Len(results) : results[i].module \in Modules
      BY ResultTypes DEF TypeInv
    <2>2. ASSUME NEW i \in 1..Len(results)
          PROVE  work'[results'[i].module] = work[results[i].module]
                 /\ results'[i] = results[i]
      BY <1>2, <2>1, <2>2, CurrentIsFresh
    <2>3. \A i \in 1..Len(results') : i \in 1..Len(results) \/ i = Len(results) + 1
      BY <1>2, <2>1
    <2> QED
      BY <1>2, <2>2, <2>3 DEF OrderInv, RaceInv, OutcomesTruthful, Outcomes
  <1>5. PlanInv'
    BY <1>1 DEF OrderInv, PlanInv, Before
  <1> QED  BY <1>2, <1>3, <1>4, <1>5 DEF OrderInv, RaceInv

(* Steps that record nothing and do not touch a race. *)
LEMMA OrderFrame ==
  ASSUME TypeInv, OrderInv, UNCHANGED <<planVars, current, work, raceVars, wakes, outVars>>,
         pc # "await", pc' # "await"
  PROVE  OrderInv'
  <1>1. armed = NoModule /\ \A m \in wakes : Past(m)
    BY DEF OrderInv, RaceInv, Awaited
  <1> QED
    BY <1>1 DEF OrderInv, PlanInv, Before, ResultsInOrder, RaceInv, OutcomesTruthful,
                Past, Awaited, planVars, raceVars, outVars

LEMMA OrderStep ==
  ASSUME TypeInv, OrderInv, [Next]_vars
  PROVE  OrderInv'
  <1>0. TypeOK
    BY DEF TypeInv
  <1>1. ASSUME NEW m \in Modules, NEW kind \in {"settled", "threw"},
               ModuleSettles(m, kind)
        PROVE  OrderInv'
    <2>1. /\ \A n \in Modules : n # m => work'[n] = work[n]
          /\ work'[m] = kind /\ work[m] = "pending" /\ m \notin wakes
      BY <1>0, <1>1 DEF ModuleSettles, TypeOK, OrderInv, RaceInv
    <2>2. CASE Awaited(m)
      <3>1. /\ pc = "await" /\ m = Current /\ RaceEnds(kind)
            /\ UNCHANGED planVars /\ wakes' = wakes
        BY <1>1, <2>2 DEF ModuleSettles, Awaited
      <3>2. \A n \in wakes' : n \in wakes /\ work'[n] = "hung"
        BY <1>0, <2>1, <3>1 DEF OrderInv, RaceInv, TypeOK
      <3> QED
        BY <2>1, <3>1, <3>2, RaceRecord DEF RaceEnds, Outcomes
    <2>3. CASE ~Awaited(m)
      <3>1. UNCHANGED <<planVars, pc, current, raceVars, outVars, wakes>>
        BY <1>1, <2>3 DEF ModuleSettles
      <3>2. \A n \in wakes : work'[n] = "hung"
        BY <1>0, <2>1 DEF OrderInv, RaceInv, TypeOK
      <3>3. pc = "await" => work'[Current] \in {"pending", "hung"}
        BY <2>1, <2>3, CurrentPlanned DEF Awaited, OrderInv, RaceInv
      <3>4. OutcomesTruthful'
        <4>1. \A i \in 1..Len(results) :
                 results[i].module \in Modules /\ results[i].kind \in Outcomes
          BY <1>0, ResultTypes
        <4> QED
          BY <2>1, <3>1, <4>1 DEF OrderInv, RaceInv, OutcomesTruthful, outVars
      <3> QED
        BY <3>1, <3>2, <3>3, <3>4
           DEF OrderInv, PlanInv, Before, ResultsInOrder, RaceInv, Past, Awaited,
               Current, planVars, raceVars, outVars
    <2> QED  BY <2>2, <2>3
  <1>2. ASSUME NEW m \in Modules, ModuleStalls(m) PROVE OrderInv'
    <2>1. /\ UNCHANGED <<planVars, pc, current, raceVars, outVars, wakes>>
          /\ \A n \in Modules : n # m => work'[n] = work[n]
          /\ work'[m] = "hung" /\ work[m] = "pending"
      BY <1>0, <1>2 DEF ModuleStalls, TypeOK
    <2>2. \A n \in wakes : work'[n] = "hung"
      BY <1>0, <2>1 DEF OrderInv, RaceInv, TypeOK
    <2>3. pc = "await" => work'[Current] \in {"pending", "hung"}
      BY <2>1, CurrentPlanned DEF OrderInv, RaceInv
    <2>4. OutcomesTruthful'
      <3>1. \A i \in 1..Len(results) :
               results[i].module \in Modules /\ results[i].kind \in Outcomes
        BY <1>0, ResultTypes
      <3> QED
        BY <2>1, <3>1 DEF OrderInv, RaceInv, OutcomesTruthful, outVars
    <2> QED
      BY <2>1, <2>2, <2>3, <2>4
         DEF OrderInv, PlanInv, Before, ResultsInOrder, RaceInv, Past, Awaited,
             Current, planVars, raceVars, outVars
  <1>3. ASSUME NEW m \in Modules, WakeFires(m) PROVE OrderInv'
    <2>1. work[m] = "hung" /\ wakes' = wakes \ {m} /\ work' = work /\ UNCHANGED planVars
      BY <1>3 DEF WakeFires, OrderInv, RaceInv
    <2>2. CASE Awaited(m)
      <3>1. pc = "await" /\ m = Current /\ RaceEnds("drained")
        BY <1>3, <2>2 DEF WakeFires, Awaited
      <3>2. \A n \in wakes' : n \in wakes /\ work'[n] = "hung"
        BY <2>1 DEF OrderInv, RaceInv
      <3> QED
        BY <2>1, <3>1, <3>2, RaceRecord DEF RaceEnds, Outcomes
    <2>3. CASE ~Awaited(m)
      <3>1. UNCHANGED <<pc, current, raceVars, outVars>>
        BY <1>3, <2>3 DEF WakeFires
      <3> QED
        BY <2>1, <3>1
           DEF OrderInv, PlanInv, Before, ResultsInOrder, RaceInv, OutcomesTruthful,
               Past, Awaited, Current, planVars, raceVars, outVars
    <2> QED  BY <2>2, <2>3
  <1>4. ASSUME TimeoutFires PROVE OrderInv'
    <2>1. /\ pc = "await" /\ timer = Current /\ RaceEnds("timeout")
          /\ UNCHANGED <<planVars, work, wakes>>
      BY <1>4 DEF TimeoutFires
    <2>2. Current \in Timed
      BY <2>1, CurrentPlanned, ModulesAssumption DEF OrderInv, RaceInv
    <2>3. \A n \in wakes' : n \in wakes /\ work'[n] = "hung"
      BY <2>1 DEF OrderInv, RaceInv
    <2> QED
      BY <2>1, <2>2, <2>3, RaceRecord DEF RaceEnds, Outcomes
  <1>5. ASSUME DrainWakes PROVE OrderInv'
    <2>1. /\ UNCHANGED <<planVars, pc, current, work, timer, outVars>>
          /\ wakes' = wakes \cup {armed} /\ armed' = NoModule
          /\ armed # NoModule /\ ~LoopAlive
      BY <1>5 DEF DrainWakes, Drained
    <2>2. Awaited(armed) /\ work[armed] \in {"pending", "hung"} /\ armed \in Modules
      BY <2>1, CurrentPlanned DEF OrderInv, RaceInv, Awaited
    <2>3. work[armed] = "hung"
      BY <2>1, <2>2 DEF LoopAlive
    <2>4. \A m \in wakes' : work'[m] = "hung" /\ (Awaited(m) \/ Past(m))
      BY <2>1, <2>2, <2>3 DEF OrderInv, RaceInv
    <2>5. \A m : (Awaited(m)' <=> Awaited(m)) /\ (Past(m)' <=> Past(m))
      BY <2>1 DEF Awaited, Past, Current, planVars
    <2> QED
      BY <2>1, <2>4, <2>5
         DEF OrderInv, PlanInv, Before, ResultsInOrder, RaceInv, OutcomesTruthful,
             Current, planVars, outVars
  <1>6. ASSUME StartThrows PROVE OrderInv'
    <2>1. /\ pc = "start" /\ Record("threw") /\ UNCHANGED <<planVars, raceVars, wakes>>
          /\ work' = [work EXCEPT ![Current] = "threw"]
      BY <1>6 DEF StartThrows
    <2>2. Current \in Modules /\ Current \notin wakes /\ armed = NoModule
      BY <2>1, CurrentPlanned, CurrentIsFresh DEF OrderInv, RaceInv, Awaited
    <2>3. /\ \A n \in Modules : n # Current => work'[n] = work[n]
          /\ work'[Current] = "threw"
      BY <1>0, <2>1, <2>2 DEF TypeOK
    <2>4. \A n \in wakes' : n \in wakes /\ work'[n] = "hung"
      BY <1>0, <2>1, <2>2, <2>3 DEF OrderInv, RaceInv, TypeOK, raceVars
    <2>5. armed' = NoModule /\ (timer' # NoModule => timer' \in Timed)
      BY <2>1, <2>2 DEF OrderInv, RaceInv, raceVars
    <2> QED
      BY <2>1, <2>3, <2>4, <2>5, RaceRecord DEF Outcomes
  <1>7. ASSUME StartRuns PROVE OrderInv'
    <2>1. /\ pc = "start" /\ pc' = "await" /\ armed' = Current
          /\ UNCHANGED <<planVars, current, wakes, outVars>>
          /\ timer' = IF Current \in Timed THEN Current ELSE NoModule
      BY <1>7 DEF StartRuns
    <2>2. /\ Current \in Modules /\ \A m \in wakes : m # Current /\ Past(m)
          /\ \A i \in 1..Len(results) : results[i].module # Current
      BY <2>1, CurrentPlanned, CurrentIsFresh DEF OrderInv, RaceInv, Awaited
    <2>3. /\ \A n \in Modules : n # Current => work'[n] = work[n]
          /\ work'[Current] \in {"pending", "hung"}
      BY <1>0, <1>7, <2>2 DEF StartRuns, TypeOK
    <2>4. \A m : Past(m)' <=> Past(m)
      BY <2>1 DEF Past, planVars
    <2>5. \A m \in wakes' : work'[m] = "hung" /\ Past(m)'
      BY <1>0, <2>1, <2>2, <2>3, <2>4 DEF OrderInv, RaceInv, TypeOK
    <2>6. OutcomesTruthful'
      <3>1. \A i \in 1..Len(results) : results[i].module \in Modules
        BY <1>0, ResultTypes
      <3> QED
        BY <2>1, <2>2, <2>3, <3>1 DEF OrderInv, RaceInv, OutcomesTruthful, outVars
    <2>7. Current' = Current
      BY <2>1 DEF Current, planVars
    <2> QED
      BY <2>1, <2>3, <2>5, <2>6, <2>7
         DEF OrderInv, PlanInv, Before, ResultsInOrder, RaceInv, Awaited, planVars, outVars
  <1>8. ASSUME SetupDone \/ JsonWritten \/ ReportWritten \/ HarnessStalls \/ HarnessThrows
        PROVE  OrderInv'
    BY <1>8, OrderFrame
       DEF SetupDone, JsonWritten, ReportWritten, HarnessStalls, HarnessThrows,
           InHarnessCall, LoopPC
  <1>9. ASSUME DrainExits PROVE OrderInv'
    <2>1. /\ UNCHANGED <<planVars, current, work, raceVars, wakes, outVars>>
          /\ pc' = "exited" /\ wakes = {} /\ armed = NoModule
      BY <1>9 DEF DrainExits, Drained, LoopAlive
    <2> QED
      BY <2>1 DEF OrderInv, PlanInv, Before, ResultsInOrder, RaceInv, OutcomesTruthful,
                  planVars, raceVars, outVars
  <1>10. ASSUME NEW m \in Modules, HandleCloses(m) PROVE OrderInv'
    <2>1. UNCHANGED <<planVars, pc, current, work, raceVars, wakes, outVars>>
      BY <1>10 DEF HandleCloses
    <2> QED
      BY <2>1 DEF OrderInv, PlanInv, Before, ResultsInOrder, RaceInv, OutcomesTruthful,
                  Past, Awaited, Current, planVars, raceVars, outVars
  <1>11. ASSUME ModuleSettlesNull PROVE OrderInv'
    <2>1. /\ UNCHANGED <<planVars, current, wakes, outVars>>
          /\ pc = "await" /\ pc' = "exited" /\ armed' = NoModule /\ timer' = NoModule
          /\ work[Current] = "pending" /\ work' = [work EXCEPT ![Current] = "settled"]
      BY <1>11 DEF ModuleSettlesNull
    <2>2. /\ Current \in Modules /\ Current \notin wakes
          /\ \A i \in 1..Len(results) : results[i].module # Current
      BY <2>1, CurrentPlanned, CurrentIsFresh DEF OrderInv, RaceInv
    <2>3. \A n \in Modules : n # Current => work'[n] = work[n]
      BY <1>0, <2>1, <2>2 DEF TypeOK
    <2>4. \A m \in wakes : work'[m] = "hung" /\ Past(m)
      BY <1>0, <2>2, <2>3 DEF OrderInv, RaceInv, Awaited, TypeOK
    <2>5. OutcomesTruthful'
      <3>1. \A i \in 1..Len(results) : results[i].module \in Modules
        BY <1>0, ResultTypes
      <3> QED
        BY <2>1, <2>2, <2>3, <3>1 DEF OrderInv, RaceInv, OutcomesTruthful, outVars
    <2> QED
      BY <2>1, <2>4, <2>5
         DEF OrderInv, PlanInv, Before, ResultsInOrder, RaceInv, Past, planVars, outVars
  <1>12. ASSUME UNCHANGED vars PROVE OrderInv'
    BY <1>12 DEF vars, OrderInv, PlanInv, Before, ResultsInOrder, RaceInv,
                 OutcomesTruthful, Past, Awaited, Current, planVars, raceVars, outVars
  <1> QED
    BY <1>1, <1>2, <1>3, <1>4, <1>5, <1>6, <1>7, <1>8, <1>9, <1>10, <1>11, <1>12
       DEF Next, ModuleEnds, MainSteps, Exited

(* Every module of the plan gets one outcome, in plan order, whatever races *)
(* whatever.                                                                *)
THEOREM OutcomesInOrder == Spec => []ResultsInOrder
  <1>1. OrderInv => ResultsInOrder
    BY DEF OrderInv
  <1> QED  BY TypeInit, TypeStep, OrderInit, OrderStep, <1>1, PTL DEF Spec

(* No drain, timeout or late settlement is charged to another module.       *)
THEOREM OutcomesCorrect == Spec => []OutcomesTruthful
  <1>1. OrderInv => OutcomesTruthful
    BY DEF OrderInv, RaceInv
  <1> QED  BY TypeInit, TypeStep, OrderInit, OrderStep, <1>1, PTL DEF Spec

(* No destructive module starts while a planned read-only one has no        *)
(* outcome.                                                                 *)
THEOREM DestructiveModulesLast == Spec => []DestructiveLast
  <1>1. TypeInv /\ OrderInv => DestructiveLast
    <2> SUFFICES ASSUME TypeInv, OrderInv, pc = "await", Current \in Destructive,
                        NEW m \in chosen \ (skipped \cup Destructive)
                 PROVE  m \in Recorded
      BY DEF DestructiveLast
    <2>1. PICK i \in 1..Len(plan) : plan[i] = m
      BY DEF OrderInv, PlanInv
    <2>2. current \in 1..Len(plan) /\ Len(plan) \in Nat
      BY CurrentPlanned DEF TypeInv, TypeOK
    <2>3. i # current
      BY <2>1 DEF Current
    <2>4. ~(current < i)
      <3>1. ~Before(plan[current], plan[i])
        BY <2>1 DEF Before, Current
      <3> QED  BY <2>2, <3>1 DEF OrderInv, PlanInv
    <2>5. i \in 1..Len(results) /\ results[i].module = m
      BY <2>1, <2>2, <2>3, <2>4 DEF OrderInv, ResultsInOrder
    <2> QED  BY <2>5 DEF Recorded
  <1> QED  BY TypeInit, TypeStep, OrderInit, OrderStep, <1>1, PTL DEF Spec

-----------------------------------------------------------------------------
(* The exit code. *)

(* How far the artifact is at every point of main(), and what an exit code  *)
(* says: the set `unsettled` stands for the outcomes that did not settle.   *)
ExitInv ==
    /\ pc # "exited" => exit = Running
    /\ pc \in {"setup", "start", "await", "json"} => artifact = "none" /\ ~mainDone
    /\ pc = "md" => artifact = "json" /\ ~mainDone
    /\ pc = "finished" => artifact = "full" /\ mainDone /\ unsettled = {}
    /\ exit \in {0, 2} => artifact = "full" /\ current = Len(plan) + 1
    /\ exit = 0 => unsettled = {}
    /\ exit = 2 => unsettled # {}
    /\ exit = 1 => artifact # "full"

LateOutcome(r) == r.kind \in {"drained", "timeout"}

UnsettledInv == unsettled # {} <=> \E i \in 1..Len(results) : LateOutcome(results[i])

LEMMA ExitInit == Init => ExitInv /\ UnsettledInv
  BY DEF Init, ExitInv, UnsettledInv, Running

(* Recording an outcome keeps `unsettled` in step with the results. *)
LEMMA UnsettledRecord ==
  ASSUME TypeInv, UnsettledInv, NEW kind \in Outcomes, Record(kind)
  PROVE  UnsettledInv'
  <1> DEFINE R == [module: Modules, kind: Outcomes]
             r == [module |-> Current, kind |-> kind]
  <1>1. results \in Seq(R)
    BY DEF TypeInv, TypeOK
  <1>2. results' = Append(results, r)
    BY DEF Record
  <1>3. LateOutcome(r) <=> kind \in {"drained", "timeout"}
    BY DEF LateOutcome
  <1>4. unsettled' # {} <=> unsettled # {} \/ LateOutcome(r)
    BY <1>3 DEF Record
  <1> HIDE DEF R, r
  <1>5. /\ Len(results') = Len(results) + 1 /\ Len(results) \in Nat
        /\ \A i \in 1..Len(results) : results'[i] = results[i]
        /\ results'[Len(results) + 1] = r
    BY <1>1, <1>2
  <1>6. ASSUME NEW s, NEW n \in Nat, NEW t,
               \A i \in 1..n : t[i] = s[i]
        PROVE  (\E i \in 1..(n + 1) : LateOutcome(t[i])) <=>
               (\E i \in 1..n : LateOutcome(s[i])) \/ LateOutcome(t[n + 1])
    <2>1. \A i \in 1..(n + 1) : i \in 1..n \/ i = n + 1
      OBVIOUS
    <2>2. 1..n \subseteq 1..(n + 1) /\ n + 1 \in 1..(n + 1)
      OBVIOUS
    <2> QED  BY <1>6, <2>1, <2>2, Zenon
  <1>7. (\E i \in 1..Len(results') : LateOutcome(results'[i])) <=>
        (\E i \in 1..Len(results) : LateOutcome(results[i])) \/ LateOutcome(r)
    BY <1>5, <1>6
  <1> QED  BY <1>4, <1>7 DEF UnsettledInv

LEMMA ExitRecord ==
  ASSUME TypeInv, ExitInv, UnsettledInv, pc \in {"start", "await"},
         NEW kind \in Outcomes, Record(kind), UNCHANGED <<artifact, mainDone, exit>>
  PROVE  ExitInv' /\ UnsettledInv'
  <1>1. pc' \in {"start", "json"}
    BY DEF Record, LoopPC
  <1> QED  BY <1>1, UnsettledRecord DEF ExitInv, Running

LEMMA ExitStep == TypeInv /\ ExitInv /\ UnsettledInv /\ [Next]_vars => ExitInv' /\ UnsettledInv'
  <1> SUFFICES ASSUME TypeInv, ExitInv, UnsettledInv, [Next]_vars
               PROVE  ExitInv' /\ UnsettledInv'
    OBVIOUS
  <1>1. ASSUME NEW m \in Modules, NEW kind \in {"settled", "threw"}, ModuleSettles(m, kind)
        PROVE  ExitInv' /\ UnsettledInv'
    <2>1. CASE Awaited(m)
      BY <1>1, <2>1, ExitRecord DEF ModuleSettles, RaceEnds, Awaited, Outcomes
    <2>2. CASE ~Awaited(m)
      BY <1>1, <2>2 DEF ModuleSettles, ExitInv, UnsettledInv, planVars, outVars
    <2> QED  BY <2>1, <2>2
  <1>2. ASSUME NEW m \in Modules, WakeFires(m) PROVE ExitInv' /\ UnsettledInv'
    <2>1. CASE Awaited(m)
      BY <1>2, <2>1, ExitRecord DEF WakeFires, RaceEnds, Awaited, Outcomes
    <2>2. CASE ~Awaited(m)
      BY <1>2, <2>2 DEF WakeFires, ExitInv, UnsettledInv, planVars, outVars
    <2> QED  BY <2>1, <2>2
  <1>3. ASSUME TimeoutFires PROVE ExitInv' /\ UnsettledInv'
    BY <1>3, ExitRecord DEF TimeoutFires, RaceEnds, Outcomes
  <1>4. ASSUME StartThrows PROVE ExitInv' /\ UnsettledInv'
    BY <1>4, ExitRecord DEF StartThrows, Outcomes
  <1>5. ASSUME StartRuns PROVE ExitInv' /\ UnsettledInv'
    BY <1>5 DEF StartRuns, ExitInv, UnsettledInv, Running, planVars, outVars
  <1>6. ASSUME NEW m \in Modules, ModuleStalls(m) PROVE ExitInv' /\ UnsettledInv'
    BY <1>6 DEF ModuleStalls, ExitInv, UnsettledInv, planVars, outVars
  <1>7. ASSUME DrainWakes \/ HarnessStalls \/ Exited \/ UNCHANGED vars
        PROVE  ExitInv' /\ UnsettledInv'
    BY <1>7 DEF DrainWakes, HarnessStalls, Exited, vars, ExitInv, UnsettledInv,
                planVars, outVars
  <1>8. ASSUME DrainExits PROVE ExitInv' /\ UnsettledInv'
    <2>1. /\ pc \in PCs \ {"exited", "start"} /\ exit' = (IF mainDone THEN 0 ELSE 1)
          /\ pc' = "exited" /\ UNCHANGED <<planVars, current, outVars, artifact, mainDone>>
      BY <1>8 DEF DrainExits, Drained, TypeInv, TypeOK
    <2>2. CASE pc = "finished"
      BY <2>1, <2>2 DEF ExitInv, UnsettledInv, TypeInv, LoopInv, planVars, outVars
    <2>3. CASE pc # "finished"
      BY <2>1, <2>3 DEF PCs, ExitInv, UnsettledInv, planVars, outVars
    <2> QED  BY <2>2, <2>3
  <1>9. ASSUME SetupDone \/ JsonWritten \/ HarnessThrows PROVE ExitInv' /\ UnsettledInv'
    BY <1>9 DEF SetupDone, JsonWritten, HarnessThrows, InHarnessCall, LoopPC,
                ExitInv, UnsettledInv, Running, planVars, outVars
  <1>10. ASSUME ReportWritten PROVE ExitInv' /\ UnsettledInv'
    BY <1>10 DEF ReportWritten, ExitInv, UnsettledInv, TypeInv, LoopInv, Running,
                 planVars, outVars
  <1>11. ASSUME NEW m \in Modules, HandleCloses(m) PROVE ExitInv' /\ UnsettledInv'
    BY <1>11 DEF HandleCloses, ExitInv, UnsettledInv, planVars, outVars
  <1>12. ASSUME ModuleSettlesNull PROVE ExitInv' /\ UnsettledInv'
    BY <1>12 DEF ModuleSettlesNull, ExitInv, UnsettledInv, Running, planVars, outVars
  <1> QED
    BY <1>1, <1>2, <1>3, <1>4, <1>5, <1>6, <1>7, <1>8, <1>9, <1>10, <1>11, <1>12
       DEF Next, ModuleEnds, MainSteps

(* Exit codes 0 and 2 come with a complete artifact and an outcome for      *)
(* every module that was to run; 2 exactly when a module did not settle.    *)
THEOREM ExitCodesHonest == Spec => []ExitHonest
  <1>1. TypeInv /\ OrderInv /\ ExitInv /\ UnsettledInv => ExitHonest
    <2> SUFFICES ASSUME TypeInv, OrderInv, ExitInv, UnsettledInv PROVE ExitHonest
      OBVIOUS
    <2>1. ASSUME exit \in {0, 2} PROVE chosen = skipped \cup Recorded
      <3>1. /\ Len(results) = Len(plan) /\ Len(plan) \in Nat
            /\ \A i \in 1..Len(results) : results[i].module = plan[i]
        BY <2>1 DEF ExitInv, OrderInv, ResultsInOrder, TypeInv, TypeOK
      <3>2. Recorded = {plan[i] : i \in 1..Len(plan)}
        BY <3>1 DEF Recorded
      <3>3. Recorded = chosen \ skipped
        BY <3>2 DEF OrderInv, PlanInv
      <3> QED  BY <3>3 DEF OrderInv, PlanInv
    <2>2. \A i \in 1..Len(results) : results[i].kind \in Outcomes
      BY ResultTypes DEF TypeInv
    <2>3. ASSUME exit = 0
          PROVE  \A i \in 1..Len(results) : results[i].kind \in {"settled", "threw"}
      BY <2>2, <2>3 DEF ExitInv, UnsettledInv, LateOutcome, Outcomes
    <2>4. ASSUME exit = 2
          PROVE  \E i \in 1..Len(results) : results[i].kind \in {"drained", "timeout"}
      BY <2>4 DEF ExitInv, UnsettledInv, LateOutcome
    <2> QED  BY <2>1, <2>3, <2>4 DEF ExitHonest, ExitInv
  <1> QED
    BY TypeInit, TypeStep, OrderInit, OrderStep, ExitInit, ExitStep, <1>1, PTL DEF Spec
=============================================================================
