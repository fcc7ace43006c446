---------------------------- MODULE SamplerProofs ----------------------------
(***************************************************************************)
(* Proofs about Sampler, for every set of paths, every choice of the       *)
(* sampling options and every bound of the model.                          *)
(***************************************************************************)
EXTENDS Sampler, FiniteSetTheorems, WellFoundedInduction, TLAPS

(* The constants are what SampleOptions allows. *)
LEMMA Constants ==
    /\ Interval \in Nat /\ Interval > 0
    /\ MaxWait \in Nat /\ Settle \in Nat
    /\ Deadline \in Nat /\ Deadline > 0 /\ Slack \in Nat
    /\ SuspendLengths \subseteq Nat
  BY IntervalAssumption, WaitAssumption, DeadlineAssumption, SuspendAssumption

-----------------------------------------------------------------------------
(* Type correctness. *)

LEMMA TypeInit == Init => TypeOK
  <1> SUFFICES ASSUME Init PROVE TypeOK
    OBVIOUS
  <1> USE DEF Init
  <1>1. /\ now \in Nat /\ stop \in BOOLEAN
        /\ main \in MainPCs /\ endMs \in Times
    BY DEF MainPCs, Times
  <1>2. /\ pc \in [Paths -> PathPCs]
        /\ at \in [Paths -> Nat] /\ due \in [Paths -> Nat]
        /\ samples \in [Paths -> Nat] /\ failures \in [Paths -> Nat]
        /\ healthyAtStart \in [Paths -> {"null", "up", "down"}]
    BY Constants DEF PathPCs
  <1>3. /\ firstFail \in [Paths -> Times]
        /\ pendingRecovery \in [Paths -> Times]
        /\ recovered \in [Paths -> Times]
    BY DEF Times
  <1>4. watch \in [pc: WatchPCs, due: Nat, lastWall: Nat]
    BY Constants DEF WatchPCs
  <1>5. /\ oks \in [Paths -> SUBSET Nat] /\ fails \in [Paths -> SUBSET Nat]
        /\ pauses \subseteq Nat \X Nat /\ suspended \subseteq Nat \X Nat
    OBVIOUS
  <1> QED  BY <1>1, <1>2, <1>3, <1>4, <1>5 DEF TypeOK

LEMMA TypeRecord ==
  ASSUME TypeOK, NEW p \in Paths, NEW ok \in BOOLEAN, Record(p, ok)
  PROVE  TypeOK'
  <1> USE DEF TypeOK, Times, PathPCs, WatchPCs, MainPCs, None
  <1>1. /\ samples' \in [Paths -> Nat]
        /\ healthyAtStart' \in [Paths -> {"null", "up", "down"}]
        /\ pc' \in [Paths -> PathPCs]
        /\ due' \in [Paths -> Nat]
        /\ at' = at /\ now' = now /\ suspended' = suspended
        /\ watch' = watch /\ pauses' = pauses
        /\ stop' = stop /\ main' = main /\ endMs' = endMs
    BY Constants DEF Record, clockVars, watchVars, mainVars
  <1>2. CASE ok
    <2>1. RecordSuccess(p)
      BY <1>2 DEF Record
    <2> QED  BY <1>1, <2>1 DEF RecordSuccess
  <1>3. CASE ~ok
    <2>1. RecordFailure(p)
      BY <1>3 DEF Record
    <2> QED  BY <1>1, <2>1 DEF RecordFailure
  <1> QED  BY <1>2, <1>3

LEMMA TypeStep == TypeOK /\ [Next]_vars => TypeOK'
  <1> SUFFICES ASSUME TypeOK, [Next]_vars PROVE TypeOK'
    OBVIOUS
  <1>1. ASSUME NEW p \in Paths, ProbeAnswers(p) PROVE TypeOK'
    BY <1>1, TypeRecord DEF ProbeAnswers
  <1>2. ASSUME NEW p \in Paths, ProbeDeadline(p) PROVE TypeOK'
    BY <1>2, TypeRecord DEF ProbeDeadline
  <1>3. ASSUME NEW p \in Paths, PathWakes(p) PROVE TypeOK'
    BY <1>3, Constants
       DEF PathWakes, StartProbe, TypeOK, PathPCs, clockVars, watchVars, mainVars
  <1>4. ASSUME WatchdogWakes PROVE TypeOK'
    BY <1>4, Constants
       DEF WatchdogWakes, WatchdogRearm, LatePause, TypeOK, WatchPCs,
           clockVars, pathVars, mainVars
  <1>5. ASSUME MainStep PROVE TypeOK'
    BY <1>5 DEF MainStep, OperationSucceeds, OperationThrows, WatchdogAwaited,
                LoopsAwaited, Rethrows, TypeOK, MainPCs, Times,
                clockVars, pathVars, watchVars
  <1>6. ASSUME Tick PROVE TypeOK'
    BY <1>6 DEF Tick, TypeOK, pathVars, watchVars, mainVars
  <1>7. ASSUME HostSleeps PROVE TypeOK'
    <2>1. PICK d \in SuspendLengths :
             /\ Paused(d)
             /\ due' = [p \in Paths |-> due[p] + d]
             /\ watch' = [watch EXCEPT !.due = @ + d]
             /\ UNCHANGED <<pc, at, samples, failures, healthyAtStart, firstFail,
                            pendingRecovery, recovered, oks, fails, pauses, mainVars>>
      BY <1>7 DEF HostSleeps
    <2>2. d \in Nat
      BY Constants
    <2> QED  BY <2>1, <2>2 DEF Paused, TypeOK, mainVars
  <1>8. ASSUME LoopBlocked PROVE TypeOK'
    BY <1>8, Constants DEF LoopBlocked, Paused, TypeOK, pathVars, watchVars, mainVars
  <1>9. ASSUME UNCHANGED vars PROVE TypeOK'
    BY <1>9 DEF vars, TypeOK, clockVars, pathVars, watchVars, mainVars
  <1> QED
    BY <1>1, <1>2, <1>3, <1>4, <1>5, <1>6, <1>7, <1>8, <1>9
       DEF Next, PathStep, Ended

(* The state of sampleDuring keeps its types, for every number of paths and *)
(* every choice of the sampling options.                                    *)
THEOREM TypeCorrect == Spec => []TypeOK
  BY TypeInit, TypeStep, PTL DEF Spec

-----------------------------------------------------------------------------
(* The windows.  What loop() keeps per path is a summary of the history so  *)
(* far; the strengthening says of what: samples are dated in increasing     *)
(* order, pendingRecovery is the first good sample after the last failure   *)
(* and has not settled yet, and a reported recovery began right after a     *)
(* failure.                                                                 *)

(* Samples are dated in the past and in order. *)
Dated(p) ==
    /\ at[p] <= now
    /\ pc[p] = "probing" => \A t \in oks[p] \cup fails[p] : t < at[p]
    /\ pc[p] = "sleeping" => \A t \in oks[p] \cup fails[p] : t < due[p]

(* No good sample follows the last failure. *)
NoCandidate(p) == \A i \in oks[p] : \E f \in fails[p] : i < f

(* c is the first good sample after the last failure, and has not settled.  *)
Candidate(p, c) ==
    /\ c \in oks[p]
    /\ \A f \in fails[p] : f < c
    /\ \A i \in oks[p] : i < c => \E f \in fails[p] : i < f
    /\ \A i \in oks[p] : i > c => i - c < Settle

PendingRight(p) ==
    firstFail[p] # None /\ recovered[p] = None =>
        IF pendingRecovery[p] = None THEN NoCandidate(p)
        ELSE Candidate(p, pendingRecovery[p])

(* Nothing is pending before the first failure. *)
PendingAfterFailure(p) == firstFail[p] = None => pendingRecovery[p] = None

(* A reported recovery is the first good sample after a failure. *)
RecoveryFirst(p) ==
    recovered[p] # None =>
        /\ firstFail[p] # None
        /\ \A i \in oks[p] : i < recovered[p] =>
              \E f \in fails[p] : i < f /\ f < recovered[p]

WindowInv(p) ==
    /\ Dated(p) /\ PendingRight(p) /\ PendingAfterFailure(p) /\ RecoveryFirst(p)
    /\ FirstFailRight(p) /\ RecoveryRight(p) /\ StartRight(p)

Windows == \A p \in Paths : WindowInv(p)

LEMMA WindowsInit == Init => Windows
  BY DEF Init, Windows, WindowInv, Dated, PendingRight, PendingAfterFailure,
         RecoveryFirst, FirstFailRight, RecoveryRight, StartRight, None

(* A step that leaves a path's history and summary alone. *)
LEMMA WindowFrame ==
  ASSUME TypeOK, TypeOK', NEW p \in Paths, WindowInv(p), Dated(p)',
         oks'[p] = oks[p], fails'[p] = fails[p],
         firstFail'[p] = firstFail[p], recovered'[p] = recovered[p],
         pendingRecovery'[p] = pendingRecovery[p],
         healthyAtStart'[p] = healthyAtStart[p]
  PROVE  WindowInv(p)'
  BY DEF WindowInv, PendingRight, PendingAfterFailure, RecoveryFirst,
         FirstFailRight, RecoveryRight, StartRight, NoCandidate, Candidate,
         SettledRun

(* What a recorded sample leaves alone, and the fresh date of the sample. *)
LEMMA RecordFrame ==
  ASSUME TypeOK, NEW p \in Paths, NEW ok \in BOOLEAN,
         pc[p] = "probing", Dated(p), Record(p, ok)
  PROVE  /\ Dated(p)'
         /\ at[p] \in Nat
         /\ \A t \in oks[p] \cup fails[p] : t \in Nat /\ t < at[p]
         /\ healthyAtStart'[p] = IF healthyAtStart[p] = "null"
                                 THEN IF ok THEN "up" ELSE "down"
                                 ELSE healthyAtStart[p]
  <1>1. at[p] \in Nat /\ now \in Nat /\ at[p] <= now
    BY DEF TypeOK, Dated
  <1>2. \A t \in oks[p] \cup fails[p] : t \in Nat /\ t < at[p]
    BY DEF TypeOK, Dated
  <1>3. /\ pc'[p] = "sleeping" /\ due'[p] = now + Interval
        /\ at' = at /\ now' = now
    BY DEF TypeOK, Record, clockVars
  <1>4. healthyAtStart'[p] = IF healthyAtStart[p] = "null"
                             THEN IF ok THEN "up" ELSE "down"
                             ELSE healthyAtStart[p]
    BY DEF TypeOK, Record
  <1>5. oks'[p] \cup fails'[p] = oks[p] \cup fails[p] \cup {at[p]}
    BY DEF TypeOK, Record, RecordSuccess, RecordFailure
  <1>6. Dated(p)'
    BY <1>1, <1>2, <1>3, <1>5, Constants DEF Dated
  <1> QED  BY <1>1, <1>2, <1>4, <1>6

(* A bad sample: the candidate falls, the reported window stays. *)
LEMMA WindowFailure ==
  ASSUME TypeOK, TypeOK', NEW p \in Paths, WindowInv(p),
         pc[p] = "probing", Record(p, FALSE)
  PROVE  WindowInv(p)'
  <1> DEFINE a == at[p]
  <1>1. RecordFailure(p)
    BY DEF Record
  <1>2. /\ oks'[p] = oks[p] /\ fails'[p] = fails[p] \cup {a}
        /\ pendingRecovery'[p] = None /\ recovered'[p] = recovered[p]
        /\ firstFail'[p] = IF firstFail[p] = None THEN a ELSE firstFail[p]
    BY <1>1 DEF RecordFailure, TypeOK
  <1>3. /\ Dated(p)' /\ a \in Nat
        /\ \A t \in oks[p] \cup fails[p] : t \in Nat /\ t < a
        /\ healthyAtStart'[p] = IF healthyAtStart[p] = "null" THEN "down"
                                ELSE healthyAtStart[p]
    BY RecordFrame DEF WindowInv
  <1>4. a # None /\ recovered[p] \in Nat \cup {None} /\ None \notin Nat
    BY <1>3 DEF TypeOK, Times, None
  <1>5. FirstFailRight(p)' /\ firstFail'[p] # None
    BY <1>2, <1>3, <1>4 DEF WindowInv, FirstFailRight, None
  <1>6. \A i, j \in oks[p] : SettledRun(p, i, j)' <=> SettledRun(p, i, j)
    BY <1>2, <1>3 DEF SettledRun
  <1>7. RecoveryRight(p)'
    <2>1. CASE recovered[p] = None
      BY <1>2, <1>6, <2>1 DEF WindowInv, RecoveryRight
    <2>2. CASE recovered[p] # None
      <3>1. PICK j \in oks[p] : SettledRun(p, recovered[p], j)
        BY <2>2 DEF WindowInv, RecoveryRight
      <3>2. recovered[p] \in oks[p]
        BY <3>1 DEF SettledRun
      <3> QED
        BY <1>2, <1>6, <2>2, <3>1, <3>2 DEF WindowInv, RecoveryRight
    <2> QED  BY <2>1, <2>2
  <1>8. RecoveryFirst(p)'
    BY <1>2, <1>5 DEF WindowInv, RecoveryFirst
  <1>9. PendingRight(p)' /\ PendingAfterFailure(p)'
    BY <1>2, <1>3, <1>5 DEF PendingRight, NoCandidate, PendingAfterFailure
  <1>10. StartRight(p)'
    BY <1>2, <1>3 DEF WindowInv, StartRight
  <1> QED
    BY <1>3, <1>5, <1>7, <1>8, <1>9, <1>10 DEF WindowInv

(* A good sample: it may open a candidate, confirm one, or change nothing. *)
LEMMA WindowSuccess ==
  ASSUME TypeOK, TypeOK', NEW p \in Paths, WindowInv(p),
         pc[p] = "probing", Record(p, TRUE)
  PROVE  WindowInv(p)'
  <1>a. PICK a : a = at[p]
    OBVIOUS
  <1>c. PICK c : c = pendingRecovery[p]
    OBVIOUS
  <1>r. PICK r : r = recovered[p]
    OBVIOUS
  <1>1. RecordSuccess(p)
    BY DEF Record
  <1>2. /\ oks'[p] = oks[p] \cup {a} /\ fails'[p] = fails[p]
        /\ firstFail'[p] = firstFail[p]
    BY <1>1, <1>a DEF RecordSuccess, TypeOK
  <1>3. /\ Dated(p)' /\ a \in Nat
        /\ \A t \in oks[p] \cup fails[p] : t \in Nat /\ t < a
        /\ healthyAtStart'[p] = IF healthyAtStart[p] = "null" THEN "up"
                                ELSE healthyAtStart[p]
    BY RecordFrame, <1>a DEF WindowInv
  <1>4. /\ a # None /\ None \notin Nat
        /\ recovered[p] \in Nat \cup {None} /\ c \in Nat \cup {None}
    BY <1>3, <1>c DEF TypeOK, Times, None
  <1>5. FirstFailRight(p)'
    BY <1>2 DEF WindowInv, FirstFailRight
  <1>6. StartRight(p)'
    BY <1>2, <1>3 DEF WindowInv, StartRight
  <1>7. \A i, j \in oks[p] : SettledRun(p, i, j)' <=> SettledRun(p, i, j)
    BY <1>2, <1>3 DEF SettledRun
  <1>8. \A j \in oks'[p] : ~SettledRun(p, a, j)'
    BY <1>2, <1>3 DEF SettledRun
  <1>9. \A i \in oks[p] : SettledRun(p, i, a)' <=>
            /\ a - i >= Settle
            /\ \E f \in fails[p] : f < i
            /\ \A f \in fails[p] : f < i
    BY <1>2, <1>3 DEF SettledRun
  <1>10. CASE firstFail[p] = None \/ recovered[p] # None
    <2>1. pendingRecovery'[p] = c /\ recovered'[p] = recovered[p]
      BY <1>1, <1>10, <1>c DEF RecordSuccess, TypeOK
    <2>2. firstFail[p] = None => recovered[p] = None /\ fails[p] = {}
      BY <1>10 DEF WindowInv, RecoveryFirst, FirstFailRight, TypeOK, None
    <2>3. RecoveryFirst(p)'
      BY <1>2, <1>3, <1>4, <2>1 DEF WindowInv, RecoveryFirst, RecoveryRight, SettledRun
    <2>4. RecoveryRight(p)'
      <3>1. CASE recovered[p] = None
        BY <1>2, <1>7, <1>8, <1>9, <1>10, <2>1, <2>2, <3>1
           DEF WindowInv, RecoveryRight
      <3>2. CASE recovered[p] # None
        <4>1. PICK j \in oks[p] : SettledRun(p, r, j)
          BY <1>r, <3>2 DEF WindowInv, RecoveryRight
        <4>2. r \in oks[p] /\ r \in Nat
          BY <1>3, <4>1 DEF SettledRun
        <4>3. \A i \in oks[p] : SettledRun(p, i, a)' => r <= i
          BY <1>3, <1>9, <1>r, <3>2, <4>2 DEF WindowInv, RecoveryFirst
        <4>4. \A i, k \in oks'[p] : SettledRun(p, i, k)' => r <= i
          BY <1>2, <1>3, <1>7, <1>8, <1>r, <3>2, <4>3 DEF WindowInv, RecoveryRight
        <4>5. SettledRun(p, r, j)'
          BY <1>7, <4>1, <4>2
        <4> QED  BY <1>2, <1>r, <2>1, <3>2, <4>4, <4>5 DEF RecoveryRight
      <3> QED  BY <3>1, <3>2
    <2>5. PendingRight(p)' /\ PendingAfterFailure(p)'
      BY <1>2, <1>10, <1>c, <2>1 DEF WindowInv, PendingRight, PendingAfterFailure
    <2> QED
      BY <1>3, <1>5, <1>6, <2>3, <2>4, <2>5 DEF WindowInv
  <1>11. CASE firstFail[p] # None /\ recovered[p] = None /\ c = None
    <2>1. pendingRecovery'[p] = a /\ recovered'[p] = None
      BY <1>1, <1>11, <1>a, <1>c DEF RecordSuccess, TypeOK
    <2>2. NoCandidate(p)
      BY <1>11, <1>c DEF WindowInv, PendingRight
    <2>3. PendingRight(p)' /\ PendingAfterFailure(p)'
      BY <1>2, <1>3, <1>4, <1>11, <2>1, <2>2
         DEF PendingRight, PendingAfterFailure, Candidate, NoCandidate
    <2>4. \A i \in oks[p] : ~SettledRun(p, i, a)'
      BY <1>3, <1>9, <2>2 DEF NoCandidate
    <2>5. RecoveryRight(p)'
      BY <1>2, <1>7, <1>8, <1>11, <2>1, <2>4 DEF WindowInv, RecoveryRight
    <2> QED
      BY <1>3, <1>5, <1>6, <2>1, <2>3, <2>5 DEF WindowInv, RecoveryFirst
  <1>12. CASE firstFail[p] # None /\ recovered[p] = None /\ c # None
    <2>1. /\ pendingRecovery'[p] = c
          /\ recovered'[p] = IF a - c >= Settle THEN c ELSE None
      BY <1>1, <1>12, <1>a, <1>c DEF RecordSuccess, TypeOK
    <2>2. Candidate(p, c) /\ c \in Nat /\ c < a
      BY <1>3, <1>4, <1>12, <1>c DEF WindowInv, PendingRight, Candidate
    <2>3. \A i \in oks[p] : (\A f \in fails[p] : f < i) => c <= i
      BY <1>3, <2>2 DEF Candidate
    <2>4. fails[p] # {}
      BY <1>12 DEF WindowInv, FirstFailRight
    <2>5. CASE a - c >= Settle
      <3>1. recovered'[p] = c
        BY <2>1, <2>5
      <3>2. SettledRun(p, c, a)'
        BY <1>9, <2>2, <2>4, <2>5 DEF Candidate
      <3>3. \A i, j \in oks'[p] : SettledRun(p, i, j)' => c <= i
        BY <1>2, <1>7, <1>8, <1>9, <1>12, <2>3 DEF WindowInv, RecoveryRight
      <3>4. RecoveryRight(p)'
        BY <1>2, <1>4, <2>2, <3>1, <3>2, <3>3 DEF RecoveryRight
      <3>5. RecoveryFirst(p)'
        BY <1>2, <1>3, <1>12, <2>2, <3>1 DEF RecoveryFirst, Candidate
      <3>6. PendingRight(p)' /\ PendingAfterFailure(p)'
        BY <1>2, <1>4, <1>12, <2>2, <3>1 DEF PendingRight, PendingAfterFailure
      <3> QED
        BY <1>3, <1>5, <1>6, <3>4, <3>5, <3>6 DEF WindowInv
    <2>6. CASE ~(a - c >= Settle)
      <3>1. recovered'[p] = None
        BY <2>1, <2>6
      <3>2. \A i \in oks[p] : ~SettledRun(p, i, a)'
        BY <1>3, <1>9, <2>2, <2>3, <2>6, Constants
      <3>3. RecoveryRight(p)'
        BY <1>2, <1>7, <1>8, <1>12, <3>1, <3>2 DEF WindowInv, RecoveryRight
      <3>4. Candidate(p, c)'
        BY <1>2, <1>3, <2>2, <2>6, Constants DEF Candidate
      <3>5. PendingRight(p)' /\ PendingAfterFailure(p)'
        BY <1>2, <1>12, <2>1, <3>4 DEF PendingRight, PendingAfterFailure
      <3> QED
        BY <1>3, <1>5, <1>6, <3>1, <3>3, <3>5 DEF WindowInv, RecoveryFirst
    <2> QED  BY <2>5, <2>6
  <1> QED  BY <1>10, <1>11, <1>12

LEMMA WindowsRecord ==
  ASSUME TypeOK, TypeOK', Windows, NEW p \in Paths, NEW ok \in BOOLEAN,
         pc[p] = "probing", Record(p, ok)
  PROVE  Windows'
  <1>1. WindowInv(p)'
    <2>1. CASE ok = TRUE   BY <2>1, WindowSuccess DEF Windows
    <2>2. CASE ok = FALSE  BY <2>2, WindowFailure DEF Windows
    <2> QED  BY <2>1, <2>2
  <1>2. ASSUME NEW q \in Paths, q # p PROVE WindowInv(q)'
    <2>1. /\ oks'[q] = oks[q] /\ fails'[q] = fails[q]
          /\ firstFail'[q] = firstFail[q] /\ recovered'[q] = recovered[q]
          /\ pendingRecovery'[q] = pendingRecovery[q]
      BY <1>2 DEF Record, RecordSuccess, RecordFailure, TypeOK
    <2>2. /\ healthyAtStart'[q] = healthyAtStart[q]
          /\ pc'[q] = pc[q] /\ due'[q] = due[q] /\ at' = at /\ now' = now
      BY <1>2 DEF Record, TypeOK, clockVars
    <2>3. Dated(q)'
      BY <2>1, <2>2 DEF Windows, WindowInv, Dated
    <2> QED  BY <2>1, <2>2, <2>3, WindowFrame DEF Windows
  <1> QED  BY <1>1, <1>2 DEF Windows

(* Steps that leave every history and summary alone keep the windows as     *)
(* soon as they keep the dates.                                             *)
LEMMA WindowsFrame ==
  ASSUME TypeOK, TypeOK', Windows, \A p \in Paths : Dated(p)',
         UNCHANGED <<oks, fails, firstFail, recovered, pendingRecovery, healthyAtStart>>
  PROVE  Windows'
  BY WindowFrame DEF Windows

LEMMA WindowsStep ==
  ASSUME TypeOK, TypeOK', Windows, [Next]_vars
  PROVE  Windows'
  <1>0. \A p \in Paths : Dated(p)
    BY DEF Windows, WindowInv
  <1>1. ASSUME NEW p \in Paths, ProbeAnswers(p) PROVE Windows'
    BY <1>1, WindowsRecord DEF ProbeAnswers
  <1>2. ASSUME NEW p \in Paths, ProbeDeadline(p) PROVE Windows'
    BY <1>2, WindowsRecord DEF ProbeDeadline
  <1>3. ASSUME NEW p \in Paths, PathWakes(p) PROVE Windows'
    <2>1. /\ UNCHANGED <<oks, fails, firstFail, recovered, pendingRecovery, healthyAtStart>>
          /\ now' = now
      BY <1>3 DEF PathWakes, clockVars
    <2>2. ASSUME NEW q \in Paths, q # p PROVE Dated(q)'
      <3>1. pc'[q] = pc[q] /\ due'[q] = due[q] /\ at'[q] = at[q]
        BY <1>3, <2>2 DEF PathWakes, StartProbe, TypeOK
      <3> QED  BY <1>0, <2>1, <3>1 DEF Dated
    <2>3. Dated(p)'
      <3>1. \A t \in oks[p] \cup fails[p] : t \in Nat /\ t < now
        BY <1>0, <1>3 DEF PathWakes, Dated, TypeOK
      <3>2. CASE KeepGoing
        <4>1. pc'[p] = "probing" /\ at'[p] = now
          BY <1>3, <3>2 DEF PathWakes, StartProbe, TypeOK
        <4> QED  BY <2>1, <3>1, <4>1 DEF Dated, TypeOK
      <3>3. CASE ~KeepGoing
        <4>1. pc'[p] = "done" /\ at' = at
          BY <1>3, <3>3 DEF PathWakes, TypeOK
        <4> QED  BY <1>0, <2>1, <4>1 DEF Dated
      <3> QED  BY <3>2, <3>3
    <2> QED  BY <2>1, <2>2, <2>3, WindowsFrame
  <1>4. ASSUME WatchdogWakes PROVE Windows'
    BY <1>0, <1>4, WindowsFrame DEF WatchdogWakes, pathVars, clockVars, Dated
  <1>5. ASSUME MainStep PROVE Windows'
    BY <1>0, <1>5, WindowsFrame
       DEF MainStep, OperationSucceeds, OperationThrows, WatchdogAwaited,
           LoopsAwaited, Rethrows, pathVars, clockVars, Dated
  <1>6. ASSUME Tick PROVE Windows'
    <2>1. UNCHANGED pathVars /\ now' = now + 1
      BY <1>6 DEF Tick
    <2>2. \A p \in Paths : Dated(p)'
      BY <1>0, <2>1 DEF pathVars, Dated, TypeOK
    <2> QED  BY <2>1, <2>2, WindowsFrame DEF pathVars
  <1>7. ASSUME HostSleeps PROVE Windows'
    <2>1. PICK d \in SuspendLengths :
             /\ now' = now + d
             /\ due' = [p \in Paths |-> due[p] + d]
             /\ UNCHANGED <<pc, at, healthyAtStart, firstFail,
                            pendingRecovery, recovered, oks, fails>>
      BY <1>7 DEF HostSleeps, Paused
    <2>2. d \in Nat
      BY Constants
    <2>3. \A p \in Paths : Dated(p)'
      BY <1>0, <2>1, <2>2 DEF Dated, TypeOK
    <2> QED  BY <2>1, <2>3, WindowsFrame
  <1>8. ASSUME LoopBlocked PROVE Windows'
    <2>1. PICK d \in SuspendLengths : now' = now + d /\ UNCHANGED pathVars
      BY <1>8 DEF LoopBlocked, Paused
    <2>2. d \in Nat
      BY Constants
    <2>3. \A p \in Paths : Dated(p)'
      BY <1>0, <2>1, <2>2 DEF Dated, TypeOK, pathVars
    <2> QED  BY <2>1, <2>3, WindowsFrame DEF pathVars
  <1>9. ASSUME UNCHANGED vars PROVE Windows'
    BY <1>0, <1>9, WindowsFrame DEF vars, pathVars, clockVars, Dated
  <1> QED
    BY <1>1, <1>2, <1>3, <1>4, <1>5, <1>6, <1>7, <1>8, <1>9
       DEF Next, PathStep, Ended

(* For every number of paths, sampling interval, settle time, deadline and  *)
(* pattern of host pauses, the window loop() keeps is the one a reader      *)
(* would find in the full history of the path's samples.                    *)
THEOREM WindowsCorrect == Spec => []WindowMatchesHistory
  <1>1. Windows => WindowMatchesHistory
    BY DEF Windows, WindowInv, WindowMatchesHistory
  <1> QED
    BY TypeInit, TypeStep, WindowsInit, WindowsStep, <1>1, PTL DEF Spec

-----------------------------------------------------------------------------
(* The end of sampling. *)

(* Nothing is left running once the windows are handed out, stop is only    *)
(* set on the way out, and the watchdog only gives up for a reason.         *)
SomeRecovered ==
    main = "returned" => endMs >= MaxWait \/ \E p \in Paths : recovered[p] # None

EndInv ==
    /\ main \in {"operation", "watchdog"} => ~stop
    /\ main \in {"loops", "returned"} => watch.pc = "done"
    /\ main = "returned" => \A p \in Paths : pc[p] = "done"
    /\ main \in {"operation", "watchdog", "loops"} /\ watch.pc = "done" =>
          now >= MaxWait \/ \E p \in Paths : recovered[p] # None
    /\ SomeRecovered

LEMMA EndInit == Init => EndInv
  BY DEF Init, EndInv, SomeRecovered

(* A recovery, once reported, is never withdrawn. *)
LEMMA RecoveryKept ==
  ASSUME TypeOK, [Next]_vars, NEW q \in Paths, recovered[q] # None
  PROVE  recovered'[q] = recovered[q]
  <1>1. ASSUME NEW p \in Paths, NEW ok \in BOOLEAN, Record(p, ok)
        PROVE  recovered'[q] = recovered[q]
    BY <1>1 DEF Record, RecordSuccess, RecordFailure, TypeOK
  <1>2. ASSUME NEW p \in Paths, PathStep(p) PROVE recovered'[q] = recovered[q]
    BY <1>1, <1>2 DEF PathStep, ProbeAnswers, ProbeDeadline, PathWakes
  <1> QED
    BY <1>2 DEF Next, WatchdogWakes, MainStep, OperationSucceeds, OperationThrows,
       WatchdogAwaited, LoopsAwaited, Rethrows, Tick, HostSleeps, LoopBlocked,
       Ended, vars, pathVars

LEMMA EndStep ==
  ASSUME TypeOK, EndInv, [Next]_vars
  PROVE  EndInv'
  <1>0. (\E q \in Paths : recovered[q] # None) => \E q \in Paths : recovered'[q] # None
    BY RecoveryKept
  <1>1. ASSUME NEW p \in Paths, PathStep(p) PROVE EndInv'
    <2>1. main' = main /\ stop' = stop /\ endMs' = endMs /\ watch' = watch /\ now' = now
      BY <1>1 DEF PathStep, ProbeAnswers, ProbeDeadline, PathWakes, Record,
                  mainVars, watchVars, clockVars
    <2>2. main # "returned"
      BY <1>1 DEF PathStep, ProbeAnswers, ProbeDeadline, PathWakes, EndInv
    <2> QED  BY <1>0, <2>1, <2>2 DEF EndInv, SomeRecovered
  <1>2. ASSUME WatchdogWakes PROVE EndInv'
    <2>1. /\ UNCHANGED <<main, stop, endMs, now, pc, recovered>>
          /\ main \notin {"loops", "returned"}
          /\ watch'.pc = IF KeepGoing /\ ~OutageOver THEN "sleeping" ELSE "done"
      BY <1>2 DEF WatchdogWakes, WatchdogRearm, EndInv, mainVars, clockVars, pathVars
    <2>2. OutageOver => \E p \in Paths : recovered[p] # None
      BY DEF OutageOver, AllSettled
    <2>3. watch'.pc = "done" =>
            stop \/ now >= MaxWait \/ \E p \in Paths : recovered[p] # None
      BY <2>1, <2>2, Constants DEF KeepGoing, TypeOK
    <2> QED  BY <2>1, <2>3 DEF EndInv, SomeRecovered
  <1>3. ASSUME MainStep PROVE EndInv'
    <2>1. UNCHANGED <<now, pc, recovered, watch>>
      BY <1>3 DEF MainStep, OperationSucceeds, OperationThrows, WatchdogAwaited,
                  LoopsAwaited, Rethrows, clockVars, pathVars, watchVars
    <2>2. CASE OperationSucceeds \/ OperationThrows \/ Rethrows
      BY <2>1, <2>2 DEF OperationSucceeds, OperationThrows, Rethrows, EndInv, SomeRecovered
    <2>3. CASE WatchdogAwaited
      BY <2>1, <2>3 DEF WatchdogAwaited, EndInv, SomeRecovered
    <2>4. CASE LoopsAwaited
      BY <2>1, <2>4 DEF LoopsAwaited, EndInv, SomeRecovered
    <2> QED  BY <1>3, <2>2, <2>3, <2>4 DEF MainStep
  <1>4. ASSUME Tick \/ HostSleeps \/ LoopBlocked PROVE EndInv'
    <2>1. now' \in Nat /\ now' >= now
      BY <1>4, Constants DEF Tick, HostSleeps, LoopBlocked, Paused, TypeOK
    <2>2. UNCHANGED <<main, stop, endMs, pc, recovered>> /\ watch'.pc = watch.pc
      BY <1>4 DEF Tick, HostSleeps, LoopBlocked, mainVars, pathVars, watchVars, TypeOK
    <2>3. main # "returned"
      BY <1>4 DEF Tick, HostSleeps, LoopBlocked, Paused, Finished
    <2>4. now >= MaxWait => now' >= MaxWait
      BY <2>1, Constants DEF TypeOK
    <2> QED  BY <2>2, <2>3, <2>4 DEF EndInv, SomeRecovered
  <1>5. ASSUME UNCHANGED vars PROVE EndInv'
    BY <1>5 DEF vars, mainVars, pathVars, watchVars, clockVars, EndInv, SomeRecovered
  <1> QED
    BY <1>1, <1>2, <1>3, <1>4, <1>5 DEF Next, Ended

(* The windows sampleDuring has returned are final: no loop, late probe or  *)
(* watchdog can still write to them.                                        *)
THEOREM ReturnedIsFinal == Spec => ResultsStable
  <1>1. TypeOK /\ EndInv /\ [Next]_vars =>
          (main = "returned" =>
             UNCHANGED <<samples, failures, healthyAtStart, firstFail, recovered,
                         pauses, endMs>>)
    <2> SUFFICES ASSUME EndInv, [Next]_vars, main = "returned"
                 PROVE  UNCHANGED <<samples, failures, healthyAtStart, firstFail,
                                    recovered, pauses, endMs>>
      OBVIOUS
    <2>1. watch.pc = "done" /\ \A p \in Paths : pc[p] = "done"
      BY DEF EndInv
    <2>2. ~(\E p \in Paths : PathStep(p))
      BY <2>1 DEF PathStep, ProbeAnswers, ProbeDeadline, PathWakes
    <2>3. ~WatchdogWakes /\ ~MainStep
      BY <2>1 DEF WatchdogWakes, MainStep, OperationSucceeds, OperationThrows,
                  WatchdogAwaited, LoopsAwaited, Rethrows
    <2>4. UNCHANGED vars
      BY <2>2, <2>3 DEF Next, Tick, HostSleeps, LoopBlocked, Paused, Finished, Ended
    <2> QED  BY <2>4 DEF vars, pathVars, watchVars, mainVars
  <1> QED
    BY TypeInit, TypeStep, EndInit, EndStep, <1>1, PTL DEF Spec, ResultsStable

-----------------------------------------------------------------------------
(* The counters. *)

CountInv ==
    /\ \A p \in Paths : IsFiniteSet(oks[p]) /\ IsFiniteSet(fails[p])
    /\ CountsMatchHistory

(* The same, of one path. *)
Counted(p) ==
    /\ IsFiniteSet(oks[p]) /\ IsFiniteSet(fails[p])
    /\ failures[p] = Cardinality(fails[p])
    /\ samples[p] = failures[p] + Cardinality(oks[p])

LEMMA CountInit == Init => CountInv
  BY FS_EmptySet DEF Init, CountInv, CountsMatchHistory

LEMMA CountRecord ==
  ASSUME TypeOK, Windows, CountInv, NEW p \in Paths, NEW ok \in BOOLEAN,
         pc[p] = "probing", Record(p, ok)
  PROVE  CountInv'
  <1>1. at[p] \notin oks[p] /\ at[p] \notin fails[p]
    BY DEF Windows, WindowInv, Dated, TypeOK
  <1>2. IsFiniteSet(oks[p]) /\ IsFiniteSet(fails[p])
    BY DEF CountInv
  <1>3. /\ IsFiniteSet(oks[p] \cup {at[p]})
        /\ Cardinality(oks[p] \cup {at[p]}) = Cardinality(oks[p]) + 1
        /\ IsFiniteSet(fails[p] \cup {at[p]})
        /\ Cardinality(fails[p] \cup {at[p]}) = Cardinality(fails[p]) + 1
    BY <1>1, <1>2, FS_AddElement
  <1>4. Cardinality(oks[p]) \in Nat /\ Cardinality(fails[p]) \in Nat
    BY <1>2, FS_CardinalityType
  <1>5. samples' = [samples EXCEPT ![p] = @ + 1]
    BY DEF Record
  <1>8. \A q \in Paths \ {p} : Counted(q)'
    <2>1. ASSUME NEW q \in Paths, q # p PROVE Counted(q)'
      <3>1. /\ oks'[q] = oks[q] /\ fails'[q] = fails[q]
            /\ samples'[q] = samples[q] /\ failures'[q] = failures[q]
        BY <2>1 DEF Record, RecordSuccess, RecordFailure, TypeOK
      <3> QED  BY <3>1 DEF Counted, CountInv, CountsMatchHistory
    <2> QED  BY <2>1
  <1>6. CASE ok
    <2>1. /\ oks' = [oks EXCEPT ![p] = @ \cup {at[p]}]
          /\ fails' = fails /\ failures' = failures
      BY <1>6 DEF Record, RecordSuccess
    <2>2. /\ oks'[p] = oks[p] \cup {at[p]} /\ samples'[p] = samples[p] + 1
          /\ fails'[p] = fails[p] /\ failures'[p] = failures[p]
      BY <1>5, <2>1 DEF TypeOK
    <2>3. samples[p] \in Nat /\ failures[p] \in Nat
      BY DEF TypeOK
    <2>4. Counted(p)'
      BY <1>2, <1>3, <1>4, <2>2, <2>3 DEF Counted, CountInv, CountsMatchHistory
    <2> QED  BY <1>8, <2>4 DEF Counted, CountInv, CountsMatchHistory
  <1>7. CASE ~ok
    <2>1. /\ fails' = [fails EXCEPT ![p] = @ \cup {at[p]}]
          /\ failures' = [failures EXCEPT ![p] = @ + 1] /\ oks' = oks
      BY <1>7 DEF Record, RecordFailure
    <2>2. /\ fails'[p] = fails[p] \cup {at[p]} /\ samples'[p] = samples[p] + 1
          /\ oks'[p] = oks[p] /\ failures'[p] = failures[p] + 1
      BY <1>5, <2>1 DEF TypeOK
    <2>3. samples[p] \in Nat /\ failures[p] \in Nat
      BY DEF TypeOK
    <2>4. Counted(p)'
      BY <1>2, <1>3, <1>4, <2>2, <2>3 DEF Counted, CountInv, CountsMatchHistory
    <2> QED  BY <1>8, <2>4 DEF Counted, CountInv, CountsMatchHistory
  <1> QED  BY <1>6, <1>7

LEMMA CountStep ==
  ASSUME TypeOK, Windows, CountInv, [Next]_vars
  PROVE  CountInv'
  <1>1. ASSUME NEW p \in Paths, PathStep(p) PROVE CountInv'
    <2>1. CASE ProbeAnswers(p) \/ ProbeDeadline(p)
      BY <2>1, CountRecord DEF ProbeAnswers, ProbeDeadline
    <2>2. CASE PathWakes(p)
      BY <2>2 DEF PathWakes, CountInv, CountsMatchHistory
    <2> QED  BY <1>1, <2>1, <2>2 DEF PathStep
  <1>2. ASSUME UNCHANGED <<oks, fails, samples, failures>> PROVE CountInv'
    BY <1>2 DEF CountInv, CountsMatchHistory
  <1> QED
    BY <1>1, <1>2 DEF Next, WatchdogWakes, MainStep, OperationSucceeds,
       OperationThrows, WatchdogAwaited, LoopsAwaited, Rethrows, Tick,
       HostSleeps, LoopBlocked, Ended, vars, pathVars

(* The samples and failures reported for a path are the number of samples   *)
(* taken and of samples that failed, each counted once.                     *)
THEOREM CountsCorrect == Spec => []CountsMatchHistory
  <1>1. CountInv => CountsMatchHistory
    BY DEF CountInv
  <1> QED
    BY TypeInit, TypeStep, WindowsInit, WindowsStep, CountInit, CountStep, <1>1,
       PTL DEF Spec

-----------------------------------------------------------------------------
(* Sums over finite sets of spans.  TotalOverlap is a recursive function of *)
(* the subsets of its set; what is needed of it is proved by induction over *)
(* them, with the claim as a set, since the library's rule takes it as an   *)
(* operator.                                                                *)

LEMMA SetInduction ==
  ASSUME NEW N, 0 \in N, \A n \in Nat : n \in N => n + 1 \in N
  PROVE  Nat \subseteq N
  <1> SUFFICES ASSUME Nat \ N # {} PROVE FALSE
    OBVIOUS
  <1> DEFINE R == OpToRel(<, Nat)
  <1>1. IsWellFoundedOn(R, Nat)
    BY NatLessThanWellFounded
  <1>2. \A x, y \in Nat : x < y => <<x, y>> \in R
    BY DEF OpToRel
  <1> HIDE DEF R
  <1>3. PICK n \in Nat \ N : \A m \in Nat \ N : ~(<<m, n>> \in R)
    BY <1>1, WFMin
  <1>4. n # 0 /\ n - 1 \in Nat /\ n - 1 < n
    BY <1>3
  <1>5. n - 1 \in N
    BY <1>2, <1>3, <1>4
  <1> QED  BY <1>3, <1>4, <1>5

LEMMA SubsetInduction ==
  ASSUME NEW S, IsFiniteSet(S), NEW C, {} \in C,
         \A s \in SUBSET S : s # {} /\ (\A x \in s : s \ {x} \in C) => s \in C
  PROVE  SUBSET S \subseteq C
  <1> DEFINE N == {n \in Nat : \A s \in SUBSET S : Cardinality(s) = n => s \in C}
  <1>0. \A s \in SUBSET S : IsFiniteSet(s) /\ Cardinality(s) \in Nat
    BY FS_Subset, FS_CardinalityType
  <1>1. 0 \in N
    BY <1>0, FS_EmptySet
  <1>2. ASSUME NEW n \in Nat, n \in N PROVE n + 1 \in N
    <2>1. ASSUME NEW s \in SUBSET S, Cardinality(s) = n + 1 PROVE s \in C
      <3>1. s # {}
        BY <1>0, <2>1, FS_EmptySet
      <3>2. ASSUME NEW x \in s PROVE s \ {x} \in C
        <4>1. Cardinality(s \ {x}) = n /\ s \ {x} \in SUBSET S
          BY <1>0, <2>1, FS_RemoveElement
        <4> QED  BY <1>2, <4>1
      <3> QED  BY <3>1, <3>2
    <2> QED  BY <2>1
  <1>3. Nat \subseteq N
    <2> HIDE DEF N
    <2> QED  BY <1>1, <1>2, SetInduction
  <1> QED  BY <1>0, <1>3

(* f is the recursive function TotalOverlap(S, 0, to) applies to S. *)
Pick(s) == CHOOSE x \in s : TRUE
IsSum(f, S, to) ==
    f = [s \in SUBSET S |->
            IF s = {} THEN 0 ELSE Overlap(Pick(s), 0, to) + f[s \ {Pick(s)}]]

LEMMA SumExists ==
  ASSUME NEW S, IsFiniteSet(S), NEW to
  PROVE  \E f : IsSum(f, S, to)
  <1> DEFINE D(n) == {s \in SUBSET S : Cardinality(s) <= n}
             Body(f, s) == IF s = {} THEN 0 ELSE Overlap(Pick(s), 0, to) + f[s \ {Pick(s)}]
             Upto(f, n) == f = [s \in D(n) |-> Body(f, s)]
             N == {n \in Nat : \E f : Upto(f, n)}
  <1>0. \A s \in SUBSET S : IsFiniteSet(s) /\ Cardinality(s) \in Nat
    BY FS_Subset, FS_CardinalityType
  <1>1. 0 \in N
    <2> DEFINE f == [s \in D(0) |-> 0]
    <2>1. \A s \in D(0) : s = {}
      BY <1>0, FS_EmptySet
    <2>2. Upto(f, 0)
      BY <2>1
    <2> QED  BY <2>2
  <1>2. ASSUME NEW n \in Nat, n \in N PROVE n + 1 \in N
    <2>1. PICK f : Upto(f, n)
      BY <1>2
    <2> DEFINE g == [s \in D(n + 1) |-> Body(f, s)]
    <2>2. ASSUME NEW s \in D(n + 1), s # {}
          PROVE  s \ {Pick(s)} \in D(n) /\ s \ {Pick(s)} \in D(n + 1)
      <3>1. Pick(s) \in s
        BY <2>2 DEF Pick
      <3>2. Cardinality(s \ {Pick(s)}) = Cardinality(s) - 1
        BY <1>0, <3>1, FS_RemoveElement
      <3> QED  BY <1>0, <3>2
    <2>3. ASSUME NEW s \in D(n), s \in D(n + 1) PROVE g[s] = f[s]
      BY <2>1, <2>3
    <2>4. ASSUME NEW s \in D(n + 1) PROVE Body(f, s) = Body(g, s)
      BY <2>2, <2>3
    <2>5. Upto(g, n + 1)
      BY <2>4
    <2> HIDE DEF Upto, g
    <2> QED  BY <2>5
  <1>3. Nat \subseteq N
    <2> HIDE DEF N
    <2> QED  BY <1>1, <1>2, SetInduction
  <1>4. Cardinality(S) \in N
    BY <1>0, <1>3
  <1>5. \A s \in SUBSET S : Cardinality(s) <= Cardinality(S)
    BY FS_Subset
  <1>6. D(Cardinality(S)) = SUBSET S
    BY <1>5
  <1>7. PICK f : Upto(f, Cardinality(S))
    BY <1>4
  <1> QED  BY <1>6, <1>7 DEF IsSum

LEMMA TotalIs ==
  ASSUME NEW S, IsFiniteSet(S), NEW to
  PROVE  \E f : IsSum(f, S, to) /\ TotalOverlap(S, 0, to) = f[S]
  <1>1. TotalOverlap(S, 0, to) = (CHOOSE f : IsSum(f, S, to))[S]
    BY DEF TotalOverlap, MapThenSumSet, MapThenFoldSet, IsSum, Pick
  <1> QED  BY <1>1, SumExists

(* The spans of S overlap [0, to] in a natural number. *)
Measured(S, to) == \A x \in S : Overlap(x, 0, to) \in Nat

LEMMA SumUnfold ==
  ASSUME NEW S, NEW to, NEW f, IsSum(f, S, to), NEW s \in SUBSET S
  PROVE  /\ s = {} => f[s] = 0
         /\ s # {} => /\ Pick(s) \in s
                      /\ f[s] = Overlap(Pick(s), 0, to) + f[s \ {Pick(s)}]
  <1>1. s # {} => Pick(s) \in s
    BY DEF Pick
  <1> QED  BY <1>1 DEF IsSum

LEMMA SumZero == ASSUME NEW S, NEW to, NEW f, IsSum(f, S, to) PROVE f[{}] = 0
  <1>1. {} \in SUBSET S
    OBVIOUS
  <1> QED  BY <1>1, SumUnfold

LEMMA SumNat ==
  ASSUME NEW S, IsFiniteSet(S), NEW to, Measured(S, to), NEW f, IsSum(f, S, to)
  PROVE  \A s \in SUBSET S : f[s] \in Nat
  <1> DEFINE C == {s \in SUBSET S : f[s] \in Nat}
  <1>1. {} \in C
    BY SumZero
  <1>2. ASSUME NEW s \in SUBSET S, s # {}, \A x \in s : s \ {x} \in C
        PROVE  s \in C
    <2> DEFINE x == Pick(s)
    <2>1. x \in s /\ f[s] = Overlap(x, 0, to) + f[s \ {x}]
      BY <1>2, SumUnfold
    <2> HIDE DEF x
    <2>2. Overlap(x, 0, to) \in Nat /\ f[s \ {x}] \in Nat
      BY <1>2, <2>1 DEF Measured
    <2> QED  BY <2>1, <2>2
  <1>3. SUBSET S \subseteq C
    <2> HIDE DEF C
    <2> QED  BY <1>1, <1>2, SubsetInduction
  <1> QED  BY <1>3

(* Any element may be the first one to be added. *)
LEMMA SumAnyOrder ==
  ASSUME NEW S, IsFiniteSet(S), NEW to, Measured(S, to), NEW f, IsSum(f, S, to)
  PROVE  \A s \in SUBSET S : \A y \in s : f[s] = Overlap(y, 0, to) + f[s \ {y}]
  <1> DEFINE C == {s \in SUBSET S : \A y \in s : f[s] = Overlap(y, 0, to) + f[s \ {y}]}
  <1>1. {} \in C
    OBVIOUS
  <1>2. ASSUME NEW s \in SUBSET S, s # {}, \A x \in s : s \ {x} \in C
        PROVE  s \in C
    <2> DEFINE x == Pick(s)
    <2>1. x \in s /\ f[s] = Overlap(x, 0, to) + f[s \ {x}]
      BY <1>2, SumUnfold
    <2> HIDE DEF x
    <2>2. ASSUME NEW y \in s, y # x PROVE f[s] = Overlap(y, 0, to) + f[s \ {y}]
      <3>1. y \in s \ {x} /\ x \in s \ {y} /\ (s \ {x}) \ {y} = (s \ {y}) \ {x}
        BY <2>1, <2>2
      <3>2. f[s \ {x}] = Overlap(y, 0, to) + f[(s \ {x}) \ {y}]
        BY <1>2, <2>1, <3>1
      <3>3. f[s \ {y}] = Overlap(x, 0, to) + f[(s \ {y}) \ {x}]
        BY <1>2, <3>1
      <3>4. /\ Overlap(x, 0, to) \in Nat /\ Overlap(y, 0, to) \in Nat
            /\ f[(s \ {x}) \ {y}] \in Nat
        <4>1. (s \ {x}) \ {y} \in SUBSET S
          OBVIOUS
        <4>2. x \in S /\ y \in S
          BY <2>1
        <4> QED  BY <4>1, <4>2, SumNat DEF Measured
      <3>5. PICK a \in Nat, b \in Nat, c \in Nat :
               a = Overlap(x, 0, to) /\ b = Overlap(y, 0, to) /\ c = f[(s \ {x}) \ {y}]
        BY <3>4
      <3>6. f[s \ {x}] = b + c /\ f[s \ {y}] = a + c
        BY <3>1, <3>2, <3>3, <3>5
      <3>7. f[s] = a + (b + c)
        BY <2>1, <3>5, <3>6
      <3> QED  BY <3>5, <3>6, <3>7
    <2> QED  BY <2>1, <2>2
  <1>3. SUBSET S \subseteq C
    <2> HIDE DEF C
    <2> QED  BY <1>1, <1>2, SubsetInduction
  <1> QED  BY <1>3

(* Sums of smaller overlaps are smaller, whatever larger sets they are      *)
(* computed in.                                                             *)
LEMMA SumsCompare ==
  ASSUME NEW S, IsFiniteSet(S), NEW to, Measured(S, to), NEW f, IsSum(f, S, to),
         NEW T, IsFiniteSet(T), NEW upto, Measured(T, upto), NEW g, IsSum(g, T, upto),
         NEW U, U \subseteq S, U \subseteq T,
         \A x \in U : Overlap(x, 0, to) <= Overlap(x, 0, upto)
  PROVE  f[U] <= g[U]
  <1> DEFINE C == {s \in SUBSET U : f[s] <= g[s]}
  <1>0. IsFiniteSet(U)
    BY FS_Subset
  <1>1. {} \in C
    BY SumZero
  <1>2. ASSUME NEW s \in SUBSET U, s # {}, \A x \in s : s \ {x} \in C
        PROVE  s \in C
    <2>1. PICK x \in s : TRUE
      BY <1>2
    <2>2. f[s] = Overlap(x, 0, to) + f[s \ {x}] /\ g[s] = Overlap(x, 0, upto) + g[s \ {x}]
      BY SumAnyOrder
    <2>3. s \ {x} \in SUBSET S /\ s \ {x} \in SUBSET T /\ x \in S /\ x \in T
      OBVIOUS
    <2>4. f[s \ {x}] \in Nat /\ g[s \ {x}] \in Nat
      BY <2>3, SumNat
    <2>5. Overlap(x, 0, to) \in Nat /\ Overlap(x, 0, upto) \in Nat
      BY <2>3 DEF Measured
    <2>6. f[s \ {x}] <= g[s \ {x}]
      BY <1>2
    <2>7. f[s] <= g[s]
      BY <2>2, <2>4, <2>5, <2>6
    <2> QED  BY <2>7
  <1>3. SUBSET U \subseteq C
    <2> HIDE DEF C
    <2> QED  BY <1>0, <1>1, <1>2, SubsetInduction
  <1> QED  BY <1>3

(* What the proofs below use of TotalOverlap. *)
LEMMA TotalNat ==
  ASSUME NEW S, IsFiniteSet(S), NEW to, Measured(S, to)
  PROVE  TotalOverlap(S, 0, to) \in Nat
  BY TotalIs, SumNat

LEMMA TotalEmpty == ASSUME NEW to PROVE TotalOverlap({}, 0, to) = 0
  BY TotalIs, SumZero, FS_EmptySet

LEMMA TotalMonotone ==
  ASSUME NEW S, IsFiniteSet(S), NEW to, NEW upto, Measured(S, to), Measured(S, upto),
         \A x \in S : Overlap(x, 0, to) <= Overlap(x, 0, upto)
  PROVE  TotalOverlap(S, 0, to) <= TotalOverlap(S, 0, upto)
  BY TotalIs, SumsCompare

LEMMA TotalAdd ==
  ASSUME NEW S, IsFiniteSet(S), NEW to, Measured(S, to), NEW x, x \notin S,
         Overlap(x, 0, to) \in Nat
  PROVE  TotalOverlap(S \cup {x}, 0, to) = TotalOverlap(S, 0, to) + Overlap(x, 0, to)
  <1> DEFINE T == S \cup {x}
  <1>1. IsFiniteSet(T) /\ Measured(T, to) /\ T \ {x} = S
    BY FS_AddElement DEF Measured
  <1>2. PICK f : IsSum(f, S, to) /\ TotalOverlap(S, 0, to) = f[S]
    BY TotalIs
  <1>3. PICK g : IsSum(g, T, to) /\ TotalOverlap(T, 0, to) = g[T]
    BY <1>1, TotalIs
  <1>4. g[T] = Overlap(x, 0, to) + g[S]
    <2>1. T \in SUBSET T /\ x \in T
      OBVIOUS
    <2> HIDE DEF T
    <2> QED  BY <1>1, <1>3, <2>1, SumAnyOrder
  <1>5. f[S] \in Nat /\ g[S] \in Nat
    <2>1. S \in SUBSET S /\ S \in SUBSET T
      OBVIOUS
    <2> HIDE DEF T
    <2> QED  BY <1>1, <1>2, <1>3, <2>1, SumNat
  <1>6. f[S] <= g[S] /\ g[S] <= f[S]
    <2>1. S \subseteq S /\ S \subseteq T /\ \A y \in S : Overlap(y, 0, to) <= Overlap(y, 0, to)
      BY DEF Measured
    <2> HIDE DEF T
    <2> QED  BY <1>1, <1>2, <1>3, <2>1, SumsCompare
  <1> QED  BY <1>2, <1>3, <1>4, <1>5, <1>6

(* One span's overlap is part of the total. *)
LEMMA TotalAtLeast ==
  ASSUME NEW S, IsFiniteSet(S), NEW to, Measured(S, to), NEW x \in S
  PROVE  Overlap(x, 0, to) <= TotalOverlap(S, 0, to)
  <1>1. PICK f : IsSum(f, S, to) /\ TotalOverlap(S, 0, to) = f[S]
    BY TotalIs
  <1>2. f[S] = Overlap(x, 0, to) + f[S \ {x}]
    BY <1>1, SumAnyOrder
  <1>3. f[S \ {x}] \in Nat
    BY <1>1, SumNat
  <1> QED  BY <1>1, <1>2, <1>3 DEF Measured

-----------------------------------------------------------------------------
(* Host pauses. *)

(* The spans of S are over at t. *)
Spans(S, t) ==
    /\ IsFiniteSet(S) /\ S \subseteq Nat \X Nat
    /\ \A s \in S : s[1] < s[2] /\ s[2] <= t

LEMMA OverlapFacts ==
  ASSUME NEW s \in Nat \X Nat, s[1] < s[2], NEW t \in Nat
  PROVE  /\ Overlap(s, 0, t) \in Nat /\ Overlap(s, 0, t) <= s[2] - s[1]
         /\ s[2] <= t => Overlap(s, 0, t) = s[2] - s[1]
  BY DEF Overlap

LEMMA SpansMeasured ==
  ASSUME NEW S, NEW t \in Nat, Spans(S, t), NEW u \in Nat
  PROVE  Measured(S, u) /\ TotalOverlap(S, 0, u) \in Nat
                        /\ TotalOverlap(S, 0, u) <= TotalOverlap(S, 0, t)
  <1>1. Measured(S, u) /\ Measured(S, t)
    BY OverlapFacts DEF Measured, Spans
  <1>2. \A s \in S : Overlap(s, 0, u) <= Overlap(s, 0, t)
    BY OverlapFacts DEF Spans
  <1> QED  BY <1>1, <1>2, TotalNat, TotalMonotone DEF Spans

(* The total of spans that are over does not depend on the time. *)
LEMMA SpansOver ==
  ASSUME NEW S, NEW t \in Nat, Spans(S, t), NEW u \in Nat, t <= u
  PROVE  Spans(S, u) /\ TotalOverlap(S, 0, u) = TotalOverlap(S, 0, t)
  <1>1. Spans(S, u)
    BY DEF Spans
  <1> QED  BY <1>1, SpansMeasured

(* A span that follows on them adds its length. *)
LEMMA SpansAdd ==
  ASSUME NEW S, NEW t \in Nat, Spans(S, t), NEW u \in Nat, t < u
  PROVE  /\ Spans(S \cup {<<t, u>>}, u)
         /\ TotalOverlap(S \cup {<<t, u>>}, 0, u) = TotalOverlap(S, 0, t) + (u - t)
         /\ Cardinality(S \cup {<<t, u>>}) = Cardinality(S) + 1
         /\ Cardinality(S) \in Nat
  <1> DEFINE x == <<t, u>>
  <1>1. x \in Nat \X Nat /\ x[1] = t /\ x[2] = u
    OBVIOUS
  <1> HIDE DEF x
  <1>2. x \notin S
    BY <1>1 DEF Spans
  <1>3. Overlap(x, 0, u) \in Nat /\ Overlap(x, 0, u) = u - t
    BY <1>1, OverlapFacts
  <1>4. /\ IsFiniteSet(S \cup {x}) /\ Cardinality(S \cup {x}) = Cardinality(S) + 1
        /\ Cardinality(S) \in Nat
    BY <1>2, FS_AddElement, FS_CardinalityType DEF Spans
  <1>5. Spans(S, u) /\ TotalOverlap(S, 0, u) = TotalOverlap(S, 0, t) /\ Measured(S, u)
    BY SpansOver, SpansMeasured
  <1>6. TotalOverlap(S \cup {x}, 0, u) = TotalOverlap(S, 0, u) + Overlap(x, 0, u)
    BY <1>2, <1>3, <1>5, TotalAdd DEF Spans
  <1>7. Spans(S \cup {x}, u)
    BY <1>1, <1>4, <1>5 DEF Spans
  <1> QED  BY <1>3, <1>4, <1>5, <1>6, <1>7 DEF x

(* How long the host was paused, and how long the watchdog believes it was. *)
Asleep == TotalOverlap(suspended, 0, now)
Believed == TotalOverlap(pauses, 0, watch.lastWall)
(* What Believed may exceed Asleep by. *)
Allowance == Interval * Cardinality(suspended)

PausesOver ==
    /\ Spans(suspended, now) /\ Spans(pauses, watch.lastWall)
    /\ watch.lastWall <= now
    /\ main = "returned" => endMs = now

(* A loop that is running got past its last test of the clock before        *)
(* maxWaitMs: pauses aside, its timer and the clock are not far from it.    *)
LoopInTime(p) ==
    /\ pc[p] = "probing" => /\ now <= MaxWait + Deadline + Asleep - 1
                            /\ due[p] <= MaxWait + Deadline + Asleep - 1
    /\ pc[p] = "sleeping" => /\ now <= MaxWait + Deadline + Interval + Asleep - 1
                             /\ due[p] <= MaxWait + Deadline + Interval + Asleep - 1

WatchdogInTime ==
    watch.pc = "sleeping" => /\ now <= MaxWait + Interval + Asleep - 1
                             /\ watch.due <= MaxWait + Interval + Asleep - 1

(* A long pause that began before the watchdog's last wake-up lies within a *)
(* recorded one.                                                            *)
PausesSeen ==
    \A s \in suspended :
        s[2] - s[1] > Slack + Interval /\ s[1] < watch.lastWall =>
            \E r \in pauses : r[1] <= s[1] /\ s[2] <= r[2]

(* Until the next pause the watchdog is at most one interval from its last  *)
(* wake-up; after it, at most that and the pauses.                          *)
PausesPaid ==
    /\ Believed <= Asleep + Allowance
    /\ watch.pc = "sleeping" =>
          \/ now <= watch.lastWall + Interval /\ watch.due <= watch.lastWall + Interval
          \/ /\ Believed + (now - watch.lastWall) <= Asleep + Allowance
             /\ Believed + (watch.due - watch.lastWall) <= Asleep + Allowance

PauseInv ==
    /\ PausesOver /\ PausesSeen /\ PausesPaid
    /\ WatchdogInTime /\ \A p \in Paths : LoopInTime(p)

LEMMA PauseNats ==
  ASSUME TypeOK, PausesOver
  PROVE  Asleep \in Nat /\ Believed \in Nat /\ Allowance \in Nat /\ now \in Nat
           /\ watch.lastWall \in Nat /\ watch.due \in Nat
  <1>1. now \in Nat /\ watch.lastWall \in Nat /\ watch.due \in Nat
    BY DEF TypeOK
  <1>2. Cardinality(suspended) \in Nat
    BY FS_CardinalityType DEF PausesOver, Spans
  <1>3. Allowance \in Nat
    BY <1>2, Constants DEF Allowance
  <1> QED  BY <1>1, <1>3, SpansMeasured DEF PausesOver, Asleep, Believed

LEMMA PauseInit == Init => PauseInv
  <1> SUFFICES ASSUME Init PROVE PauseInv
    OBVIOUS
  <1>1. Spans({}, 0)
    BY FS_EmptySet DEF Spans
  <1>2. /\ now = 0 /\ watch.lastWall = 0 /\ watch.due = Interval
        /\ suspended = {} /\ pauses = {} /\ main = "operation"
    BY DEF Init
  <1>3. Asleep = 0 /\ Believed = 0 /\ Allowance = 0
    BY <1>2, TotalEmpty, FS_EmptySet, Constants DEF Asleep, Believed, Allowance
  <1>4. PausesOver /\ PausesSeen
    BY <1>1, <1>2 DEF PausesOver, PausesSeen
  <1>5. PausesPaid
    BY <1>2, <1>3, Constants DEF PausesPaid
  <1>6. WatchdogInTime /\ \A p \in Paths : LoopInTime(p)
    BY <1>2, <1>3, Constants, WaitAssumption DEF WatchdogInTime, LoopInTime, Init
  <1> QED  BY <1>4, <1>5, <1>6 DEF PauseInv

(* Steps of a path. *)
LEMMA PausePath ==
  ASSUME TypeOK, PauseInv, NEW p \in Paths, PathStep(p)
  PROVE  PauseInv'
  <1>1. UNCHANGED <<now, suspended, watch, pauses, main, endMs>>
    BY DEF PathStep, ProbeAnswers, ProbeDeadline, PathWakes, Record,
           clockVars, watchVars, mainVars
  <1>2. Asleep' = Asleep /\ Believed' = Believed /\ Allowance' = Allowance
    BY <1>1 DEF Asleep, Believed, Allowance
  <1>3. PausesOver' /\ PausesSeen' /\ PausesPaid' /\ WatchdogInTime'
    BY <1>1, <1>2 DEF PauseInv, PausesOver, PausesSeen, PausesPaid, WatchdogInTime
  <1>4. Asleep \in Nat /\ now \in Nat
    BY PauseNats DEF PauseInv
  <1>5. LoopInTime(p)'
    <2>1. CASE pc[p] = "probing"
      <3>1. pc'[p] = "sleeping" /\ due'[p] = now + Interval
        BY <2>1 DEF PathStep, ProbeAnswers, ProbeDeadline, PathWakes, Record, TypeOK
      <3>2. now <= MaxWait + Deadline + Asleep - 1
        BY <2>1 DEF PauseInv, LoopInTime
      <3> QED  BY <1>1, <1>2, <1>4, <3>1, <3>2, Constants DEF LoopInTime
    <2>2. CASE pc[p] # "probing"
      <3>1. PathWakes(p)
        BY <2>2 DEF PathStep, ProbeAnswers, ProbeDeadline
      <3>2. CASE KeepGoing
        <4>1. pc'[p] = "probing" /\ due'[p] = now + Deadline /\ now < MaxWait
          BY <3>1, <3>2 DEF PathWakes, StartProbe, KeepGoing, TypeOK
        <4> QED  BY <1>1, <1>2, <1>4, <4>1, Constants DEF LoopInTime
      <3>3. CASE ~KeepGoing
        <4>1. pc'[p] = "done"
          BY <3>1, <3>3 DEF PathWakes, TypeOK
        <4> QED  BY <4>1 DEF LoopInTime
      <3> QED  BY <3>2, <3>3
    <2> QED  BY <2>1, <2>2
  <1>6. ASSUME NEW q \in Paths, q # p PROVE LoopInTime(q)'
    <2>1. pc'[q] = pc[q] /\ due'[q] = due[q]
      BY <1>6 DEF PathStep, ProbeAnswers, ProbeDeadline, PathWakes, Record,
                  StartProbe, TypeOK
    <2> QED  BY <1>1, <1>2, <2>1 DEF PauseInv, LoopInTime
  <1> QED  BY <1>3, <1>5, <1>6 DEF PauseInv

(* The watchdog wakes: what it records pays for itself, since without a     *)
(* pause it is never late.                                                  *)
LEMMA PauseWatchdog ==
  ASSUME TypeOK, PauseInv, WatchdogWakes
  PROVE  PauseInv'
  <1>1. UNCHANGED <<now, suspended, main, endMs, pc, due>>
    BY DEF WatchdogWakes, clockVars, mainVars, pathVars
  <1>2. /\ watch.pc = "sleeping" /\ watch'.lastWall = now /\ watch'.due = now + Interval
        /\ watch'.pc = "sleeping" => now < MaxWait
        /\ pauses' = pauses \cup LatePause
    BY DEF WatchdogWakes, WatchdogRearm, KeepGoing
  <1>3. Asleep' = Asleep /\ Allowance' = Allowance
    BY <1>1 DEF Asleep, Allowance
  <1>4. /\ Asleep \in Nat /\ Believed \in Nat /\ Allowance \in Nat /\ now \in Nat
        /\ watch.lastWall \in Nat /\ watch.lastWall <= now /\ watch.due \in Nat
    BY PauseNats DEF PauseInv, PausesOver
  <1>5. Spans(pauses, watch.lastWall) /\ Spans(suspended, now)
    BY DEF PauseInv, PausesOver
  <1>6. \A p \in Paths : LoopInTime(p)'
    BY <1>1, <1>3 DEF PauseInv, LoopInTime
  <1>7. WatchdogInTime'
    BY <1>1, <1>2, <1>3, <1>4, Constants DEF WatchdogInTime
  <1>8. CASE now - watch.lastWall - Interval > Slack
    <2>1. pauses' = pauses \cup {<<watch.lastWall, now>>} /\ watch.lastWall < now
      BY <1>2, <1>4, <1>8, Constants DEF LatePause
    <2>2. Spans(pauses', now) /\ Believed' = Believed + (now - watch.lastWall)
      BY <1>2, <1>4, <1>5, <2>1, SpansAdd DEF Believed
    <2>3. PausesOver'
      BY <1>1, <1>2, <1>4, <1>5, <2>2 DEF PausesOver, PauseInv
    <2>4. PausesSeen'
      <3>1. ASSUME NEW s \in suspended, s[2] - s[1] > Slack + Interval, s[1] < now
            PROVE  \E r \in pauses' : r[1] <= s[1] /\ s[2] <= r[2]
        <4>1. s \in Nat \X Nat /\ s[2] <= now
          BY <1>5 DEF Spans
        <4>2. CASE s[1] < watch.lastWall
          BY <2>1, <3>1, <4>2 DEF PauseInv, PausesSeen
        <4>3. CASE ~(s[1] < watch.lastWall)
          <5> DEFINE r == <<watch.lastWall, now>>
          <5>1. r \in pauses' /\ r[1] <= s[1] /\ s[2] <= r[2]
            BY <1>4, <2>1, <4>1, <4>3
          <5> QED  BY <5>1
        <4> QED  BY <4>2, <4>3
      <3> QED  BY <1>1, <1>2, <3>1 DEF PausesSeen
    <2>5. Believed + (now - watch.lastWall) <= Asleep + Allowance
      BY <1>2, <1>4, <1>8, Constants DEF PauseInv, PausesPaid
    <2>6. PausesPaid'
      BY <1>1, <1>2, <1>3, <1>4, <2>2, <2>5, Constants DEF PausesPaid
    <2> QED  BY <1>6, <1>7, <2>3, <2>4, <2>6 DEF PauseInv
  <1>9. CASE ~(now - watch.lastWall - Interval > Slack)
    <2>1. pauses' = pauses
      BY <1>2, <1>9 DEF LatePause
    <2>2. Spans(pauses', now) /\ Believed' = Believed
      <3>1. /\ Spans(pauses, now)
            /\ TotalOverlap(pauses, 0, now) = TotalOverlap(pauses, 0, watch.lastWall)
        BY <1>4, <1>5, SpansOver
      <3> QED  BY <1>2, <2>1, <3>1 DEF Believed
    <2>3. PausesOver'
      BY <1>1, <1>2, <1>4, <1>5, <2>1, <2>2 DEF PausesOver, PauseInv
    <2>4. PausesSeen'
      <3>1. ASSUME NEW s \in suspended, s[2] - s[1] > Slack + Interval, s[1] < now
            PROVE  s[1] < watch.lastWall
        <4>1. s \in Nat \X Nat /\ s[2] <= now
          BY <1>5 DEF Spans
        <4> QED  BY <1>4, <1>9, <3>1, <4>1, Constants
      <3> QED  BY <1>1, <1>2, <2>1, <3>1 DEF PauseInv, PausesSeen
    <2>5. PausesPaid'
      BY <1>1, <1>2, <1>3, <1>4, <2>2, Constants DEF PauseInv, PausesPaid
    <2> QED  BY <1>6, <1>7, <2>3, <2>4, <2>5 DEF PauseInv
  <1> QED  BY <1>8, <1>9

(* Time passes when nothing is due. *)
LEMMA PauseTick ==
  ASSUME TypeOK, PauseInv, Tick
  PROVE  PauseInv'
  <1>1. UNCHANGED <<suspended, watch, pauses, main, pc, due>> /\ now' = now + 1 /\ main # "returned"
    BY DEF Tick, pathVars, watchVars, mainVars, Finished
  <1>2. /\ watch.pc = "sleeping" => now + 1 <= watch.due
        /\ \A p \in Paths : pc[p] # "done" => now + 1 <= due[p]
    BY DEF Tick, NothingDue, TypeOK
  <1>3. /\ Asleep \in Nat /\ Believed \in Nat /\ Allowance \in Nat /\ now \in Nat
        /\ watch.lastWall \in Nat /\ watch.due \in Nat
    BY PauseNats DEF PauseInv
  <1>4. Spans(suspended, now + 1) /\ Asleep' = Asleep
    BY <1>1, <1>3, SpansOver DEF PauseInv, PausesOver, Asleep
  <1>5. Believed' = Believed /\ Allowance' = Allowance
    BY <1>1 DEF Believed, Allowance
  <1>6. PausesOver' /\ PausesSeen'
    BY <1>1, <1>3, <1>4 DEF PauseInv, PausesOver, PausesSeen
  <1>7. PausesPaid'
    BY <1>1, <1>2, <1>3, <1>4, <1>5, Constants DEF PauseInv, PausesPaid
  <1>8. WatchdogInTime'
    BY <1>1, <1>2, <1>3, <1>4, Constants DEF PauseInv, WatchdogInTime
  <1>9. ASSUME NEW p \in Paths PROVE LoopInTime(p)'
    <2>1. due[p] \in Nat /\ LoopInTime(p)
      BY DEF TypeOK, PauseInv
    <2> QED  BY <1>1, <1>2, <1>3, <1>4, <2>1, Constants DEF LoopInTime
  <1> QED  BY <1>6, <1>7, <1>8, <1>9 DEF PauseInv

(* The host is paused: the pauses grow by what the clock and at most the    *)
(* timers gain.                                                             *)
LEMMA PausePauses ==
  ASSUME TypeOK, PauseInv, HostSleeps \/ LoopBlocked
  PROVE  PauseInv'
  <1>1. PICK d \in SuspendLengths :
          /\ Paused(d)
          /\ UNCHANGED <<pc, pauses, main>>
          /\ watch'.pc = watch.pc /\ watch'.lastWall = watch.lastWall
          /\ watch'.due \in {watch.due, watch.due + d}
          /\ \A p \in Paths : due'[p] \in {due[p], due[p] + d}
    BY DEF HostSleeps, LoopBlocked, TypeOK, pathVars, watchVars, mainVars
  <1>2. /\ d \in Nat /\ d > 0 /\ main # "returned" /\ now' = now + d
        /\ suspended' = suspended \cup {<<now, now + d>>}
    BY <1>1, SuspendAssumption DEF Paused, Finished
  <1>3. /\ Asleep \in Nat /\ Believed \in Nat /\ Allowance \in Nat /\ now \in Nat
        /\ watch.lastWall \in Nat /\ watch.lastWall <= now /\ watch.due \in Nat
    BY PauseNats DEF PauseInv, PausesOver
  <1>4. Spans(suspended', now') /\ Asleep' = Asleep + d
          /\ Cardinality(suspended') = Cardinality(suspended) + 1
          /\ Cardinality(suspended) \in Nat
    <2>1. Spans(suspended, now) /\ now + d \in Nat /\ now < now + d
      BY <1>2, <1>3 DEF PauseInv, PausesOver
    <2> QED  BY <1>2, <1>3, <2>1, SpansAdd DEF Asleep
  <1>5. Allowance' = Allowance + Interval /\ Believed' = Believed
    BY <1>1, <1>4, Constants DEF Allowance, Believed
  <1>6. PausesOver'
    BY <1>1, <1>2, <1>3, <1>4 DEF PauseInv, PausesOver
  <1>7. PausesSeen'
    <2>1. ASSUME NEW s \in suspended', s[1] < watch.lastWall PROVE s \in suspended
      BY <1>2, <1>3, <2>1
    <2> QED  BY <1>1, <2>1 DEF PauseInv, PausesSeen
  <1>8. PausesPaid'
    BY <1>1, <1>2, <1>3, <1>4, <1>5, Constants DEF PauseInv, PausesPaid
  <1>9. WatchdogInTime'
    BY <1>1, <1>2, <1>3, <1>4, Constants DEF PauseInv, WatchdogInTime
  <1>10. ASSUME NEW p \in Paths PROVE LoopInTime(p)'
    <2>1. due[p] \in Nat /\ LoopInTime(p) /\ due'[p] \in {due[p], due[p] + d}
      BY <1>1 DEF TypeOK, PauseInv
    <2> QED  BY <1>1, <1>2, <1>3, <1>4, <2>1, Constants DEF LoopInTime
  <1> QED  BY <1>6, <1>7, <1>8, <1>9, <1>10 DEF PauseInv

LEMMA PauseStep ==
  ASSUME TypeOK, PauseInv, [Next]_vars
  PROVE  PauseInv'
  <1>1. ASSUME UNCHANGED <<now, suspended, watch, pauses, pc, due>>, PausesOver'
        PROVE  PauseInv'
    <2>1. Asleep' = Asleep /\ Believed' = Believed /\ Allowance' = Allowance
      BY <1>1 DEF Asleep, Believed, Allowance
    <2> QED
      BY <1>1, <2>1 DEF PauseInv, PausesSeen, PausesPaid, WatchdogInTime, LoopInTime
  <1>2. ASSUME MainStep PROVE PauseInv'
    <2>1. /\ UNCHANGED <<now, suspended, watch, pauses, pc, due>>
          /\ main' = "returned" => endMs' = now
      BY <1>2 DEF MainStep, OperationSucceeds, OperationThrows, WatchdogAwaited,
                  LoopsAwaited, Rethrows, clockVars, pathVars, watchVars
    <2> QED  BY <1>1, <2>1 DEF PauseInv, PausesOver
  <1>3. ASSUME UNCHANGED vars PROVE PauseInv'
    BY <1>1, <1>3 DEF vars, clockVars, pathVars, watchVars, mainVars, PauseInv, PausesOver
  <1> QED
    BY <1>2, <1>3, PausePath, PauseWatchdog, PauseTick, PausePauses DEF Next, Ended

(* maxWaitMs is a hard stop: one deadline and one interval after it, host   *)
(* pauses aside, every loop and the watchdog have ended, for any paths,     *)
(* options and pauses.                                                      *)
THEOREM SamplingStops == Spec => []HardStop
  <1>1. TypeOK /\ PauseInv => HardStop
    <2> SUFFICES ASSUME TypeOK, PauseInv,
                        now >= MaxWait + Deadline + Interval + Asleep
                 PROVE  watch.pc = "done" /\ \A p \in Paths : pc[p] = "done"
      BY DEF HardStop, Asleep
    <2>1. Asleep \in Nat /\ now \in Nat
      BY PauseNats DEF PauseInv
    <2>2. watch.pc # "sleeping"
      BY <2>1, Constants DEF PauseInv, WatchdogInTime
    <2>3. \A p \in Paths : pc[p] # "probing" /\ pc[p] # "sleeping"
      BY <2>1, Constants DEF PauseInv, LoopInTime
    <2> QED  BY <2>2, <2>3 DEF TypeOK, WatchPCs, PathPCs
  <1> QED
    BY TypeInit, TypeStep, PauseInit, PauseStep, <1>1, PTL DEF Spec

(* pausedMs of every path holds each long pause inside the path's window    *)
(* that the watchdog lived to see, and nothing but pauses and an interval   *)
(* for each, however pauses, wake-ups and probes interleave.                *)
THEOREM PausesReported == Spec => []PausedReported
  <1>1. TypeOK /\ PauseInv => PausedReported
    <2> SUFFICES ASSUME TypeOK, PauseInv, main = "returned", NEW p \in Paths
                 PROVE  /\ \A s \in suspended :
                             s[2] - s[1] > Slack + Interval /\ s[1] < watch.lastWall
                               => PausedMs(p) >= Overlap(s, 0, WindowEnd(p))
                        /\ PausedMs(p) <= TotalOverlap(suspended, 0, endMs)
                                            + Interval * Cardinality(suspended)
      BY DEF PausedReported
    <2>1. endMs = now /\ Spans(pauses, watch.lastWall) /\ Spans(suspended, now)
      BY DEF PauseInv, PausesOver
    <2>2. /\ Asleep \in Nat /\ Believed \in Nat /\ Allowance \in Nat /\ now \in Nat
          /\ watch.lastWall \in Nat
      BY PauseNats DEF PauseInv
    <2> DEFINE e == WindowEnd(p)
    <2>3. e \in Nat
      BY <2>1, <2>2 DEF WindowEnd, TypeOK, Times
    <2>4. PausedMs(p) = TotalOverlap(pauses, 0, e)
      BY DEF PausedMs
    <2> HIDE DEF e
    <2>5. /\ Measured(pauses, e) /\ TotalOverlap(pauses, 0, e) \in Nat
          /\ TotalOverlap(pauses, 0, e) <= Believed
      BY <2>1, <2>2, <2>3, SpansMeasured DEF Believed
    <2>6. PausedMs(p) <= Asleep + Allowance
      BY <2>2, <2>4, <2>5 DEF PauseInv, PausesPaid
    <2>7. ASSUME NEW s \in suspended, s[2] - s[1] > Slack + Interval, s[1] < watch.lastWall
          PROVE  PausedMs(p) >= Overlap(s, 0, e)
      <3>1. PICK r \in pauses : r[1] <= s[1] /\ s[2] <= r[2]
        BY <2>7 DEF PauseInv, PausesSeen
      <3>2. s \in Nat \X Nat /\ r \in Nat \X Nat /\ s[1] < s[2] /\ r[1] < r[2]
        BY <2>1 DEF Spans
      <3>3. Overlap(s, 0, e) <= Overlap(r, 0, e) /\ Overlap(s, 0, e) \in Nat /\ Overlap(r, 0, e) \in Nat
        BY <2>3, <3>1, <3>2 DEF Overlap
      <3>4. Overlap(r, 0, e) <= TotalOverlap(pauses, 0, e)
        BY <2>1, <2>5, TotalAtLeast DEF Spans
      <3> QED  BY <2>4, <2>5, <3>3, <3>4
    <2> QED  BY <2>1, <2>6, <2>7 DEF Asleep, Allowance, e
  <1> QED
    BY TypeInit, TypeStep, PauseInit, PauseStep, <1>1, PTL DEF Spec

-----------------------------------------------------------------------------
(* The early return. *)

(* Pauses aside, a probe is not older than the sample deadline. *)
Young(p) ==
    pc[p] = "probing" => /\ now <= at[p] + Deadline + Asleep
                         /\ due[p] <= at[p] + Deadline + Asleep

(* An outage of p without a recovery began about when the watchdog decided. *)
OpenIsLate(p) ==
    firstFail[p] # None /\ recovered[p] = None =>
        firstFail[p] + Deadline + Asleep >= watch.lastWall

(* Before maxWaitMs the watchdog has ended only when every outage it could  *)
(* know of was over, so the open ones were recorded later, by probes that   *)
(* were on their way at most a deadline.                                    *)
EarlyInv ==
    /\ \A p \in Paths : Young(p)
    /\ main \in {"operation", "watchdog", "loops", "returned"} /\ watch.pc = "done" =>
          now >= MaxWait \/ \A p \in Paths : OpenIsLate(p)

LEMMA EarlyInit == Init => EarlyInv
  <1> SUFFICES ASSUME Init PROVE EarlyInv
    OBVIOUS
  <1>1. Asleep = 0
    BY TotalEmpty DEF Init, Asleep
  <1> QED  BY <1>1, Constants DEF Init, EarlyInv, Young

LEMMA EarlyPath ==
  ASSUME TypeOK, EndInv, PauseInv, EarlyInv, NEW p \in Paths, PathStep(p)
  PROVE  EarlyInv'
  <1>1. UNCHANGED <<now, suspended, watch, main>> /\ Asleep' = Asleep
    BY DEF PathStep, ProbeAnswers, ProbeDeadline, PathWakes, Record,
           clockVars, watchVars, mainVars, Asleep
  <1>2. /\ Asleep \in Nat /\ now \in Nat /\ watch.lastWall \in Nat /\ watch.lastWall <= now
        /\ at[p] \in Nat
    BY PauseNats DEF PauseInv, PausesOver, TypeOK
  <1>3. ASSUME NEW q \in Paths, q # p
        PROVE  /\ pc'[q] = pc[q] /\ due'[q] = due[q] /\ at'[q] = at[q]
               /\ firstFail'[q] = firstFail[q] /\ recovered'[q] = recovered[q]
    BY <1>3 DEF PathStep, ProbeAnswers, ProbeDeadline, PathWakes, Record, RecordSuccess,
                RecordFailure, StartProbe, TypeOK
  <1>4. CASE pc[p] = "probing"
    <2>1. PICK ok \in BOOLEAN : Record(p, ok)
      BY <1>4 DEF PathStep, ProbeAnswers, ProbeDeadline, PathWakes
    <2>2. pc'[p] = "sleeping"
      BY <2>1 DEF Record, TypeOK
    <2>3. /\ firstFail'[p] \in {firstFail[p], at[p]}
          /\ firstFail[p] # None => firstFail'[p] = firstFail[p]
          /\ recovered[p] # None => recovered'[p] = recovered[p]
      <3>1. CASE ok
        BY <2>1, <3>1 DEF Record, RecordSuccess, TypeOK
      <3>2. CASE ~ok
        BY <2>1, <3>2 DEF Record, RecordFailure, TypeOK
      <3> QED  BY <3>1, <3>2
    <2>4. at[p] + Deadline + Asleep >= watch.lastWall
      BY <1>2, <1>4, Constants DEF EarlyInv, Young
    <2>5. ASSUME OpenIsLate(p) PROVE OpenIsLate(p)'
      BY <1>1, <2>3, <2>4, <2>5 DEF OpenIsLate
    <2>6. ASSUME NEW q \in Paths, OpenIsLate(q) PROVE OpenIsLate(q)'
      BY <1>1, <1>3, <2>5, <2>6 DEF OpenIsLate
    <2>7. \A q \in Paths : Young(q)'
      BY <1>1, <1>3, <2>2 DEF EarlyInv, Young
    <2> QED  BY <1>1, <2>6, <2>7 DEF EarlyInv
  <1>5. CASE pc[p] # "probing"
    <2>1. UNCHANGED <<firstFail, recovered>> /\ PathWakes(p)
      BY <1>5 DEF PathStep, ProbeAnswers, ProbeDeadline, PathWakes
    <2>2. Young(p)'
      <3>1. CASE KeepGoing
        <4>1. due'[p] = now + Deadline /\ at'[p] = now
          BY <2>1, <3>1 DEF PathWakes, StartProbe, TypeOK
        <4> QED  BY <1>1, <1>2, <4>1, Constants DEF Young
      <3>2. CASE ~KeepGoing
        BY <2>1, <3>2 DEF PathWakes, Young, TypeOK
      <3> QED  BY <3>1, <3>2
    <2>3. \A q \in Paths : Young(q)'
      BY <1>1, <1>3, <2>2 DEF EarlyInv, Young
    <2>4. \A q \in Paths : OpenIsLate(q) => OpenIsLate(q)'
      BY <1>1, <2>1 DEF OpenIsLate
    <2> QED  BY <1>1, <2>3, <2>4 DEF EarlyInv
  <1> QED  BY <1>4, <1>5

LEMMA EarlyWatchdog ==
  ASSUME TypeOK, EndInv, PauseInv, EarlyInv, WatchdogWakes
  PROVE  EarlyInv'
  <1>1. UNCHANGED <<now, suspended, main, stop, pc, due, at, firstFail, recovered>>
          /\ Asleep' = Asleep
    BY DEF WatchdogWakes, clockVars, mainVars, pathVars, Asleep
  <1>2. /\ watch'.pc = IF KeepGoing /\ ~OutageOver THEN "sleeping" ELSE "done"
        /\ watch.pc = "sleeping"
    BY DEF WatchdogWakes, WatchdogRearm
  <1>3. \A p \in Paths : Young(p)'
    BY <1>1 DEF EarlyInv, Young
  <1>4. main \in {"operation", "watchdog", "loops", "returned"} => ~stop
    BY <1>2 DEF EndInv
  <1>5. OutageOver => \A p \in Paths : OpenIsLate(p)'
    BY <1>1 DEF OutageOver, AllSettled, OpenIsLate
  <1> QED  BY <1>1, <1>2, <1>3, <1>4, <1>5, Constants DEF EarlyInv, KeepGoing, TypeOK

LEMMA EarlyTime ==
  ASSUME TypeOK, PauseInv, EarlyInv, Tick \/ HostSleeps \/ LoopBlocked
  PROVE  EarlyInv'
  <1>1. /\ UNCHANGED <<main, pc, at, firstFail, recovered>>
        /\ watch'.pc = watch.pc /\ watch'.lastWall = watch.lastWall
    BY DEF Tick, HostSleeps, LoopBlocked, mainVars, pathVars, watchVars, TypeOK
  <1>2. PICK d \in Nat :
          /\ now' \in Nat /\ now' >= now /\ Asleep' = Asleep + d
          /\ \A p \in Paths : due'[p] \in Nat
          /\ \A p \in Paths : pc[p] = "probing" =>
                \/ now' <= now + d /\ due'[p] <= due[p] + d
                \/ now' <= due[p] /\ due'[p] = due[p]
    <2>1. Spans(suspended, now) /\ now \in Nat /\ Asleep \in Nat /\ \A p \in Paths : due[p] \in Nat
      BY PauseNats DEF PauseInv, PausesOver, TypeOK
    <2>2. CASE Tick
      <3>1. /\ now' = now + 1 /\ suspended' = suspended /\ due' = due
            /\ \A p \in Paths : pc[p] = "probing" => now + 1 <= due[p]
        BY <2>1, <2>2 DEF Tick, NothingDue, pathVars
      <3>2. Asleep' = Asleep
        BY <2>1, <3>1, SpansOver DEF Asleep
      <3>3. /\ now' \in Nat /\ now' >= now /\ Asleep' = Asleep + 0
            /\ \A p \in Paths : due'[p] \in Nat
            /\ \A p \in Paths : pc[p] = "probing" => now' <= due[p] /\ due'[p] = due[p]
        BY <2>1, <3>1, <3>2
      <3>4. 0 \in Nat
        OBVIOUS
      <3> QED  BY <3>3, <3>4
    <2>3. CASE HostSleeps \/ LoopBlocked
      <3>1. PICK d \in SuspendLengths :
              Paused(d) /\ \A p \in Paths : due'[p] \in {due[p], due[p] + d}
        BY <2>3 DEF HostSleeps, LoopBlocked, pathVars, TypeOK
      <3>2. d \in Nat /\ d > 0 /\ now' = now + d /\ suspended' = suspended \cup {<<now, now + d>>}
        BY <3>1, SuspendAssumption DEF Paused
      <3>3. Asleep' = Asleep + d
        <4>1. now + d \in Nat /\ now < now + d
          BY <2>1, <3>2
        <4> QED  BY <2>1, <3>2, <4>1, SpansAdd DEF Asleep
      <3> QED  BY <2>1, <3>1, <3>2, <3>3
    <2> QED  BY <2>2, <2>3
  <1>3. Asleep \in Nat /\ now \in Nat /\ watch.lastWall \in Nat
    BY PauseNats DEF PauseInv
  <1>4. ASSUME NEW p \in Paths PROVE Young(p)'
    <2>1. at[p] \in Nat /\ due[p] \in Nat /\ Young(p) /\ due'[p] \in Nat
      BY <1>2 DEF TypeOK, EarlyInv
    <2> QED  BY <1>1, <1>2, <1>3, <2>1, Constants DEF Young
  <1>5. ASSUME NEW p \in Paths, OpenIsLate(p) PROVE OpenIsLate(p)'
    <2>1. firstFail[p] # None => firstFail[p] \in Nat
      BY DEF TypeOK, Times
    <2> QED  BY <1>1, <1>2, <1>3, <1>5, <2>1, Constants DEF OpenIsLate
  <1>6. now >= MaxWait => now' >= MaxWait
    BY <1>2, <1>3, Constants
  <1> QED  BY <1>1, <1>4, <1>5, <1>6 DEF EarlyInv

LEMMA EarlyStep ==
  ASSUME TypeOK, EndInv, PauseInv, EarlyInv, [Next]_vars
  PROVE  EarlyInv'
  <1>1. ASSUME UNCHANGED <<now, suspended, watch, pc, at, due, firstFail, recovered>>,
               main' \in {"operation", "watchdog", "loops", "returned"} =>
                   main \in {"operation", "watchdog", "loops", "returned"}
        PROVE  EarlyInv'
    <2>1. Asleep' = Asleep
      BY <1>1 DEF Asleep
    <2> QED  BY <1>1, <2>1 DEF EarlyInv, Young, OpenIsLate
  <1>2. ASSUME MainStep PROVE EarlyInv'
    BY <1>1, <1>2 DEF MainStep, OperationSucceeds, OperationThrows, WatchdogAwaited,
                LoopsAwaited, Rethrows, clockVars, pathVars, watchVars
  <1>3. ASSUME UNCHANGED vars PROVE EarlyInv'
    BY <1>1, <1>3 DEF vars, clockVars, pathVars, watchVars, mainVars
  <1> QED
    BY <1>2, <1>3, EarlyPath, EarlyWatchdog, EarlyTime DEF Next, Ended

(* sampleDuring never returns before maxWaitMs unless some path went down   *)
(* and came back and every path left without a recovery began to fail after *)
(* the watchdog decided to stop or, pauses aside, at most a sample deadline *)
(* before, whatever the paths, the options and the host do.                 *)
THEOREM EarlyReturnIsEarned == Spec => []NullIsEarned
  <1>1. TypeOK /\ EndInv /\ PauseInv /\ EarlyInv => NullIsEarned
    <2> SUFFICES ASSUME TypeOK, EndInv, PauseInv, EarlyInv, main = "returned", endMs < MaxWait
                 PROVE  /\ \E p \in Paths : recovered[p] # None
                        /\ \A p \in Paths :
                              firstFail[p] # None /\ recovered[p] = None =>
                                  firstFail[p] + Deadline + TotalOverlap(suspended, 0, endMs)
                                      >= watch.lastWall
      BY DEF NullIsEarned
    <2>1. endMs = now /\ now \in Nat /\ watch.pc = "done"
      BY DEF PauseInv, PausesOver, TypeOK, EndInv
    <2>2. ~(now >= MaxWait)
      BY <2>1, Constants
    <2>3. \A p \in Paths : OpenIsLate(p)
      BY <2>1, <2>2 DEF EarlyInv
    <2> QED  BY <2>1, <2>2, <2>3 DEF EndInv, SomeRecovered, OpenIsLate, Asleep
  <1> QED
    BY TypeInit, TypeStep, EndInit, EndStep, PauseInit, PauseStep, EarlyInit, EarlyStep, <1>1, PTL
       DEF Spec
=============================================================================
