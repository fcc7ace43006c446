----------------------------- MODULE AgentProofs -----------------------------
(***************************************************************************)
(* Proofs about Decisions and Agent, for any sessions, requests, runs of   *)
(* the sink, runs of the function and tool calls.                          *)
(*                                                                         *)
(* DInv is the invariant of the database and the webhook: who holds a row, *)
(* and what a receipt implies about the runs of the sink.  AInv is that of *)
(* the page and the function; its heart counts, for each call, the runs    *)
(* that may still execute it against the confirmations that started them.  *)
(***************************************************************************)
EXTENDS Agent, FiniteSetTheorems, TLAPS

Users == {User[s] : s \in Sessions}
RequestRows ==
    [status : {"absent", "pending"} \cup Decided, by : Users \cup {None}, decidedBy : Users \cup {None}]
SinkRuns == [pc : SinkPCs, event : Events \cup {None}]

DTypes ==
    /\ request \in [Requests -> RequestRows]
    /\ txn \in [Sessions -> Events \cup {None}]
    /\ queue \subseteq Events
    /\ sink \in [Sinks -> SinkRuns]
    /\ deliveries \in [Events -> Nat] /\ slack \in [Events -> Nat]

(* A transaction that has updated a request holds its row: the request is   *)
(* pending, is not the user's own, and no other session has updated it.     *)
RowsHeld ==
    \A s \in Sessions : txn[s] # None =>
        /\ request[txn[s].req].status = "pending" /\ request[txn[s].req].by # User[s]
        /\ \A t \in Sessions \ {s} : txn[t] # None => txn[t].req # txn[s].req

(* Only a decided request has a decider, and he did not submit it. *)
DecidersApart ==
    \A r \in Requests :
        /\ request[r].status \notin Decided => request[r].decidedBy = None
        /\ request[r].decidedBy # None => request[r].decidedBy # request[r].by

(* At most one run forwards an event, and before it has, nothing is in      *)
(* Slack.                                                                   *)
OneForwards ==
    \A k \in Sinks :
        /\ sink[k].pc \in {"record", "forward"} <=> sink[k].event # None
        /\ sink[k].pc = "forward" =>
              /\ deliveries[sink[k].event] > 0 /\ slack[sink[k].event] = 0
              /\ \A l \in Sinks \ {k} : sink[l].pc = "forward" => sink[l].event # sink[k].event

(* Every delivery that is counted is one of a run that has got that far. *)
Recorded == {k \in Sinks : sink[k].pc \in {"forward", "over"}}
DeliveriesCounted == \A e \in Events : deliveries[e] <= Cardinality(Recorded)

DInv ==
    /\ DTypes /\ RowsHeld /\ DecidersApart /\ OneForwards /\ DeliveriesCounted
    /\ ToldTruth /\ SlackOnce

(* What DecisionsFinal says of a step. *)
FinalStep ==
    \A r \in Requests :
        /\ request[r].status \in Decided => request'[r] = request[r]
        /\ request'[r].decidedBy # None => request'[r].decidedBy # request'[r].by

(* A step of the database or the webhook. *)
DOK == DInv' /\ FinalStep

-----------------------------------------------------------------------------
(* The database. *)

LEMMA DInitially == ASSUME DecisionsInit PROVE DInv
<1> USE DEF DecisionsInit
<1>1. DTypes
    <2>1. request \in [Requests -> RequestRows]
        BY DEF RequestRows
    <2>2. sink \in [Sinks -> SinkRuns]
        BY DEF SinkRuns, SinkPCs
    <2> QED  BY <2>1, <2>2 DEF DTypes
<1>2. RowsHeld
    BY DEF RowsHeld
<1>3. DecidersApart
    BY DEF DecidersApart
<1>4. OneForwards
    BY DEF OneForwards
<1>5. DeliveriesCounted
    <2>1. IsFiniteSet(Recorded)
        BY SinksAssumption, FS_Subset DEF Recorded
    <2>2. Cardinality(Recorded) \in Nat
        BY <2>1, FS_CardinalityType
    <2> QED  BY <2>2 DEF DeliveriesCounted
<1>6. ToldTruth
    BY EventsAssumption DEF ToldTruth
<1>7. SlackOnce
    BY DEF SlackOnce
<1> QED  BY <1>1, <1>2, <1>3, <1>4, <1>5, <1>6, <1>7 DEF DInv

(* The webhook is left alone. *)
LEMMA HookStill ==
    ASSUME DInv, UNCHANGED <<sink, deliveries, slack>>
    PROVE  OneForwards' /\ DeliveriesCounted' /\ SlackOnce'
BY DEF DInv, OneForwards, DeliveriesCounted, Recorded, SlackOnce

(* Nothing is changed. *)
LEMMA DStill == ASSUME DInv, UNCHANGED <<tables, hook>> PROVE DOK
<1> USE DEF tables, hook
<1>1. DTypes' /\ RowsHeld' /\ DecidersApart' /\ ToldTruth'
    BY DEF DInv, DTypes, RowsHeld, DecidersApart, ToldTruth
<1>2. FinalStep
    BY DEF FinalStep, DInv, DecidersApart
<1> QED  BY <1>1, <1>2, HookStill DEF DInv, DOK

LEMMA SubmitKeeps ==
    ASSUME DInv, NEW s \in Sessions, NEW r \in Requests, Submit(s, r) PROVE DOK
<1> DEFINE row == [request[r] EXCEPT !.status = "pending", !.by = User[s]]
<1>1. /\ request[r].status = "absent" /\ request' = [request EXCEPT ![r] = row]
      /\ UNCHANGED <<txn, queue, sink, deliveries, slack>>
    BY DEF Submit, hook, DInv, DTypes
<1>2. request[r] \in RequestRows
    BY DEF DInv, DTypes
<1>3. row \in RequestRows /\ row.status = "pending" /\ row.decidedBy = request[r].decidedBy
    BY <1>2 DEF RequestRows, Users
<1>4. request[r].decidedBy = None
    BY <1>1 DEF DInv, DecidersApart, Decided
<1> HIDE DEF row
<1>5. \A q \in Requests : request'[q] = IF q = r THEN row ELSE request[q]
    BY <1>1 DEF DInv, DTypes
<1>6. DTypes'
    BY <1>1, <1>3 DEF DInv, DTypes
<1>7. RowsHeld'
    <2>1. ASSUME NEW t \in Sessions, txn[t] # None PROVE txn[t].req \in Requests /\ txn[t].req # r
        BY <1>1, <2>1 DEF DInv, DTypes, RowsHeld, Events
    <2> QED  BY <1>1, <1>5, <2>1 DEF DInv, RowsHeld
<1>8. DecidersApart'
    BY <1>3, <1>4, <1>5 DEF DInv, DecidersApart
<1>9. ToldTruth'
    <2>1. ASSUME NEW e \in Events, request[e.req].status = e.status
          PROVE  request'[e.req].status = e.status
        BY <1>1, <1>5, <2>1 DEF Events, Decided
    <2> QED  BY <1>1, <2>1 DEF DInv, ToldTruth
<1>10. FinalStep
    BY <1>1, <1>3, <1>4, <1>5 DEF FinalStep, Decided, DInv, DecidersApart
<1> QED  BY <1>1, <1>6, <1>7, <1>8, <1>9, <1>10, HookStill DEF DInv, DOK

LEMMA UpdateKeeps ==
    ASSUME DInv, NEW s \in Sessions, NEW r \in Requests, NEW d \in Decided, Update(s, r, d)
    PROVE  DOK
<1> DEFINE e == [req |-> r, status |-> d]
<1>1. /\ txn[s] = None /\ Unlocked(s, r) /\ MayDecide(s, r) /\ txn' = [txn EXCEPT ![s] = e]
      /\ UNCHANGED <<request, queue, sink, deliveries, slack>>
    BY DEF Update, hook
<1>2. e \in Events /\ e.req = r
    BY DEF Events
<1> HIDE DEF e
<1>3. DTypes'
    BY <1>1, <1>2 DEF DInv, DTypes
<1>4. RowsHeld'
    <2>1. \A t \in Sessions : txn'[t] = IF t = s THEN e ELSE txn[t]
        BY <1>1 DEF DInv, DTypes
    <2>2. \A t \in Sessions \ {s} : txn[t] # None => txn[t].req # r
        BY <1>1 DEF Unlocked
    <2>3. ASSUME NEW t \in Sessions, txn'[t] # None
          PROVE  /\ request[txn'[t].req].status = "pending" /\ request[txn'[t].req].by # User[t]
                 /\ \A u \in Sessions \ {t} : txn'[u] # None => txn'[u].req # txn'[t].req
        <3>1. CASE t = s
            BY <1>1, <1>2, <2>1, <2>2, <3>1 DEF MayDecide
        <3>2. CASE t # s
            BY <1>2, <2>1, <2>2, <2>3, <3>2 DEF DInv, RowsHeld
        <3> QED  BY <3>1, <3>2
    <2> QED  BY <1>1, <2>3 DEF RowsHeld
<1>5. DecidersApart' /\ ToldTruth'
    BY <1>1 DEF DInv, DecidersApart, ToldTruth
<1>6. FinalStep
    BY <1>1 DEF FinalStep, DInv, DecidersApart
<1> QED  BY <1>1, <1>3, <1>4, <1>5, <1>6, HookStill DEF DInv, DOK

LEMMA CommitKeeps == ASSUME DInv, NEW s \in Sessions, Commit(s) PROVE DOK
<1> DEFINE e == txn[s]
<1> DEFINE row == [request[e.req] EXCEPT !.status = e.status, !.decidedBy = User[s]]
<1>1. e # None /\ e \in Events /\ e.req \in Requests /\ e.status \in Decided
    BY DEF Commit, DInv, DTypes, Events
<1>2. /\ request' = [request EXCEPT ![e.req] = row]
      /\ txn' = [txn EXCEPT ![s] = None] /\ queue' = queue \cup {e}
      /\ UNCHANGED <<sink, deliveries, slack>>
    BY <1>1 DEF Commit, DInv, DTypes
<1>3. request[e.req] \in RequestRows
    BY <1>1 DEF DInv, DTypes
<1>4. /\ row \in RequestRows /\ row.status = e.status /\ row.decidedBy = User[s]
      /\ row.by = request[e.req].by
    BY <1>1, <1>3 DEF RequestRows, Users
<1>5. /\ request[e.req].status = "pending" /\ request[e.req].by # User[s]
      /\ \A t \in Sessions \ {s} : txn[t] # None => txn[t].req # e.req
    BY <1>1 DEF DInv, RowsHeld
<1> HIDE DEF row, e
<1>6. \A q \in Requests : request'[q] = IF q = e.req THEN row ELSE request[q]
    BY <1>1, <1>2 DEF DInv, DTypes
<1>7. DTypes'
    BY <1>1, <1>2, <1>4 DEF DInv, DTypes
<1>8. RowsHeld'
    <2>1. \A t \in Sessions : txn'[t] = IF t = s THEN None ELSE txn[t]
        BY <1>2 DEF DInv, DTypes
    <2>2. ASSUME NEW t \in Sessions, txn'[t] # None
          PROVE  /\ request'[txn'[t].req].status = "pending" /\ request'[txn'[t].req].by # User[t]
                 /\ \A u \in Sessions \ {t} : txn'[u] # None => txn'[u].req # txn'[t].req
        <3>1. t # s /\ txn'[t] = txn[t]
            BY <2>1, <2>2
        <3>2. txn[t].req \in Requests /\ txn[t].req # e.req
            BY <1>5, <2>2, <3>1 DEF DInv, DTypes, Events
        <3> QED  BY <1>6, <2>1, <2>2, <3>1, <3>2 DEF DInv, RowsHeld
    <2> QED  BY <2>2 DEF RowsHeld
<1>9. DecidersApart'
    BY <1>1, <1>4, <1>5, <1>6 DEF DInv, DecidersApart
<1>10. ToldTruth'
    <2>1. ASSUME NEW f \in Events, request[f.req].status = f.status
          PROVE  request'[f.req].status = f.status
        BY <1>5, <1>6, <2>1 DEF Events, Decided
    <2>2. request'[e.req].status = e.status
        BY <1>1, <1>4, <1>6
    <2> QED  BY <1>2, <2>1, <2>2 DEF DInv, ToldTruth
<1>11. FinalStep
    BY <1>4, <1>5, <1>6 DEF FinalStep, Decided, DInv, DecidersApart
<1> QED  BY <1>2, <1>7, <1>8, <1>9, <1>10, <1>11, HookStill DEF DInv, DOK

LEMMA RollbackKeeps == ASSUME DInv, NEW s \in Sessions, Rollback(s) PROVE DOK
<1>1. /\ txn' = [txn EXCEPT ![s] = None]
      /\ UNCHANGED <<request, queue, sink, deliveries, slack>>
    BY DEF Rollback, hook
<1>2. DTypes'
    BY <1>1 DEF DInv, DTypes
<1>3. RowsHeld'
    <2>1. \A t \in Sessions : txn'[t] = IF t = s THEN None ELSE txn[t]
        BY <1>1 DEF DInv, DTypes
    <2> QED  BY <1>1, <2>1 DEF DInv, RowsHeld
<1>4. DecidersApart' /\ ToldTruth'
    BY <1>1 DEF DInv, DecidersApart, ToldTruth
<1>5. FinalStep
    BY <1>1 DEF FinalStep, DInv, DecidersApart
<1> QED  BY <1>1, <1>2, <1>3, <1>4, <1>5, HookStill DEF DInv, DOK

-----------------------------------------------------------------------------
(* Delivery and the sink. *)

(* The database is left alone. *)
LEMMA TablesStill ==
    ASSUME DInv, UNCHANGED <<tables, queue>>
    PROVE  /\ RowsHeld' /\ DecidersApart' /\ FinalStep
           /\ request' \in [Requests -> RequestRows] /\ txn' \in [Sessions -> Events \cup {None}]
           /\ queue' \subseteq Events
BY DEF tables, DInv, DTypes, RowsHeld, DecidersApart, FinalStep

(* The runs that have recorded, when run k moves to x. *)
LEMMA RecordedGrows ==
    ASSUME DInv, NEW k \in Sinks, NEW x \in SinkRuns, sink' = [sink EXCEPT ![k] = x],
           sink[k].pc \in {"forward", "over"} => x.pc \in {"forward", "over"}
    PROVE  /\ Cardinality(Recorded) \in Nat /\ Cardinality(Recorded)' \in Nat
           /\ Cardinality(Recorded) <= Cardinality(Recorded)'
           /\ sink[k].pc \notin {"forward", "over"} /\ x.pc \in {"forward", "over"} =>
                 Cardinality(Recorded)' = Cardinality(Recorded) + 1
<1>1. \A l \in Sinks : sink'[l] = IF l = k THEN x ELSE sink[l]
    BY DEF DInv, DTypes
<1>2. IsFiniteSet(Recorded) /\ IsFiniteSet(Recorded')
    BY SinksAssumption, FS_Subset DEF Recorded
<1>3. Cardinality(Recorded) \in Nat /\ Cardinality(Recorded') \in Nat
    BY <1>2, FS_CardinalityType
<1>4. Recorded \subseteq Recorded'
    BY <1>1 DEF Recorded
<1>5. Cardinality(Recorded) <= Cardinality(Recorded')
    BY <1>2, <1>4, FS_Subset
<1>6. ASSUME sink[k].pc \notin {"forward", "over"}, x.pc \in {"forward", "over"}
      PROVE  Cardinality(Recorded') = Cardinality(Recorded) + 1
    <2>1. Recorded' = Recorded \cup {k} /\ k \notin Recorded
        BY <1>1, <1>6 DEF Recorded
    <2> QED  BY <1>2, <2>1, FS_AddElement
<1> QED  BY <1>3, <1>5, <1>6

(* The facts about one run of the sink. *)
LEMMA RunHere ==
    ASSUME DInv, NEW k \in Sinks
    PROVE  /\ sink[k] \in SinkRuns
           /\ sink[k].pc \in {"record", "forward"} => sink[k].event \in Events
BY DEF DInv, DTypes, SinkRuns, OneForwards

LEMMA DeliverKeeps ==
    ASSUME DInv, NEW e \in Events, NEW k \in Sinks, Deliver(e, k) PROVE DOK
<1> DEFINE x == [pc |-> "record", event |-> e]
<1>1. /\ e \in queue /\ sink[k].pc = "free" /\ sink' = [sink EXCEPT ![k] = x]
      /\ UNCHANGED <<tables, queue, deliveries, slack>>
    BY DEF Deliver
<1>2. x \in SinkRuns /\ x.pc = "record" /\ x.event = e /\ e # None
    BY EventsAssumption DEF SinkRuns, SinkPCs
<1> HIDE DEF x
<1>3. \A l \in Sinks : sink'[l] = IF l = k THEN x ELSE sink[l]
    BY <1>1 DEF DInv, DTypes
<1>4. DTypes'
    BY <1>1, <1>2, TablesStill DEF DInv, DTypes
<1>5. OneForwards'
    BY <1>1, <1>2, <1>3 DEF DInv, OneForwards
<1>6. DeliveriesCounted'
    <2>1. /\ Cardinality(Recorded) \in Nat /\ Cardinality(Recorded)' \in Nat
          /\ Cardinality(Recorded) <= Cardinality(Recorded)'
        BY <1>1, <1>2, RecordedGrows
    <2> QED  BY <1>1, <2>1 DEF DInv, DTypes, DeliveriesCounted
<1>7. ToldTruth'
    BY <1>1, <1>2, <1>3 DEF DInv, ToldTruth, tables
<1>8. SlackOnce'
    BY <1>1 DEF DInv, SlackOnce
<1> QED  BY <1>1, <1>4, <1>5, <1>6, <1>7, <1>8, TablesStill DEF DInv, DOK

(* A run ends; slack may have got one more message if it was forwarding. *)
LEMMA EndKeeps ==
    ASSUME DInv, NEW k \in Sinks, sink[k].pc \in {"record", "forward"}, SinkEnds(k), NEW n \in {0, 1},
           slack' = [slack EXCEPT ![sink[k].event] = @ + n], n = 1 => sink[k].pc = "forward",
           UNCHANGED <<tables, queue, deliveries>>
    PROVE  DOK
<1> DEFINE x == [pc |-> "over", event |-> None]
<1> DEFINE e == sink[k].event
<1>1. sink' = [sink EXCEPT ![k] = x]
    BY DEF SinkEnds
<1>2. x \in SinkRuns /\ x.pc = "over" /\ x.event = None
    BY DEF SinkRuns, SinkPCs
<1>3. e \in Events
    BY RunHere
<1> HIDE DEF x, e
<1>4. \A l \in Sinks : sink'[l] = IF l = k THEN x ELSE sink[l]
    BY <1>1 DEF DInv, DTypes
<1>5. \A f \in Events : slack'[f] = IF f = e THEN slack[f] + n ELSE slack[f]
    BY <1>3 DEF DInv, DTypes, e
<1>6. slack' \in [Events -> Nat]
    BY <1>3 DEF DInv, DTypes, e
<1>7. DTypes'
    BY <1>1, <1>2, <1>6, TablesStill DEF DInv, DTypes
<1>8. ASSUME n = 1 PROVE deliveries[e] > 0 /\ slack[e] = 0
    BY <1>8 DEF DInv, OneForwards, e
<1>9. OneForwards'
    <2>1. ASSUME NEW l \in Sinks
          PROVE  /\ sink'[l].pc \in {"record", "forward"} <=> sink'[l].event # None
                 /\ sink'[l].pc = "forward" =>
                       /\ deliveries[sink'[l].event] > 0 /\ slack'[sink'[l].event] = 0
                       /\ \A m \in Sinks \ {l} : sink'[m].pc = "forward" => sink'[m].event # sink'[l].event
        <3>1. CASE l = k
            BY <1>2, <1>4, <3>1
        <3>2. CASE l # k /\ sink[l].pc # "forward"
            BY <1>4, <3>2 DEF DInv, OneForwards
        <3>3. CASE l # k /\ sink[l].pc = "forward"
            <4>1. sink[l].event \in Events
                BY <3>3, RunHere
            <4>2. n = 1 => sink[l].event # e
                BY <3>3 DEF DInv, OneForwards, e
            <4>3. slack'[sink[l].event] = 0
                <5>1. slack[sink[l].event] = 0
                    BY <3>3 DEF DInv, OneForwards
                <5>2. CASE n = 1
                    BY <1>5, <4>1, <4>2, <5>1, <5>2
                <5>3. CASE n = 0
                    BY <1>5, <4>1, <5>1, <5>3
                <5> QED  BY <5>2, <5>3
            <4>4. \A m \in Sinks \ {l} : sink'[m].pc = "forward" => sink'[m].event # sink[l].event
                BY <1>2, <1>4, <3>3 DEF DInv, OneForwards
            <4> QED  BY <1>4, <3>3, <4>3, <4>4 DEF DInv, OneForwards
        <3> QED  BY <3>1, <3>2, <3>3
    <2> QED  BY <2>1 DEF OneForwards
<1>10. DeliveriesCounted'
    <2>1. /\ Cardinality(Recorded) \in Nat /\ Cardinality(Recorded)' \in Nat
          /\ Cardinality(Recorded) <= Cardinality(Recorded)'
        BY <1>1, <1>2, RecordedGrows
    <2> QED  BY <2>1 DEF DInv, DTypes, DeliveriesCounted
<1>11. SlackOnce'
    <2>1. ASSUME NEW f \in Events PROVE slack'[f] <= 1 /\ slack'[f] <= deliveries[f]
        <3>1. slack[f] \in Nat /\ deliveries[f] \in Nat /\ slack[f] <= 1 /\ slack[f] <= deliveries[f]
            BY DEF DInv, DTypes, SlackOnce
        <3>2. CASE f = e /\ n = 1
            BY <1>5, <1>8, <3>1, <3>2
        <3>3. CASE ~(f = e /\ n = 1)
            BY <1>5, <3>1, <3>3
        <3> QED  BY <3>2, <3>3
    <2> QED  BY <2>1 DEF SlackOnce
<1>12. ToldTruth'
    <2>1. ASSUME NEW f \in Events, slack'[f] > 0 PROVE slack[f] > 0 \/ f = e
        BY <1>5, <2>1
    <2>2. request[e.req].status = e.status
        BY <1>3 DEF DInv, ToldTruth, e
    <2>3. ASSUME NEW f \in Events, NEW l \in Sinks, sink'[l].event = f PROVE sink[l].event = f
        BY <1>2, <1>4, <2>3, EventsAssumption
    <2> QED  BY <2>1, <2>2, <2>3 DEF DInv, ToldTruth, tables
<1> QED  BY <1>7, <1>9, <1>10, <1>11, <1>12, TablesStill DEF DInv, DOK

LEMMA RecordKeeps == ASSUME DInv, NEW k \in Sinks, Record(k) PROVE DOK
<1> DEFINE e == sink[k].event
<1> DEFINE x == IF deliveries[e] = 0 THEN [sink[k] EXCEPT !.pc = "forward"]
                ELSE [pc |-> "over", event |-> None]
<1>1. /\ sink[k].pc = "record" /\ deliveries' = [deliveries EXCEPT ![e] = @ + 1]
      /\ UNCHANGED <<tables, queue, slack>>
    BY DEF Record
<1>2. e \in Events /\ e # None /\ sink[k] \in SinkRuns /\ deliveries[e] \in Nat
    BY <1>1, RunHere, EventsAssumption DEF DInv, DTypes
<1>3. sink' = [sink EXCEPT ![k] = x]
    <2>1. CASE deliveries[e] = 0
        BY <2>1, <1>2 DEF Record, AfterRecord
    <2>2. CASE deliveries[e] # 0
        BY <2>2, <1>2 DEF Record, AfterRecord, SinkEnds
    <2> QED  BY <2>1, <2>2
<1>4. /\ x \in SinkRuns /\ x.pc \in {"forward", "over"}
      /\ x.pc = "forward" => deliveries[e] = 0 /\ x.event = e
      /\ x.pc = "over" => x.event = None
    BY <1>2 DEF SinkRuns, SinkPCs
<1> HIDE DEF x, e
<1>5. \A l \in Sinks : sink'[l] = IF l = k THEN x ELSE sink[l]
    BY <1>3 DEF DInv, DTypes
<1>6. \A f \in Events : deliveries'[f] = IF f = e THEN deliveries[f] + 1 ELSE deliveries[f]
    BY <1>1, <1>2 DEF DInv, DTypes
<1>7. deliveries' \in [Events -> Nat]
    BY <1>1, <1>2 DEF DInv, DTypes
<1>8. DTypes'
    BY <1>1, <1>3, <1>4, <1>7, TablesStill DEF DInv, DTypes
<1>9. slack[e] = 0 \/ deliveries[e] # 0
    BY <1>2 DEF DInv, DTypes, SlackOnce
<1>10. \A l \in Sinks : sink[l].pc = "forward" /\ deliveries[e] = 0 => sink[l].event # e
    BY <1>2 DEF DInv, OneForwards
<1>11. OneForwards'
    <2>1. ASSUME NEW l \in Sinks
          PROVE  /\ sink'[l].pc \in {"record", "forward"} <=> sink'[l].event # None
                 /\ sink'[l].pc = "forward" =>
                       /\ deliveries'[sink'[l].event] > 0 /\ slack[sink'[l].event] = 0
                       /\ \A m \in Sinks \ {l} : sink'[m].pc = "forward" => sink'[m].event # sink'[l].event
        <3>1. CASE l = k /\ x.pc = "over"
            BY <1>4, <1>5, <3>1
        <3>2. CASE l = k /\ x.pc = "forward"
            <4>1. sink'[l] = x /\ x.event = e /\ deliveries[e] = 0 /\ slack[e] = 0
                BY <1>4, <1>5, <1>9, <3>2
            <4>2. deliveries'[e] > 0
                BY <1>2, <1>6, <4>1
            <4>3. \A m \in Sinks \ {l} : sink'[m].pc = "forward" => sink'[m].event # e
                BY <1>5, <1>10, <3>2, <4>1
            <4> QED  BY <1>2, <3>2, <4>1, <4>2, <4>3
        <3>3. CASE l # k /\ sink[l].pc # "forward"
            BY <1>5, <3>3 DEF DInv, OneForwards
        <3>4. CASE l # k /\ sink[l].pc = "forward"
            <4>1. sink[l].event \in Events /\ sink'[l] = sink[l]
                BY <1>5, <3>4, RunHere
            <4>2. deliveries[sink[l].event] > 0 /\ slack[sink[l].event] = 0 /\ sink[l].event # None
                BY <3>4 DEF DInv, OneForwards
            <4>3. deliveries'[sink[l].event] > 0
                BY <1>6, <4>1, <4>2 DEF DInv, DTypes
            <4>4. \A m \in Sinks \ {l} : sink'[m].pc = "forward" => sink'[m].event # sink[l].event
                BY <1>4, <1>5, <1>10, <3>4 DEF DInv, OneForwards
            <4> QED  BY <3>4, <4>1, <4>2, <4>3, <4>4
        <3> QED  BY <1>4, <3>1, <3>2, <3>3, <3>4
    <2> QED  BY <1>1, <2>1 DEF OneForwards
<1>12. DeliveriesCounted'
    <2>1. /\ Cardinality(Recorded) \in Nat /\ Cardinality(Recorded)' = Cardinality(Recorded) + 1
        BY <1>1, <1>3, <1>4, RecordedGrows
    <2> QED  BY <1>6, <2>1 DEF DInv, DTypes, DeliveriesCounted
<1>13. SlackOnce'
    BY <1>1, <1>6 DEF DInv, DTypes, SlackOnce
<1>14. ToldTruth'
    <2>1. request[e.req].status = e.status
        BY <1>1, <1>2 DEF DInv, ToldTruth, e
    <2>2. ASSUME NEW f \in Events, deliveries'[f] > 0 PROVE deliveries[f] > 0 \/ f = e
        BY <1>6, <2>2
    <2>3. ASSUME NEW f \in Events, NEW l \in Sinks, sink'[l].event = f PROVE sink[l].event = f \/ f = e
        BY <1>4, <1>5, <2>3, EventsAssumption
    <2>4. ASSUME NEW f \in Events,
                 f \in queue \/ deliveries'[f] > 0 \/ slack[f] > 0 \/ \E l \in Sinks : sink'[l].event = f
          PROVE  request[f.req].status = f.status
        <3>1. CASE f = e
            BY <2>1, <3>1
        <3>2. CASE f # e
            BY <2>2, <2>3, <2>4, <3>2 DEF DInv, ToldTruth
        <3> QED  BY <3>1, <3>2
    <2> QED  BY <1>1, <2>4 DEF ToldTruth, tables
<1> QED  BY <1>1, <1>8, <1>11, <1>12, <1>13, <1>14, TablesStill DEF DInv, DOK

LEMMA HookKeeps == ASSUME DInv, HookStep PROVE DOK
<1>1. ASSUME NEW k \in Sinks, Forward(k) PROVE DOK
    <2>1. PICK n \in {0, 1} : slack' = [slack EXCEPT ![sink[k].event] = @ + n]
        BY <1>1 DEF Forward
    <2> QED  BY <1>1, <2>1, EndKeeps DEF Forward
<1>2. ASSUME NEW k \in Sinks, CutSink(k) PROVE DOK
    <2>1. PICK n \in {0, 1} : n = 0
        OBVIOUS
    <2>2. sink[k].pc \in {"record", "forward"} /\ SinkEnds(k) /\ UNCHANGED <<tables, queue, deliveries, slack>>
        BY <1>2 DEF CutSink
    <2>3. slack[sink[k].event] \in Nat /\ slack \in [Events -> Nat]
        BY <2>2, RunHere DEF DInv, DTypes
    <2>4. slack' = [slack EXCEPT ![sink[k].event] = @ + n]
        BY <2>1, <2>2, <2>3
    <2>5. UNCHANGED <<tables, queue, deliveries>> /\ (n = 1 => sink[k].pc = "forward")
        BY <2>1, <2>2
    <2> QED  BY <2>2, <2>4, <2>5, EndKeeps
<1> QED  BY <1>1, <1>2, DeliverKeeps, RecordKeeps DEF HookStep

-----------------------------------------------------------------------------
(* The page and the function. *)

JobPCs == {"free", "decline", "execute", "commit", "audit", "model", "reply", "fail", "over"}
Flags == BOOLEAN
OptCalls == Calls \cup {None}
CallSets == SUBSET Calls
TurnCounts == 0..MaxTurns
JobTypes ==
    [pc : JobPCs, open : CallSets, call : OptCalls, ran : Flags, turn : TurnCounts,
     pending : OptCalls, cut : Flags]

(* A card is of a call the transcript o ends on; with no card the           *)
(* transcript is one the model API takes.                                   *)
Answerable(p, o) == IF p = None THEN o = {} ELSE p \in o

(* What holds of a run x of the function, with approvals a: a write it is   *)
(* about to make, or has made, was confirmed; an answer it is about to give *)
(* leaves the page able to go on.                                           *)
JobOK(x, a) ==
    /\ x \in JobTypes
    /\ x.pc \in {"execute", "commit", "audit"} => x.call # None /\ a[x.call.id] > 0
    /\ x.pc \in {"decline", "execute", "commit", "audit"} => x.turn = 0 /\ x.pending = None
    /\ x.pc = "model" => x.turn < MaxTurns /\ x.pending = None /\ (x.ran => x.open = {})
    /\ x.pc = "reply" /\ ~x.cut => Answerable(x.pending, x.open)

PageTypes ==
    /\ open \in CallSets /\ pending \in OptCalls /\ card \in OptCalls
    /\ waiting \in Jobs \cup {None} /\ chats \in 0..MaxChats /\ truncated \in Flags

(* The page can go on once the card under way is put back. *)
PageOK == ~truncated => IF card # None THEN pending = None /\ card \in open
                                       ELSE Answerable(pending, open)

TrailTypes ==
    /\ used \subseteq CallIds /\ audits \subseteq CallIds
    /\ approvals \in [CallIds -> Nat] /\ executed \in [CallIds -> Nat]

AuditsEarned == \A i \in audits : approvals[i] > 0

(* The runs that may still execute call i. *)
Owes(x, i) == x.pc \in {"execute", "commit"} /\ x.call.id = i
Owing(i) == {j \in Jobs : Owes(job[j], i)}

(* Every execution, past or to come, has a confirmation of its own. *)
EachConfirmed == \A i \in CallIds : executed[i] + Cardinality(Owing(i)) <= approvals[i]

AInv ==
    /\ PageTypes /\ PageOK /\ TrailTypes /\ AuditsEarned /\ EachConfirmed
    /\ job \in [Jobs -> JobTypes] /\ \A j \in Jobs : JobOK(job[j], approvals)

IInv == DInv /\ AInv

-----------------------------------------------------------------------------
LEMMA JobsFinite == IsFiniteSet(Jobs) /\ None \notin Jobs /\ Jobs \subseteq Sessions
BY SessionsAssumption, JobsAssumption, FS_Subset

LEMMA OwingFinite ==
    ASSUME NEW i PROVE IsFiniteSet(Owing(i)) /\ Cardinality(Owing(i)) \in Nat
<1>1. IsFiniteSet(Owing(i))
    BY JobsFinite, FS_Subset DEF Owing
<1> QED  BY <1>1, FS_CardinalityType

LEMMA Kinds ==
    /\ None \in OptCalls /\ Calls \subseteq OptCalls /\ {} \in CallSets /\ 0 \in TurnCounts
    /\ TRUE \in Flags /\ FALSE \in Flags
    /\ \A c \in OptCalls : c # None => c \in Calls /\ c.id \in CallIds
BY TurnsAssumption DEF OptCalls, CallSets, TurnCounts, Flags, Calls

LEMMA NewJobTyped ==
    ASSUME NEW l \in JobPCs, NEW o \in CallSets, NEW c \in OptCalls
    PROVE  /\ NewJob(l, o, c) \in JobTypes
           /\ NewJob(l, o, c).pc = l /\ NewJob(l, o, c).open = o /\ NewJob(l, o, c).call = c
           /\ NewJob(l, o, c).turn = 0 /\ NewJob(l, o, c).pending = None
           /\ ~NewJob(l, o, c).ran
BY Kinds DEF NewJob, JobTypes

(* A run that is over. *)
LEMMA OverOK ==
    ASSUME NEW a PROVE JobOK(NewJob("over", {}, None), a) /\ \A i : ~Owes(NewJob("over", {}, None), i)
<1>1. "over" \in JobPCs
    BY DEF JobPCs
<1> DEFINE x == NewJob("over", {}, None)
<1>2. x \in JobTypes /\ x.pc = "over"
    BY <1>1, NewJobTyped, Kinds
<1> HIDE DEF x
<1>3. JobOK(x, a) /\ \A i : ~Owes(x, i)
    BY <1>2 DEF JobOK, Owes
<1> QED  BY <1>3 DEF x

(* The runs that owe call i when run j moves to x. *)
LEMMA OwingMoves ==
    ASSUME AInv, NEW j \in Jobs, NEW x \in JobTypes, job' = [job EXCEPT ![j] = x], NEW i
    PROVE  /\ Cardinality(Owing(i)) \in Nat /\ Cardinality(Owing(i)') \in Nat
           /\ Owes(job[j], i) /\ ~Owes(x, i) => Cardinality(Owing(i)') = Cardinality(Owing(i)) - 1
           /\ ~Owes(job[j], i) /\ Owes(x, i) => Cardinality(Owing(i)') = Cardinality(Owing(i)) + 1
           /\ (Owes(job[j], i) <=> Owes(x, i)) => Cardinality(Owing(i)') = Cardinality(Owing(i))
<1>1. \A l \in Jobs : job'[l] = IF l = j THEN x ELSE job[l]
    BY DEF AInv
<1>2. IsFiniteSet(Owing(i)) /\ Cardinality(Owing(i)) \in Nat
    BY OwingFinite
<1>3. ASSUME Owes(job[j], i), ~Owes(x, i)
      PROVE  IsFiniteSet(Owing(i)') /\ Cardinality(Owing(i)') = Cardinality(Owing(i)) - 1
    <2>1. Owing(i)' = Owing(i) \ {j} /\ j \in Owing(i)
        BY <1>1, <1>3 DEF Owing
    <2> QED  BY <1>2, <2>1, FS_RemoveElement
<1>4. ASSUME ~Owes(job[j], i), Owes(x, i)
      PROVE  IsFiniteSet(Owing(i)') /\ Cardinality(Owing(i)') = Cardinality(Owing(i)) + 1
    <2>1. Owing(i)' = Owing(i) \cup {j} /\ j \notin Owing(i)
        BY <1>1, <1>4 DEF Owing
    <2> QED  BY <1>2, <2>1, FS_AddElement
<1>5. ASSUME Owes(job[j], i) <=> Owes(x, i)
      PROVE  IsFiniteSet(Owing(i)') /\ Cardinality(Owing(i)') = Cardinality(Owing(i))
    <2>1. Owing(i)' = Owing(i)
        BY <1>1, <1>5 DEF Owing
    <2> QED  BY <1>2, <2>1
<1>6. IsFiniteSet(Owing(i)')
    BY <1>3, <1>4, <1>5
<1>7. Cardinality(Owing(i)') \in Nat
    BY <1>6, FS_CardinalityType
<1> QED  BY <1>2, <1>3, <1>4, <1>5, <1>7

(* Run j moves to x, without a write it did not owe; nobody confirms. *)
LEMMA JobAndPage ==
    ASSUME AInv, NEW j \in Jobs, NEW x, job' = [job EXCEPT ![j] = x], JobOK(x, approvals),
           PageTypes', PageOK',
           UNCHANGED <<approvals, executed>>, used' \subseteq CallIds, audits' \subseteq CallIds,
           \A i \in audits' : approvals[i] > 0,
           \A i \in CallIds : Owes(x, i) => Owes(job[j], i)
    PROVE  AInv'
<1>1. x \in JobTypes
    BY DEF JobOK
<1>2. TrailTypes' /\ AuditsEarned'
    BY DEF AInv, TrailTypes, AuditsEarned
<1>3. job' \in [Jobs -> JobTypes] /\ \A l \in Jobs : JobOK(job'[l], approvals')
    BY <1>1 DEF AInv
<1>4. EachConfirmed'
    <2>1. ASSUME NEW i \in CallIds PROVE executed'[i] + Cardinality(Owing(i)') <= approvals'[i]
        <3>1. /\ executed'[i] = executed[i] /\ approvals'[i] = approvals[i]
              /\ executed[i] \in Nat /\ approvals[i] \in Nat
              /\ executed[i] + Cardinality(Owing(i)) <= approvals[i]
            BY DEF AInv, TrailTypes, EachConfirmed
        <3>2. Owes(x, i) => Owes(job[j], i)
            OBVIOUS
        <3>3. /\ Cardinality(Owing(i)) \in Nat /\ Cardinality(Owing(i)') \in Nat
              /\ Owes(job[j], i) /\ ~Owes(x, i) => Cardinality(Owing(i)') = Cardinality(Owing(i)) - 1
              /\ (Owes(job[j], i) <=> Owes(x, i)) => Cardinality(Owing(i)') = Cardinality(Owing(i))
            BY <1>1, OwingMoves
        <3>4. Cardinality(Owing(i)') <= Cardinality(Owing(i))
            BY <3>2, <3>3
        <3> QED  BY <3>1, <3>3, <3>4
    <2> QED  BY <2>1 DEF EachConfirmed
<1> QED  BY <1>2, <1>3, <1>4 DEF AInv

(* The page is left alone, and nothing is executed or audited. *)
LEMMA JobMoves ==
    ASSUME AInv, NEW j \in Jobs, NEW x, job' = [job EXCEPT ![j] = x], JobOK(x, approvals),
           UNCHANGED <<page, trail>>, used' \subseteq CallIds,
           \A i \in CallIds : Owes(x, i) => Owes(job[j], i)
    PROVE  AInv'
<1>1. PageTypes' /\ PageOK'
    BY DEF AInv, page, PageTypes, PageOK
<1>2. /\ UNCHANGED <<approvals, executed>> /\ audits' \subseteq CallIds
      /\ \A i \in audits' : approvals[i] > 0
    BY DEF AInv, page, trail, TrailTypes, AuditsEarned
<1> QED  BY <1>1, <1>2, JobAndPage

(* Run j pays: it executes the call it was confirmed for, once. *)
LEMMA JobPays ==
    ASSUME AInv, NEW j \in Jobs, job[j].pc \in {"execute", "commit"},
           executed' = [executed EXCEPT ![job[j].call.id] = @ + 1],
           Run(j, "audit"), UNCHANGED <<page, used, audits>>
    PROVE  AInv'
<1> USE DEF page
<1> DEFINE x == [job[j] EXCEPT !.pc = "audit"]
<1> DEFINE c == job[j].call.id
<1>1. job[j] \in JobTypes /\ JobOK(job[j], approvals) /\ job[j].call # None
    BY DEF AInv, JobOK
<1>2. c \in CallIds
    BY <1>1, Kinds DEF JobTypes
<1>3. job' = [job EXCEPT ![j] = x]
    BY DEF Run, AInv
<1>4. "audit" \in JobPCs
    BY DEF JobPCs
<1>5. /\ x \in JobTypes /\ x.pc = "audit" /\ x.call = job[j].call
      /\ x.turn = job[j].turn /\ x.pending = job[j].pending
    BY <1>1, <1>4 DEF JobTypes
<1> HIDE DEF x, c
<1>6. JobOK(x, approvals)
    BY <1>1, <1>5 DEF JobOK
<1>7. PageTypes' /\ PageOK' /\ TrailTypes' /\ AuditsEarned'
    BY <1>2 DEF AInv, PageTypes, PageOK, TrailTypes, AuditsEarned, c
<1>8. job' \in [Jobs -> JobTypes] /\ \A l \in Jobs : JobOK(job'[l], approvals')
    BY <1>3, <1>5, <1>6 DEF AInv
<1>9. EachConfirmed'
    <2>1. ASSUME NEW i \in CallIds PROVE executed'[i] + Cardinality(Owing(i)') <= approvals'[i]
        <3>1. /\ approvals'[i] = approvals[i]
              /\ executed[i] \in Nat /\ approvals[i] \in Nat
              /\ executed[i] + Cardinality(Owing(i)) <= approvals[i]
            BY DEF AInv, TrailTypes, EachConfirmed
        <3>2. executed'[i] = IF i = c THEN executed[i] + 1 ELSE executed[i]
            BY <1>2 DEF AInv, TrailTypes, c
        <3>3. ~Owes(x, i) /\ (Owes(job[j], i) <=> i = c)
            BY <1>5 DEF Owes, c
        <3>4. /\ Cardinality(Owing(i)) \in Nat /\ Cardinality(Owing(i)') \in Nat
              /\ Owes(job[j], i) /\ ~Owes(x, i) => Cardinality(Owing(i)') = Cardinality(Owing(i)) - 1
              /\ (Owes(job[j], i) <=> Owes(x, i)) => Cardinality(Owing(i)') = Cardinality(Owing(i))
            BY <1>3, <1>5, OwingMoves
        <3>5. CASE i = c
            BY <3>1, <3>2, <3>3, <3>4, <3>5
        <3>6. CASE i # c
            BY <3>1, <3>2, <3>3, <3>4, <3>6
        <3> QED  BY <3>5, <3>6
    <2> QED  BY <2>1 DEF EachConfirmed
<1> QED  BY <1>7, <1>8, <1>9 DEF AInv

LEMMA JobHere ==
    ASSUME AInv, NEW j \in Jobs
    PROVE  JobOK(job[j], approvals) /\ job[j] \in JobTypes /\ j # None
BY JobsFinite DEF AInv, JobOK

-----------------------------------------------------------------------------
(* The page. *)

LEMMA SendKeeps == ASSUME AInv, NEW j \in Jobs, Send(j) PROVE AInv'
<1> DEFINE x == NewJob("model", open, None)
<1>1. /\ chats < MaxChats /\ job' = [job EXCEPT ![j] = x] /\ waiting' = j /\ chats' = chats + 1
      /\ UNCHANGED <<open, pending, card, truncated, approvals, used, executed, audits>>
    BY DEF Send, trail
<1>2. "model" \in JobPCs /\ open \in CallSets
    BY DEF JobPCs, AInv, PageTypes
<1>3. x \in JobTypes /\ x.pc = "model" /\ x.turn = 0 /\ x.pending = None /\ ~x.ran
    BY <1>2, Kinds DEF NewJob, JobTypes
<1> HIDE DEF x
<1>4. JobOK(x, approvals) /\ \A i : ~Owes(x, i)
    BY <1>3, TurnsAssumption DEF JobOK, Owes
<1>5. PageTypes'
    BY <1>1, TurnsAssumption DEF AInv, PageTypes
<1>6. PageOK'
    BY <1>1 DEF AInv, PageOK
<1>7. used' \subseteq CallIds /\ audits' \subseteq CallIds /\ \A i \in audits' : approvals[i] > 0
    BY <1>1 DEF AInv, TrailTypes, AuditsEarned
<1> QED  BY <1>1, <1>4, <1>5, <1>6, <1>7, JobAndPage

(* A confirmation is counted, and at most one run starts on it. *)
LEMMA AnswerKeeps ==
    ASSUME AInv, NEW j \in Jobs, NEW approve \in BOOLEAN, Answer(j, approve) PROVE AInv'
<1> DEFINE l == AfterAnswer(approve)
<1> DEFINE x == NewJob(l, open, pending)
<1> DEFINE c == pending.id
<1>1. /\ pending # None /\ job[j].pc = "free" /\ job' = [job EXCEPT ![j] = x]
      /\ waiting' = j /\ card' = pending /\ pending' = None
      /\ approvals' = IF approve THEN [approvals EXCEPT ![c] = @ + 1] ELSE approvals
      /\ UNCHANGED <<open, chats, truncated, used, executed, audits>>
    BY DEF Answer, trail
<1>2. open \in CallSets /\ pending \in OptCalls /\ c \in CallIds
    BY <1>1, Kinds DEF AInv, PageTypes
<1>3. l \in {"fail", "execute", "decline"} /\ l \in JobPCs /\ (l = "execute" => approve)
    BY DEF AfterAnswer, JobPCs
<1> HIDE DEF l
<1>4. /\ x \in JobTypes /\ x.pc = l /\ x.call = pending /\ x.turn = 0 /\ x.pending = None
    BY <1>2, <1>3, NewJobTyped
<1> HIDE DEF x, c
<1>5. /\ approvals' \in [CallIds -> Nat]
      /\ \A i \in CallIds :
            /\ approvals[i] \in Nat
            /\ approvals'[i] = IF approve /\ i = c THEN approvals[i] + 1 ELSE approvals[i]
    <2>1. CASE approve
        BY <1>1, <1>2, <2>1 DEF AInv, TrailTypes
    <2>2. CASE ~approve
        BY <1>1, <1>2, <2>2 DEF AInv, TrailTypes
    <2> QED  BY <2>1, <2>2
<1>6. JobOK(x, approvals')
    <2>1. x.pc = "execute" => x.call # None /\ approvals'[x.call.id] > 0
        BY <1>1, <1>2, <1>3, <1>4, <1>5 DEF c
    <2> QED  BY <1>3, <1>4, <2>1 DEF JobOK
<1>7. ASSUME NEW k \in Jobs PROVE job'[k] \in JobTypes /\ JobOK(job'[k], approvals')
    <2>1. CASE k = j
        BY <1>1, <1>4, <1>6, <2>1 DEF AInv
    <2>2. CASE k # j
        <3>1. job'[k] = job[k] /\ JobOK(job[k], approvals) /\ job[k] \in JobTypes
            BY <1>1, <2>2, JobHere DEF AInv
        <3>2. ASSUME job[k].call # None, approvals[job[k].call.id] > 0
              PROVE  approvals'[job[k].call.id] > 0
            <4>1. job[k].call.id \in CallIds
                BY <3>1, <3>2, Kinds DEF JobTypes
            <4> QED  BY <1>5, <3>2, <4>1
        <3> QED  BY <3>1, <3>2 DEF JobOK
    <2> QED  BY <2>1, <2>2
<1>8. PageTypes'
    BY <1>1, <1>2, Kinds DEF AInv, PageTypes
<1>9. PageOK'
    BY <1>1 DEF AInv, PageOK, Answerable
<1>10. TrailTypes' /\ AuditsEarned'
    BY <1>1, <1>5 DEF AInv, TrailTypes, AuditsEarned
<1>11. EachConfirmed'
    <2>1. ASSUME NEW i \in CallIds PROVE executed'[i] + Cardinality(Owing(i)') <= approvals'[i]
        <3>1. /\ executed'[i] = executed[i] /\ executed[i] \in Nat
              /\ executed[i] + Cardinality(Owing(i)) <= approvals[i]
            BY <1>1 DEF AInv, TrailTypes, EachConfirmed
        <3>2. ~Owes(job[j], i) /\ (Owes(x, i) => approve /\ i = c)
            BY <1>1, <1>3, <1>4 DEF Owes, c
        <3>3. /\ Cardinality(Owing(i)) \in Nat /\ Cardinality(Owing(i)') \in Nat
              /\ ~Owes(job[j], i) /\ Owes(x, i) => Cardinality(Owing(i)') = Cardinality(Owing(i)) + 1
              /\ (Owes(job[j], i) <=> Owes(x, i)) => Cardinality(Owing(i)') = Cardinality(Owing(i))
            BY <1>1, <1>4, OwingMoves
        <3>4. CASE Owes(x, i)
            BY <1>5, <3>1, <3>2, <3>3, <3>4
        <3>5. CASE ~Owes(x, i)
            <4>1. Cardinality(Owing(i)') = Cardinality(Owing(i))
                BY <3>2, <3>3, <3>5
            <4>2. approvals'[i] >= approvals[i]
                BY <1>5
            <4> QED  BY <1>5, <3>1, <3>3, <4>1, <4>2
        <3> QED  BY <3>4, <3>5
    <2> QED  BY <2>1 DEF EachConfirmed
<1>12. job' \in [Jobs -> JobTypes]
    BY <1>1, <1>4 DEF AInv
<1> QED  BY <1>7, <1>8, <1>9, <1>10, <1>11, <1>12 DEF AInv

LEMMA ReceiveKeeps == ASSUME AInv, NEW j \in Jobs, Receive(j) PROVE AInv'
<1> DEFINE x == NewJob("over", {}, None)
<1>1. /\ job[j].pc = "reply" /\ open' = job[j].open /\ pending' = job[j].pending
      /\ truncated' = job[j].cut /\ waiting' = None /\ card' = None
      /\ job' = [job EXCEPT ![j] = x]
      /\ UNCHANGED <<chats, approvals, used, executed, audits>>
    BY DEF Receive, Ends, trail
<1>2. JobOK(x, approvals) /\ \A i : ~Owes(x, i)
    BY OverOK
<1> HIDE DEF x
<1>3. PageTypes'
    BY <1>1, JobHere, Kinds DEF AInv, PageTypes, JobTypes
<1>4. PageOK'
    BY <1>1, JobHere DEF PageOK, JobOK
<1>5. used' \subseteq CallIds /\ audits' \subseteq CallIds /\ \A i \in audits' : approvals[i] > 0
    BY <1>1 DEF AInv, TrailTypes, AuditsEarned
<1> QED  BY <1>1, <1>2, <1>3, <1>4, <1>5, JobAndPage

LEMMA FailsKeeps == ASSUME AInv, NEW j \in Jobs, Fails(j) PROVE AInv'
<1>1. /\ waiting' = None
      /\ UNCHANGED <<open, pending, card, chats, truncated, approvals, used, executed, audits>>
    BY DEF Fails, trail
<1>2. PageTypes' /\ PageOK'
    BY <1>1 DEF AInv, PageTypes, PageOK
<1>3. used' \subseteq CallIds /\ audits' \subseteq CallIds /\ \A i \in audits' : approvals[i] > 0
    BY <1>1 DEF AInv, TrailTypes, AuditsEarned
<1>4. CASE job' = job
    <2>1. job' = [job EXCEPT ![j] = job[j]]
        BY <1>4 DEF AInv
    <2> QED  BY <1>1, <1>2, <1>3, <2>1, JobHere, JobAndPage
<1>5. CASE Ends(j)
    BY <1>1, <1>2, <1>3, <1>5, OverOK, JobAndPage DEF Ends
<1> QED  BY <1>4, <1>5 DEF Fails

LEMMA PutCardBackKeeps == ASSUME AInv, PutCardBack PROVE AInv'
<1>1. /\ card # None /\ pending' = card /\ card' = None
      /\ UNCHANGED <<open, waiting, chats, truncated, approvals, job, used, executed, audits>>
    BY DEF PutCardBack, trail
<1>2. PageTypes'
    BY <1>1, Kinds DEF AInv, PageTypes
<1>3. PageOK'
    BY <1>1 DEF AInv, PageOK, Answerable
<1>4. TrailTypes' /\ AuditsEarned' /\ EachConfirmed'
    BY <1>1 DEF AInv, TrailTypes, AuditsEarned, EachConfirmed, Owing
<1> QED  BY <1>1, <1>2, <1>3, <1>4 DEF AInv

-----------------------------------------------------------------------------
(* The function. *)

(* Run j fails or is over. *)
LEMMA StopsKeep ==
    ASSUME AInv, NEW j \in Jobs, Run(j, "fail") \/ Ends(j), UNCHANGED <<page, used, trail>>
    PROVE  AInv'
<1>1. used' \subseteq CallIds
    BY DEF AInv, TrailTypes
<1>2. CASE Run(j, "fail")
    <2> DEFINE x == [job[j] EXCEPT !.pc = "fail"]
    <2>1. job' = [job EXCEPT ![j] = x]
        BY <1>2 DEF Run, AInv
    <2>2. x \in JobTypes /\ x.pc = "fail"
        BY JobHere DEF JobTypes, JobPCs
    <2> HIDE DEF x
    <2>3. JobOK(x, approvals) /\ \A i : ~Owes(x, i)
        BY <2>2 DEF JobOK, Owes
    <2> QED  BY <1>1, <2>1, <2>3, JobMoves
<1>3. CASE Ends(j)
    BY <1>1, <1>3, OverOK, JobMoves DEF Ends
<1> QED  BY <1>2, <1>3

(* Every call of the turn has its result. *)
LEMMA AnsweredKeeps ==
    ASSUME AInv, NEW j \in Jobs, job[j].pc \in {"decline", "audit"}, Answered(j),
           UNCHANGED <<page, used, executed>>, audits' \subseteq CallIds,
           \A i \in audits' : approvals[i] > 0
    PROVE  AInv'
<1>1. PageTypes' /\ PageOK' /\ used' \subseteq CallIds /\ UNCHANGED <<approvals, executed>>
    BY DEF AInv, page, PageTypes, PageOK, TrailTypes
<1>2. CASE Ends(j)
    BY <1>1, <1>2, OverOK, JobAndPage DEF Ends
<1>3. CASE job' = [job EXCEPT ![j].pc = "model", ![j].open = {}, ![j].ran = TRUE]
    <2> DEFINE x == [job[j] EXCEPT !.pc = "model", !.open = {}, !.ran = TRUE]
    <2>1. job' = [job EXCEPT ![j] = x]
        BY <1>3 DEF AInv
    <2>2. job[j].turn = 0 /\ job[j].pending = None /\ "model" \in JobPCs
        BY JobHere DEF JobOK, JobPCs
    <2>3. x \in JobTypes /\ x.pc = "model" /\ x.open = {} /\ x.turn = 0 /\ x.pending = None
        BY <2>2, JobHere, Kinds DEF JobTypes
    <2> HIDE DEF x
    <2>4. JobOK(x, approvals) /\ \A i : ~Owes(x, i)
        BY <2>3, TurnsAssumption DEF JobOK, Owes
    <2> QED  BY <1>1, <2>1, <2>4, JobAndPage
<1> QED  BY <1>2, <1>3 DEF Answered

(* Run j goes on with the call it has: from the update to the commit, or,   *)
(* refused, to the audit.                                                   *)
LEMMA RunsOn ==
    ASSUME AInv, NEW j \in Jobs, NEW l \in {"commit", "audit"}, job[j].pc \in {"execute", "commit"},
           Run(j, l), UNCHANGED <<page, used, trail>>
    PROVE  AInv'
<1> DEFINE x == [job[j] EXCEPT !.pc = l]
<1>1. job' = [job EXCEPT ![j] = x]
    BY DEF Run, AInv
<1>2. l \in JobPCs
    BY DEF JobPCs
<1>3. /\ x \in JobTypes /\ x.pc = l /\ x.call = job[j].call /\ x.turn = job[j].turn
      /\ x.pending = job[j].pending
    BY <1>2, JobHere DEF JobTypes
<1> HIDE DEF x
<1>4. JobOK(x, approvals)
    BY <1>3, JobHere DEF JobOK
<1>5. \A i \in CallIds : Owes(x, i) => Owes(job[j], i)
    BY <1>3 DEF Owes
<1>6. used' \subseteq CallIds
    BY DEF AInv, TrailTypes
<1> QED  BY <1>1, <1>4, <1>5, <1>6, JobMoves

LEMMA AuditKeeps == ASSUME AInv, NEW j \in Jobs, Audit(j) PROVE AInv'
<1>1. /\ job[j].pc = "audit" /\ Answered(j) /\ UNCHANGED <<page, used, executed>>
      /\ audits' \in {audits, audits \cup {job[j].call.id}}
    BY DEF Audit
<1>2. approvals[job[j].call.id] > 0 /\ job[j].call.id \in CallIds
    BY <1>1, JobHere, Kinds DEF JobOK, JobTypes
<1>3. audits' \subseteq CallIds /\ \A i \in audits' : approvals[i] > 0
    BY <1>1, <1>2 DEF AInv, TrailTypes, AuditsEarned
<1> QED  BY <1>1, <1>3, AnsweredKeeps

(* The model stops: what the page will get leaves it able to go on. *)
LEMMA ModelStops ==
    ASSUME AInv, NEW j \in Jobs, NEW l \in {"reply", "fail"}, NEW o \in CallSets, NEW c \in OptCalls,
           Stops(j, l, o, c), l = "reply" => Answerable(c, o),
           UNCHANGED <<page, trail>>, used' \subseteq CallIds
    PROVE  AInv'
<1> DEFINE x == [job[j] EXCEPT !.pc = l, !.open = o, !.pending = c]
<1>1. job' = [job EXCEPT ![j] = x]
    BY DEF Stops, AInv
<1>2. l \in JobPCs
    BY DEF JobPCs
<1>3. x \in JobTypes /\ x.pc = l /\ x.open = o /\ x.pending = c
    BY <1>2, JobHere DEF JobTypes
<1> HIDE DEF x
<1>4. JobOK(x, approvals) /\ \A i : ~Owes(x, i)
    BY <1>3 DEF JobOK, Owes
<1> QED  BY <1>1, <1>4, JobMoves

LEMMA ModelEndsKeeps ==
    ASSUME AInv, NEW j \in Jobs, ModelAnswers(j) \/ ModelFails(j) PROVE AInv'
<1>1. used' \subseteq CallIds /\ None \in OptCalls /\ {} \in CallSets
    BY Kinds DEF AInv, TrailTypes, ModelAnswers, ModelFails
<1>2. CASE ModelAnswers(j)
    <2>1. Answerable(None, {})
        BY DEF Answerable
    <2> QED  BY <1>1, <1>2, <2>1, ModelStops DEF ModelAnswers
<1>3. CASE ModelFails(j)
    <2> DEFINE l == IF job[j].ran THEN "reply" ELSE "fail"
    <2>1. Stops(j, l, job[j].open, None) /\ UNCHANGED <<page, trail>> /\ job[j].pc = "model"
        BY <1>3 DEF ModelFails
    <2>2. l \in {"reply", "fail"} /\ job[j].open \in CallSets
        BY JobHere DEF JobTypes
    <2>3. l = "reply" => Answerable(None, job[j].open)
        BY <2>1, JobHere DEF JobOK, Answerable
    <2> HIDE DEF l
    <2> QED  BY <1>1, <2>1, <2>2, <2>3, ModelStops
<1> QED  BY <1>2, <1>3

(* A turn has calls with ids of CallIds. *)
LEMMA TurnsTyped ==
    ASSUME NEW cs \in Turns
    PROVE  cs \in CallSets /\ {c.id : c \in cs} \subseteq CallIds
<1>1. PICK n \in CallIds \ used :
          cs \in {{[id |-> i, tool |-> t[i]] : i \in 1..n \ used} : t \in [1..n \ used -> Tools]}
    BY DEF Turns
<1>2. PICK t \in [1..n \ used -> Tools] : cs = {[id |-> i, tool |-> t[i]] : i \in 1..n \ used}
    BY <1>1
<1>3. 1..n \subseteq CallIds
    BY CallIdsAssumption
<1>4. ASSUME NEW c \in cs PROVE c \in Calls /\ c.id \in CallIds
    <2>1. PICK i \in 1..n \ used : c = [id |-> i, tool |-> t[i]]
        BY <1>2
    <2>2. i \in CallIds /\ t[i] \in Tools
        BY <1>3
    <2> QED  BY <2>1, <2>2 DEF Calls
<1> QED  BY <1>4 DEF CallSets

LEMMA ModelCallsKeeps ==
    ASSUME AInv, NEW j \in Jobs, NEW cs \in Turns, ModelCalls(j, cs) PROVE AInv'
<1> DEFINE writes == {c \in cs : c.tool \in WriteTools}
<1>1. /\ job[j].pc = "model" /\ job[j].open = {} /\ UNCHANGED <<page, trail>>
      /\ used' = used \cup {c.id : c \in cs}
      /\ IF writes # {}
         THEN \E c \in writes : Stops(j, "reply", cs, c)
         ELSE job' = [job EXCEPT ![j].ran = TRUE, ![j].turn = @ + 1, ![j].pc = AfterReads(j)]
    BY DEF ModelCalls, Sendable
<1>2. used' \subseteq CallIds
    BY <1>1, TurnsTyped DEF AInv, TrailTypes
<1>3. CASE writes # {}
    <2>1. PICK c \in writes : Stops(j, "reply", cs, c)
        BY <1>1, <1>3
    <2>2. c \in cs /\ c \in OptCalls /\ c # None /\ cs \in CallSets
        BY TurnsTyped, Kinds, CallsAssumption DEF CallSets
    <2>3. Answerable(c, cs)
        BY <2>2 DEF Answerable
    <2> QED  BY <1>1, <1>2, <2>1, <2>2, <2>3, ModelStops
<1>4. CASE writes = {}
    <2> DEFINE l == AfterReads(j)
    <2> DEFINE x == [job[j] EXCEPT !.ran = TRUE, !.turn = @ + 1, !.pc = l]
    <2>1. job' = [job EXCEPT ![j] = x]
        BY <1>1, <1>4 DEF AInv
    <2>2. job[j].turn \in Nat /\ job[j].turn < MaxTurns /\ job[j].pending = None
        BY <1>1, JobHere DEF JobOK, JobTypes, TurnCounts
    <2>3. job[j].turn + 1 \in TurnCounts
        BY <2>2, TurnsAssumption DEF TurnCounts
    <2>4. l \in {"model", "reply"} /\ (l = "model" => job[j].turn + 1 < MaxTurns) /\ l \in JobPCs
        BY DEF AfterReads, JobPCs
    <2> HIDE DEF l
    <2>5. /\ x \in JobTypes /\ x.pc = l /\ x.turn = job[j].turn + 1 /\ x.open = {}
          /\ x.pending = None
        BY <1>1, <2>2, <2>3, <2>4, JobHere, Kinds DEF JobTypes
    <2> HIDE DEF x
    <2>6. JobOK(x, approvals) /\ \A i : ~Owes(x, i)
        BY <2>4, <2>5 DEF JobOK, Owes, Answerable
    <2> QED  BY <1>1, <1>2, <2>1, <2>6, JobMoves
<1> QED  BY <1>3, <1>4

LEMMA ModelTruncatedKeeps ==
    ASSUME AInv, NEW j \in Jobs, NEW cs \in Turns, ModelTruncated(j, cs) PROVE AInv'
<1> DEFINE x == [job[j] EXCEPT !.pc = "reply", !.open = cs, !.cut = TRUE]
<1>1. /\ UNCHANGED <<page, trail>> /\ used' = used \cup {c.id : c \in cs}
      /\ job' = [job EXCEPT ![j] = x]
    BY DEF ModelTruncated, AInv
<1>2. used' \subseteq CallIds /\ cs \in CallSets /\ "reply" \in JobPCs
    BY <1>1, TurnsTyped DEF AInv, TrailTypes, JobPCs
<1>3. x \in JobTypes /\ x.pc = "reply" /\ x.cut
    BY <1>2, JobHere, Kinds DEF JobTypes
<1> HIDE DEF x
<1>4. JobOK(x, approvals) /\ \A i : ~Owes(x, i)
    BY <1>3 DEF JobOK, Owes
<1> QED  BY <1>1, <1>2, <1>4, JobMoves

-----------------------------------------------------------------------------
(* A step of a run, seen by the page and the function, and by the database. *)

LEMMA JobStepKeeps == ASSUME IInv, NEW j \in Jobs, JobStep(j) PROVE AInv' /\ DOK
<1> USE DEF IInv
<1>1. j \in Sessions
    BY JobsFinite
<1>2. CASE Decline(j)
    <2>1. audits' \subseteq CallIds /\ \A i \in audits' : approvals[i] > 0
        BY <1>2 DEF Decline, trail, AInv, TrailTypes, AuditsEarned
    <2> QED  BY <1>2, <2>1, AnsweredKeeps, DStill DEF Decline, trail
<1>3. CASE DecideUpdate(j)
    <2>1. AInv'
        BY <1>3, RunsOn DEF DecideUpdate
    <2>2. "approved" \in Decided
        BY DEF Decided
    <2> QED  BY <1>1, <1>3, <2>1, <2>2, UpdateKeeps, TargetAssumption DEF DecideUpdate
<1>4. CASE DecideCommit(j)
    BY <1>1, <1>4, JobPays, CommitKeeps DEF DecideCommit
<1>5. CASE Refuse(j)
    <2>1. AInv'
        BY <1>5, RunsOn DEF Refuse
    <2> QED  BY <1>1, <1>5, <2>1, DStill, RollbackKeeps DEF Refuse
<1>6. CASE Audit(j)
    BY <1>6, AuditKeeps, DStill DEF Audit
<1>7. CASE ModelAnswers(j) \/ ModelFails(j)
    BY <1>7, ModelEndsKeeps, DStill DEF ModelAnswers, ModelFails
<1>8. CASE Throws(j)
    BY <1>8, StopsKeep, DStill DEF Throws
<1>9. CASE CutJob(j)
    <2>1. AInv'
        BY <1>9, StopsKeep DEF CutJob
    <2> QED  BY <1>1, <1>9, <2>1, DStill, RollbackKeeps DEF CutJob
<1>10. ASSUME NEW r \in Requests, Create(j, r) PROVE AInv' /\ DOK
    BY <1>1, <1>10, JobPays, SubmitKeeps DEF Create
<1>11. ASSUME NEW cs \in Turns, ModelCalls(j, cs) \/ ModelTruncated(j, cs) PROVE AInv' /\ DOK
    BY <1>11, ModelCallsKeeps, ModelTruncatedKeeps, DStill DEF ModelCalls, ModelTruncated
<1> QED  BY <1>2, <1>3, <1>4, <1>5, <1>6, <1>7, <1>8, <1>9, <1>10, <1>11 DEF JobStep

(* The page and the function are left alone. *)
LEMMA AStill == ASSUME AInv, UNCHANGED <<page, job, used, trail>> PROVE AInv'
BY DEF AInv, page, trail, PageTypes, PageOK, TrailTypes, AuditsEarned, EachConfirmed, Owing

LEMMA NextKeeps == ASSUME IInv, [Next]_vars PROVE IInv' /\ FinalStep
<1> USE DEF IInv, DOK
<1>1. CASE PutCardBack
    BY <1>1, PutCardBackKeeps, DStill DEF PutCardBack
<1>2. ASSUME NEW j \in Jobs, Send(j) \/ Receive(j) \/ Fails(j) PROVE IInv' /\ FinalStep
    BY <1>2, SendKeeps, ReceiveKeeps, FailsKeeps, DStill DEF Send, Receive, Fails
<1>3. ASSUME NEW j \in Jobs, JobStep(j) PROVE IInv' /\ FinalStep
    BY <1>3, JobStepKeeps
<1>4. ASSUME NEW j \in Jobs, NEW approve \in BOOLEAN, Answer(j, approve) PROVE IInv' /\ FinalStep
    BY <1>4, AnswerKeeps, DStill DEF Answer
<1>5. ASSUME NEW s \in Sessions, AppDecides(s) PROVE IInv' /\ FinalStep
    <2>1. DOK
        BY <1>5, UpdateKeeps, CommitKeeps, RollbackKeeps DEF AppDecides
    <2> QED  BY <1>5, <2>1, AStill DEF AppDecides
<1>6. CASE HookStep /\ UNCHANGED <<page, job, used, trail>>
    BY <1>6, HookKeeps, AStill
<1>7. CASE UNCHANGED vars
    BY <1>7, AStill, DStill DEF vars
<1> QED  BY <1>1, <1>2, <1>3, <1>4, <1>5, <1>6, <1>7 DEF Next

LEMMA InitIInv == ASSUME Init PROVE IInv
<1> DEFINE x == NewJob("free", {}, None)
<1>1. DInv
    BY DInitially DEF Init
<1>2. x \in JobTypes /\ x.pc = "free"
    BY Kinds DEF NewJob, JobTypes, JobPCs
<1> HIDE DEF x
<1>3. \A j \in Jobs : job[j] = x
    BY DEF Init, x
<1>4. job \in [Jobs -> JobTypes] /\ \A j \in Jobs : JobOK(job[j], approvals)
    <2>1. JobOK(x, approvals)
        BY <1>2 DEF JobOK
    <2>2. job = [j \in Jobs |-> x]
        BY DEF Init, x
    <2> QED  BY <1>2, <2>1, <2>2
<1>5. PageTypes
    <2>1. /\ open = {} /\ pending = None /\ card = None /\ waiting = None
          /\ chats = 0 /\ truncated = FALSE
        BY DEF Init
    <2>2. truncated \in Flags
        BY <2>1 DEF Flags
    <2>3. open \in CallSets
        BY <2>1 DEF CallSets
    <2>4. pending \in OptCalls /\ card \in OptCalls
        BY <2>1 DEF OptCalls
    <2>5. chats \in 0..MaxChats
        BY <2>1, TurnsAssumption
    <2> QED  BY <2>1, <2>2, <2>3, <2>4, <2>5 DEF PageTypes
<1>6. PageOK
    BY DEF Init, PageOK, Answerable
<1>7. TrailTypes /\ AuditsEarned
    BY DEF Init, TrailTypes, AuditsEarned
<1>8. EachConfirmed
    <2>1. ASSUME NEW i \in CallIds PROVE Cardinality(Owing(i)) = 0
        <3>1. Owing(i) = {}
            BY <1>2, <1>3 DEF Owing, Owes
        <3> QED  BY <3>1, FS_EmptySet
    <2> QED  BY <2>1 DEF Init, EachConfirmed
<1> QED  BY <1>1, <1>4, <1>5, <1>6, <1>7, <1>8 DEF IInv, AInv

-----------------------------------------------------------------------------
LEMMA Inductive == Spec => []IInv
<1>1. Init => IInv  BY InitIInv
<1>2. IInv /\ [Next]_vars => IInv'  BY NextKeeps
<1> QED  BY <1>1, <1>2, PTL DEF Spec

(* A purchase request is decided once and stays decided, and never by who   *)
(* submitted it, however the app, the agent's jobs, lost answers and        *)
(* rollbacks interleave.                                                    *)
THEOREM Final == Spec => DecisionsFinal
<1>1. ASSUME IInv, [Next]_vars
      PROVE  [\A r \in Requests :
                 /\ request[r].status \in Decided => request'[r] = request[r]
                 /\ request'[r].decidedBy # None => request'[r].decidedBy # request'[r].by
             ]_<<tables, hook>>
    BY <1>1, NextKeeps DEF FinalStep
<1> QED  BY <1>1, Inductive, PTL DEF Spec, DecisionsFinal

(* Whatever is queued, at the sink, recorded or in Slack is the committed   *)
(* status of its request.                                                   *)
THEOREM Truthful == Spec => []ToldTruth
<1>1. IInv => ToldTruth  BY DEF IInv, DInv
<1> QED  BY <1>1, Inductive, PTL

(* A decision reaches Slack at most once, and only with a receipt, for any  *)
(* number of deliveries and overlapping runs of the sink.                   *)
THEOREM ForwardedOnce == Spec => []SlackOnce
<1>1. IInv => SlackOnce  BY DEF IInv, DInv
<1> QED  BY <1>1, Inductive, PTL

(* A write of the agent takes effect at most as often as the user confirmed *)
(* that call, and is audited only if he did: cut-off runs, lost answers and *)
(* cards that are put back and confirmed again included.                    *)
THEOREM Confirmed == Spec => []WritesConfirmed
<1>1. ASSUME IInv, NEW i \in CallIds PROVE executed[i] <= approvals[i]
    <2>1. Cardinality(Owing(i)) \in Nat
        BY OwingFinite
    <2>2. executed[i] \in Nat /\ approvals[i] \in Nat
        BY <1>1 DEF IInv, AInv, TrailTypes
    <2>3. executed[i] + Cardinality(Owing(i)) <= approvals[i]
        BY <1>1 DEF IInv, AInv, EachConfirmed
    <2> QED  BY <2>1, <2>2, <2>3
<1>2. IInv => WritesConfirmed
    BY <1>1 DEF WritesConfirmed, IInv, AInv, AuditsEarned
<1> QED  BY <1>2, Inductive, PTL

(* When the page waits for nothing, its transcript is one the model API     *)
(* takes or it shows the card of a call the transcript ends on, whichever   *)
(* answers were lost and jobs cut off, except after an answer cut at        *)
(* max_tokens.                                                              *)
THEOREM Unstuck == Spec => []NeverStuck
<1>1. IInv => NeverStuck
    BY DEF IInv, AInv, PageOK, Answerable, NeverStuck
<1> QED  BY <1>1, Inductive, PTL

(* Type correctness.  It includes that no event is counted more often than  *)
(* there are runs of the sink, and that converse() stays within MAX_TURNS.  *)
THEOREM TypeCorrect == Spec => []TypeOK
<1>1. ASSUME IInv PROVE DecisionsTypeOK
    <2>1. DTypes /\ DeliveriesCounted /\ SlackOnce
        BY <1>1 DEF IInv, DInv
    <2>2. IsFiniteSet(Recorded) /\ Recorded \subseteq Sinks
        BY SinksAssumption, FS_Subset DEF Recorded
    <2>3. /\ Cardinality(Recorded) \in Nat /\ Cardinality(Sinks) \in Nat
          /\ Cardinality(Recorded) <= Cardinality(Sinks)
        BY <2>2, SinksAssumption, FS_Subset, FS_CardinalityType
    <2>4. ASSUME NEW e \in Events
          PROVE  deliveries[e] \in 0..Cardinality(Sinks) /\ slack[e] \in 0..Cardinality(Sinks)
        BY <2>1, <2>3 DEF DTypes, DeliveriesCounted, SlackOnce
    <2>5. deliveries \in [Events -> 0..Cardinality(Sinks)] /\ slack \in [Events -> 0..Cardinality(Sinks)]
        BY <2>1, <2>4 DEF DTypes
    <2>6. \A k \in Sinks : sink[k].pc \in SinkPCs /\ sink[k].event \in Events \cup {None}
        BY <2>1 DEF DTypes, SinkRuns
    <2>7. \A s \in Sessions : txn[s] = None \/ txn[s] \in Events
        BY <2>1 DEF DTypes
    <2> QED  BY <2>1, <2>5, <2>6, <2>7 DEF DTypes, DecisionsTypeOK, RequestRows, Users
<1>2. ASSUME IInv, NEW j \in Jobs
      PROVE  /\ job[j].pc \in JobPCs
             /\ job[j].open \subseteq Calls /\ job[j].turn \in 0..MaxTurns
             /\ job[j].pc = "model" => job[j].turn < MaxTurns
             /\ job[j].ran \in BOOLEAN
             /\ job[j].call \in Calls \cup {None} /\ job[j].pending \in Calls \cup {None}
    <2>1. JobOK(job[j], approvals) /\ job[j] \in JobTypes
        BY <1>2, JobHere DEF IInv
    <2>2. /\ job[j].pc \in JobPCs /\ job[j].open \in CallSets /\ job[j].turn \in TurnCounts
          /\ job[j].ran \in Flags /\ job[j].call \in OptCalls /\ job[j].pending \in OptCalls
        BY <2>1 DEF JobTypes
    <2>3. job[j].pc = "model" => job[j].turn < MaxTurns
        BY <2>1 DEF JobOK
    <2> QED  BY <2>2, <2>3 DEF CallSets, TurnCounts, Flags, OptCalls
<1>3. ASSUME IInv
      PROVE  /\ open \subseteq Calls
             /\ pending \in Calls \cup {None} /\ card \in Calls \cup {None}
             /\ waiting \in Jobs \cup {None} /\ chats \in 0..MaxChats /\ truncated \in BOOLEAN
             /\ used \subseteq CallIds /\ audits \subseteq CallIds
             /\ approvals \in [CallIds -> Nat] /\ executed \in [CallIds -> Nat]
    BY <1>3 DEF IInv, AInv, PageTypes, TrailTypes, CallSets, OptCalls, Flags
<1>4. IInv => TypeOK
    BY <1>1, <1>2, <1>3 DEF TypeOK, JobPCs
<1> QED  BY <1>4, Inductive, PTL
=============================================================================
