------------------------------ MODULE Decisions ------------------------------
(***************************************************************************)
(* Purchase requests of governed-starter-kit and the webhook their         *)
(* decisions send: the table and policies of sql/10-app.sql, the trigger   *)
(* and receipts of sql/30-integrations.sql, pg_net, and the webhook-sink   *)
(* Edge Function with its Slack forward.                                   *)
(*                                                                         *)
(* Sessions are database sessions of users; several may decide the same    *)
(* request at once.  A transaction may roll back, a delivery may be lost   *)
(* or repeated, and a run of the sink may be cut off at any await.         *)
(***************************************************************************)
EXTENDS Integers, FiniteSets

CONSTANTS
    Sessions,       \* database sessions, each of one user
    User,           \* the user of each session; all are managers of one department
    Requests,       \* purchase requests that may come to exist
    Initial,        \* those pending at the start, submitted by somebody else
    Sinks,          \* runs of the webhook sink
    None

ASSUME SessionsAssumption == IsFiniteSet(Sessions) /\ None \notin Sessions
ASSUME InitialAssumption == Initial \subseteq Requests
ASSUME SinksAssumption == IsFiniteSet(Sinks)

Decided == {"approved", "rejected"}
Events == [req: Requests, status: Decided]      \* event_id is request and status
ASSUME EventsAssumption == None \notin Events
SinkPCs == {"free", "record", "forward", "over"}

VARIABLES
    request,        \* rows of purchase_requests
    txn,            \* per session: the update it has made and not committed
    queue,          \* events put into net.http_request_queue
    sink,           \* runs of the sink
    deliveries,     \* webhook_receipts: deliveries of each event, 0 if no row
    slack           \* messages that reached Slack

tables == <<request, txn>>
hook   == <<queue, sink, deliveries, slack>>

DecisionsTypeOK ==
    /\ request \in [Requests -> [status: {"absent", "pending"} \cup Decided,
                                 by: {User[s] : s \in Sessions} \cup {None},
                                 decidedBy: {User[s] : s \in Sessions} \cup {None}]]
    /\ \A s \in Sessions : txn[s] = None \/ txn[s] \in Events
    /\ queue \subseteq Events
    /\ \A k \in Sinks : sink[k].pc \in SinkPCs /\ sink[k].event \in Events \cup {None}
    /\ deliveries \in [Events -> 0..Cardinality(Sinks)]
    /\ slack \in [Events -> 0..Cardinality(Sinks)]

DecisionsInit ==
    /\ request = [r \in Requests |->
                    [status |-> IF r \in Initial THEN "pending" ELSE "absent",
                     by |-> None, decidedBy |-> None]]
    /\ txn = [s \in Sessions |-> None]
    /\ queue = {}
    /\ sink = [k \in Sinks |-> [pc |-> "free", event |-> None]]
    /\ deliveries = [e \in Events |-> 0]
    /\ slack = [e \in Events |-> 0]

-----------------------------------------------------------------------------
(* The database. *)

(* Insert: requester and status come from column defaults. *)
Submit(s, r) ==
    /\ request[r].status = "absent"
    /\ request' = [request EXCEPT ![r].status = "pending", ![r].by = User[s]]
    /\ UNCHANGED <<txn, hook>>

(* No other session holds the row. *)
Unlocked(s, r) == ~\E t \in Sessions \ {s} : txn[t] # None /\ txn[t].req = r

(* Mutant: the policy leaves out status = 'pending'. *)
MayDecideAgain(s, r) == request[r].status # "absent" /\ request[r].by # User[s]

(* Policy "requests: manager decides". *)
MayDecide(s, r) == request[r].status = "pending" /\ request[r].by # User[s]

(* decide_purchase_request: an update that waits for the row and sees it as *)
(* it was committed; no row means an exception.                             *)
Update(s, r, d) ==
    /\ txn[s] = None /\ Unlocked(s, r) /\ MayDecide(s, r)
    /\ txn' = [txn EXCEPT ![s] = [req |-> r, status |-> d]]
    /\ UNCHANGED <<request, hook>>

(* The commit.  The trigger has queued the event in the same transaction.   *)
(* Nothing makes a delivery happen, so an event a failing trigger did not   *)
(* queue, or pg_net dropped, is one that is never delivered.                *)
Commit(s) ==
    LET e == txn[s]
    IN  /\ e # None
        /\ request' = [request EXCEPT ![e.req].status = e.status, ![e.req].decidedBy = User[s]]
        /\ txn' = [txn EXCEPT ![s] = None]
        /\ queue' = queue \cup {e}
        /\ UNCHANGED <<sink, deliveries, slack>>

(* Mutant: the event goes out before the commit, as a synchronous call would.*)
RollbackSends(s) ==
    /\ txn[s] # None
    /\ txn' = [txn EXCEPT ![s] = None]
    /\ queue' = queue \cup {txn[s]}
    /\ UNCHANGED <<request, sink, deliveries, slack>>

Rollback(s) ==
    /\ txn[s] # None
    /\ txn' = [txn EXCEPT ![s] = None]
    /\ UNCHANGED <<request, hook>>

-----------------------------------------------------------------------------
(* Delivery and the sink. *)

(* pg_net posts the event; the same event may be posted again. *)
Deliver(e, k) ==
    /\ e \in queue /\ sink[k].pc = "free"
    /\ sink' = [sink EXCEPT ![k] = [pc |-> "record", event |-> e]]
    /\ UNCHANGED <<tables, queue, deliveries, slack>>

SinkEnds(k) == sink' = [sink EXCEPT ![k] = [pc |-> "over", event |-> None]]

(* Mutant: every delivery is forwarded. *)
AfterRecordAlways(n) == "forward"

(* With a Slack URL, the first delivery is forwarded. *)
AfterRecord(n) == IF n = 1 THEN "forward" ELSE "over"

(* record_webhook_receipt: insert, or count one more delivery. *)
Record(k) ==
    LET e == sink[k].event
    IN  /\ sink[k].pc = "record"
        /\ deliveries' = [deliveries EXCEPT ![e] = @ + 1]
        /\ IF AfterRecord(deliveries[e] + 1) = "over" THEN SinkEnds(k)
           ELSE sink' = [sink EXCEPT ![k].pc = "forward"]
        /\ UNCHANGED <<tables, queue, slack>>

(* forwardToSlack: posted, or not; a timeout may be either.  What            *)
(* note_webhook_forward then writes to the receipt nobody reads.            *)
Forward(k) ==
    /\ sink[k].pc = "forward"
    /\ \E n \in {0, 1} : slack' = [slack EXCEPT ![sink[k].event] = @ + n]
    /\ SinkEnds(k)
    /\ UNCHANGED <<tables, queue, deliveries>>

(* The function is cut off, or the receipt cannot be recorded. *)
CutSink(k) ==
    /\ sink[k].pc \in {"record", "forward"}
    /\ SinkEnds(k)
    /\ UNCHANGED <<tables, queue, deliveries, slack>>

HookStep ==
    \/ \E e \in Events, k \in Sinks : Deliver(e, k)
    \/ \E k \in Sinks : Record(k) \/ Forward(k) \/ CutSink(k)

-----------------------------------------------------------------------------
(* What the integration promises. *)

(* A decision is made once and stays, whoever else decides at the same time *)
(* or repeats a call, and nobody decides a request of his own.              *)
DecisionsFinal ==
    [][\A r \in Requests :
          /\ request[r].status \in Decided => request'[r] = request[r]
          /\ request'[r].decidedBy # None => request'[r].decidedBy # request'[r].by
      ]_<<tables, hook>>

(* The receiver is told of nothing but committed decisions: an event that   *)
(* is queued, at the sink, recorded or in Slack is the status of its        *)
(* request.  A rolled-back decision sends nothing.                          *)
ToldTruth ==
    \A e \in Events :
        (\/ e \in queue \/ deliveries[e] > 0 \/ slack[e] > 0
         \/ \E k \in Sinks : sink[k].event = e)
        => request[e.req].status = e.status

(* "The first delivery of each event is also posted": a decision reaches    *)
(* Slack at most once, and only with a receipt, however often its event is  *)
(* delivered and however the runs of the sink overlap.                      *)
SlackOnce == \A e \in Events : slack[e] <= 1 /\ slack[e] <= deliveries[e]
=============================================================================
