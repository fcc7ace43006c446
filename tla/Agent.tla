-------------------------------- MODULE Agent --------------------------------
(***************************************************************************)
(* The in-app agent of governed-starter-kit, composed with the database    *)
(* and webhook of Decisions: the assistant page (assistant-client.tsx),    *)
(* the agent Edge Function (agent/index.ts: chat and confirm), its tools   *)
(* (tools.ts) and the model API (llm.ts).                                  *)
(*                                                                         *)
(* A job is one run of the function.  The page waits for the answer of     *)
(* one job; the answer may be lost while the job goes on, and a job may be *)
(* cut off at any await.  Of the transcript only its end matters: the tool *)
(* calls of the last assistant turn that are not answered yet.             *)
(***************************************************************************)
EXTENDS Decisions

CONSTANTS
    Jobs,           \* runs of the function; each has a database session
    CallIds,        \* tool_use ids the model hands out, in this order: 1..n
    Target,         \* the request decide_request names
    MaxTurns,       \* MAX_TURNS
    MaxChats        \* messages the user sends

ASSUME JobsAssumption == Jobs \subseteq Sessions
ASSUME TargetAssumption == Target \in Requests
ASSUME TurnsAssumption == MaxTurns \in Nat \ {0} /\ MaxChats \in Nat
ASSUME CallIdsAssumption == \A n \in CallIds : n \in Nat \ {0} /\ 1..n \subseteq CallIds

Tools == {"read", "create", "decide"}
WriteTools == {"create", "decide"}
Calls == [id: CallIds, tool: Tools]
ASSUME CallsAssumption == None \notin Calls

VARIABLES
    open,           \* the page's transcript: unanswered calls at its end
    pending,        \* the card the page shows: a write call, or None
    card,           \* the card of the confirm under way, put back if it fails
    waiting,        \* the job the page waits for
    chats,          \* messages sent so far
    truncated,      \* the transcript's last answer was cut at max_tokens
    job,            \* the runs of the function
    used,           \* tool_use ids handed out
    approvals,      \* how often the user has confirmed each call
    executed,       \* how often each write call has taken effect
    audits          \* write calls that have a row in agent_audit

page  == <<open, pending, card, waiting, chats, truncated, approvals>>
trail == <<executed, audits>>
vars  == <<tables, hook, page, job, used, trail>>

(* A run: transcript end, the call to execute, whether anything ran, turn,  *)
(* the card, whether the last answer was cut.                               *)
NewJob(l, o, c) ==
    [pc |-> l, open |-> o, call |-> c, ran |-> FALSE, turn |-> 0, pending |-> None, cut |-> FALSE]

TypeOK ==
    /\ DecisionsTypeOK
    /\ open \subseteq Calls
    /\ pending \in Calls \cup {None} /\ card \in Calls \cup {None}
    /\ waiting \in Jobs \cup {None} /\ chats \in 0..MaxChats /\ truncated \in BOOLEAN
    /\ used \subseteq CallIds
    /\ \A j \in Jobs :
          /\ job[j].pc \in {"free", "decline", "execute", "commit", "audit", "model", "reply", "fail", "over"}
          /\ job[j].open \subseteq Calls /\ job[j].turn \in 0..MaxTurns
          /\ job[j].pc = "model" => job[j].turn < MaxTurns
          /\ job[j].ran \in BOOLEAN
          /\ job[j].call \in Calls \cup {None} /\ job[j].pending \in Calls \cup {None}
    /\ approvals \in [CallIds -> Nat] /\ executed \in [CallIds -> Nat] /\ audits \subseteq CallIds

Init ==
    /\ DecisionsInit
    /\ open = {} /\ pending = None /\ card = None /\ waiting = None /\ chats = 0 /\ truncated = FALSE
    /\ job = [j \in Jobs |-> NewJob("free", {}, None)]
    /\ used = {}
    /\ approvals = [i \in CallIds |-> 0]
    /\ executed = [i \in CallIds |-> 0] /\ audits = {}

-----------------------------------------------------------------------------
(* The page. *)

Busy == waiting # None
Ends(j) == job' = [job EXCEPT ![j] = NewJob("over", {}, None)]

(* send(): the transcript and the text go to the function. *)
Send(j) ==
    /\ ~Busy /\ pending = None /\ chats < MaxChats
    /\ job[j].pc = "free"
    /\ job' = [job EXCEPT ![j] = NewJob("model", open, None)]
    /\ waiting' = j /\ chats' = chats + 1
    /\ UNCHANGED <<open, pending, card, truncated, approvals, used, tables, hook, trail>>

(* confirm() checks the call against the transcript before it does anything *)
(* (mutant: it does not look at approve).                                   *)
AfterAnswerRuns(approve) == IF pending \notin open THEN "fail" ELSE "execute"

AfterAnswer(approve) ==
    IF pending \notin open THEN "fail" ELSE IF approve THEN "execute" ELSE "decline"

(* answer(): the card is taken down and the decision sent. *)
Answer(j, approve) ==
    /\ ~Busy /\ pending # None
    /\ job[j].pc = "free"
    /\ job' = [job EXCEPT ![j] = NewJob(AfterAnswer(approve), open, pending)]
    /\ waiting' = j /\ card' = pending /\ pending' = None
    /\ approvals' = IF approve THEN [approvals EXCEPT ![pending.id] = @ + 1] ELSE approvals
    /\ UNCHANGED <<open, chats, truncated, used, tables, hook, trail>>

(* An answer: transcript and card are what the function says they are. *)
Receive(j) ==
    /\ waiting = j /\ job[j].pc = "reply"
    /\ open' = job[j].open /\ pending' = job[j].pending /\ truncated' = job[j].cut
    /\ waiting' = None /\ card' = None
    /\ Ends(j)
    /\ UNCHANGED <<chats, approvals, used, tables, hook, trail>>

(* No answer: an error status, a connection that broke or a gateway that    *)
(* gave up.  The job goes on: a write it was asked for may still be made,   *)
(* what it says to the model after that reaches nobody.                     *)
Fails(j) ==
    /\ waiting = j
    /\ waiting' = None
    /\ IF job[j].pc \in {"execute", "commit", "audit"} THEN UNCHANGED job ELSE Ends(j)
    /\ UNCHANGED <<open, pending, card, chats, truncated, approvals, used, tables, hook, trail>>

(* Mutant: the card is not put back. *)
CardNotPutBack ==
    /\ card # None
    /\ ~\E j \in Jobs : waiting = j /\ job[j].call = card
    /\ card' = None
    /\ UNCHANGED <<open, pending, waiting, chats, truncated, approvals, job, used, tables, hook, trail>>

(* The transcript was not advanced: a card that was being answered is put   *)
(* back.  The error body is awaited first, when the page is busy no longer. *)
PutCardBack ==
    /\ card # None
    /\ ~\E j \in Jobs : waiting = j /\ job[j].call = card
    /\ pending' = card /\ card' = None
    /\ UNCHANGED <<open, waiting, chats, truncated, approvals, job, used, tables, hook, trail>>

-----------------------------------------------------------------------------
(* confirm(): the write, its audit row, and on to the model. *)

Run(j, l) == job' = [job EXCEPT ![j].pc = l]
(* A result for every call of the turn is in the transcript now. *)
Answered(j) ==
    IF waiting = j THEN job' = [job EXCEPT ![j].pc = "model", ![j].open = {}, ![j].ran = TRUE]
    ELSE Ends(j)

Decline(j) ==
    /\ job[j].pc = "decline"
    /\ Answered(j)
    /\ UNCHANGED <<page, used, tables, hook, trail>>

(* create_request: one insert, one statement. *)
Create(j, r) ==
    /\ job[j].pc = "execute" /\ job[j].call.tool = "create"
    /\ Submit(j, r)
    /\ executed' = [executed EXCEPT ![job[j].call.id] = @ + 1]
    /\ Run(j, "audit")
    /\ UNCHANGED <<page, used, audits>>

(* decide_request: the update, then its commit. *)
DecideUpdate(j) ==
    /\ job[j].pc = "execute" /\ job[j].call.tool = "decide"
    /\ Update(j, Target, "approved")
    /\ Run(j, "commit")
    /\ UNCHANGED <<page, used, trail>>

DecideCommit(j) ==
    /\ job[j].pc = "commit"
    /\ Commit(j)
    /\ executed' = [executed EXCEPT ![job[j].call.id] = @ + 1]
    /\ Run(j, "audit")
    /\ UNCHANGED <<page, used, audits>>

(* The database refuses: an error for the model to report, audited too. *)
Refuse(j) ==
    /\ \/ job[j].pc = "execute" /\ job[j].call.tool = "create" /\ UNCHANGED <<tables, hook>>
       \/ /\ job[j].pc = "execute" /\ job[j].call.tool = "decide"
          /\ Unlocked(j, Target) /\ ~MayDecide(j, Target)
          /\ UNCHANGED <<tables, hook>>
       \/ job[j].pc = "commit" /\ Rollback(j)
    /\ Run(j, "audit")
    /\ UNCHANGED <<page, used, trail>>

(* audit(): a failed insert is logged and otherwise ignored. *)
Audit(j) ==
    /\ job[j].pc = "audit"
    /\ audits' \in {audits, audits \cup {job[j].call.id}}
    /\ Answered(j)
    /\ UNCHANGED <<page, used, tables, hook, executed>>

-----------------------------------------------------------------------------
(* converse(): the model, until it answers or proposes a write. *)

(* The model API takes a transcript whose calls are all answered. *)
Sendable(j) == job[j].open = {}

Stops(j, l, o, c) == job' = [job EXCEPT ![j].pc = l, ![j].open = o, ![j].pending = c]

(* A final answer, a refusal (its turn is dropped). *)
ModelAnswers(j) ==
    /\ job[j].pc = "model" /\ Sendable(j)
    /\ Stops(j, "reply", {}, None)
    /\ UNCHANGED <<page, used, tables, hook, trail>>

(* An LlmError: after something ran it is part of the answer. *)
ModelFails(j) ==
    /\ job[j].pc = "model"
    /\ Stops(j, IF job[j].ran THEN "reply" ELSE "fail", job[j].open, None)
    /\ UNCHANGED <<page, used, tables, hook, trail>>

(* Any other exception, such as an answer that is not JSON. *)
Throws(j) ==
    /\ job[j].pc = "model"
    /\ Run(j, "fail")
    /\ UNCHANGED <<page, used, tables, hook, trail>>

(* What the model may ask for in one turn: calls with fresh ids. *)
Turns == UNION {{{[id |-> i, tool |-> t[i]] : i \in 1..n \ used} : t \in [1..n \ used -> Tools]} :
                    n \in CallIds \ used}

(* for (turn = 0; turn < MAX_TURNS; turn++) (mutant: one turn more). *)
AfterReadsLonger(j) == IF job[j].turn < MaxTurns THEN "model" ELSE "reply"

AfterReads(j) == IF job[j].turn + 1 < MaxTurns THEN "model" ELSE "reply"

(* Tool calls: reads run at once, one write is held for confirmation and    *)
(* further writes of the turn are refused; the results of these travel with *)
(* the card.  With no write the loop goes on, up to MAX_TURNS.              *)
ModelCalls(j, cs) ==
    LET writes == {c \in cs : c.tool \in WriteTools}
    IN  /\ job[j].pc = "model" /\ Sendable(j)
        /\ used' = used \cup {c.id : c \in cs}
        /\ IF writes # {}
           THEN \E c \in writes : Stops(j, "reply", cs, c)
           ELSE job' = [job EXCEPT ![j].ran = TRUE, ![j].turn = @ + 1,
                                   ![j].pc = AfterReads(j)]
        /\ UNCHANGED <<page, tables, hook, trail>>

(* An answer cut at max_tokens is final: its calls stay in the transcript   *)
(* and nobody answers them.                                                 *)
ModelTruncated(j, cs) ==
    /\ job[j].pc = "model" /\ Sendable(j)
    /\ used' = used \cup {c.id : c \in cs}
    /\ job' = [job EXCEPT ![j].pc = "reply", ![j].open = cs, ![j].cut = TRUE]
    /\ UNCHANGED <<page, tables, hook, trail>>

(* The runtime ends the job at an await; what it had not committed is       *)
(* rolled back.                                                             *)
CutJob(j) ==
    /\ job[j].pc \notin {"free", "over", "fail", "reply"}
    /\ IF waiting = j THEN Run(j, "fail") ELSE Ends(j)
    /\ IF job[j].pc = "commit" THEN Rollback(j) ELSE UNCHANGED <<tables, hook>>
    /\ UNCHANGED <<page, used, trail>>

-----------------------------------------------------------------------------
(* Other users decide in the app. *)
AppDecides(s) ==
    /\ s \in Sessions \ Jobs
    /\ \/ \E r \in Requests, d \in Decided : Update(s, r, d)
       \/ Commit(s) \/ Rollback(s)
    /\ UNCHANGED <<page, job, used, trail>>

JobStep(j) ==
    \/ Decline(j) \/ DecideUpdate(j) \/ DecideCommit(j) \/ Refuse(j) \/ Audit(j)
    \/ ModelAnswers(j) \/ ModelFails(j) \/ Throws(j) \/ CutJob(j)
    \/ \E r \in Requests : Create(j, r)
    \/ \E cs \in Turns : ModelCalls(j, cs) \/ ModelTruncated(j, cs)

Next ==
    \/ PutCardBack
    \/ \E j \in Jobs : \/ Send(j) \/ Receive(j) \/ Fails(j) \/ JobStep(j)
                       \/ \E approve \in BOOLEAN : Answer(j, approve)
    \/ \E s \in Sessions : AppDecides(s)
    \/ HookStep /\ UNCHANGED <<page, job, used, trail>>

Spec == Init /\ [][Next]_vars

-----------------------------------------------------------------------------
(* What the agent promises. *)

(* Writes are two-step: a write takes effect at most as often as the user   *)
(* has confirmed that very call, whatever is cut off, lost or repeated, and *)
(* is audited only if he has.                                               *)
WritesConfirmed ==
    /\ \A i \in CallIds : executed[i] <= approvals[i]
    /\ \A i \in audits : approvals[i] > 0

(* The page can always go on: when it waits for nothing, its transcript is  *)
(* one the model API takes, or it shows the card of a call the transcript   *)
(* ends on.  The one exception is an answer cut at max_tokens inside a tool *)
(* call.                                                                    *)
NeverStuck ==
    ~Busy /\ card = None /\ ~truncated => IF pending = None THEN open = {} ELSE pending \in open

(* "A failed confirm ran nothing (the function only fails before the        *)
(* write)": a card that is put back is of a call that has not taken effect. *)
FailedConfirmRanNothing == pending # None => executed[pending.id] = 0
=============================================================================
