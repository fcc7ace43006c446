------------------------------- MODULE Session -------------------------------
(***************************************************************************)
(* The session of one region in client-keyed-objects' client/src/ctx.ts:   *)
(* Ck.session() signs in once, Session.token() hands out an access token   *)
(* and refreshes it through one shared request, and Session.grant()        *)
(* retries a request that got no HTTP answer.                              *)
(*                                                                         *)
(* Auth is external.  It rotates the refresh token on every refresh; a     *)
(* token presented again is refused or, inside Auth's reuse interval,      *)
(* answered again.  Time is the client's clock, in steps of the code's     *)
(* 30 s; Auth dates the tokens with a clock of its own, which may be behind *)
(* or ahead and drift.                                                     *)
(***************************************************************************)
EXTENDS Integers, FiniteSets

CONSTANTS
    Callers,        \* concurrent users of the session
    Lifetime,       \* of an access token
    Lags,           \* how far Auth's clock may be behind (ahead: negative)
    Margin,         \* token() refreshes when less than this is left (60 s)
    Timeout,        \* AbortSignal.timeout of one request (30 s)
    Retries,        \* grant gives up at attempt >= 3
    LastCall,       \* no call starts later (bound)
    MaxTokens,      \* nor after Auth has issued so many (bound)
    MaxTime,        \* the clock stops here (bound)
    MaxLosses       \* how many requests or answers get lost (bound)

ASSUME LifetimeAssumption ==
    Lifetime \in Nat /\ Margin \in Nat \ {0} /\ Timeout \in Nat \ {0}
ASSUME LagsAssumption == Lags \subseteq Int
ASSUME BoundAssumption ==
    /\ Retries \in Nat /\ LastCall \in Nat /\ MaxTokens \in Nat
    /\ MaxTime \in Nat /\ MaxLosses \in Nat
ASSUME CallersAssumption == IsFiniteSet(Callers)

VARIABLES
    now,
    signedIn,       \* the promise in Ck.sessions: none, pending or settled
    access,         \* the access token held: expMs, and when it was issued
    refreshToken,   \* the refresh token held
    request,        \* the grant in flight: its fetch, attempt and answer
    pc,             \* per caller: idle, or awaiting session() or token()
    given,          \* per caller: what was left of the token it was last given,
                    \* by the client's clock, and how long ago it was issued
    current,        \* Auth: the refresh token that is valid
    issued,         \* Auth: the access token issued with it
    refused,        \* Auth has refused a refresh token that was used before
    losses,         \* requests and answers lost so far
    answerLost      \* an answer to a refresh was lost

sessionVars == <<now, signedIn, access, refreshToken, request, pc, given, current, issued,
                 refused, losses, answerLost>>

Nothing == -1
NoRequest == [pc |-> "none", attempt |-> 0, due |-> Nothing]

SessionInit ==
    /\ now = 0 /\ signedIn = "none"
    /\ access = [exp |-> 0, at |-> 0] /\ issued = access
    /\ refreshToken = 0 /\ current = 0
    /\ request = NoRequest
    /\ pc = [c \in Callers |-> "idle"]
    /\ given = [c \in Callers |-> [left |-> Lifetime, age |-> 0]]
    /\ refused = FALSE /\ losses = 0 /\ answerLost = FALSE

Sent(attempt) == [pc |-> "sent", attempt |-> attempt, due |-> now + Timeout]

(* The callers in S continue with the access token t. *)
Resume(S, t) ==
    /\ pc' = [c \in Callers |-> IF c \in S THEN "idle" ELSE pc[c]]
    /\ given' = [c \in Callers |-> IF c \in S THEN [left |-> t.exp - now, age |-> now - t.at]
                                   ELSE given[c]]

(* The callers in S get the rejection. *)
Reject(S) ==
    /\ pc' = [c \in Callers |-> IF c \in S THEN "idle" ELSE pc[c]]
    /\ UNCHANGED given

Waiting(l) == {c \in Callers : pc[c] = l}

-----------------------------------------------------------------------------
(* Ck.session() and Session.token(). *)

Calls(c) == pc[c] = "idle" /\ now <= LastCall /\ current < MaxTokens

(* session(): the first caller signs in, the others share its promise. *)
SignIn(c) ==
    /\ Calls(c) /\ signedIn # "settled"
    /\ pc' = [pc EXCEPT ![c] = "session"]
    /\ signedIn' = "pending"
    /\ request' = IF signedIn = "none" THEN Sent(0) ELSE request
    /\ UNCHANGED <<now, access, refreshToken, given, current, issued, refused, losses, answerLost>>

(* Mutant: a token is used until it expires. *)
Expired(t) == t.exp - now <= 0

(* The client compares Auth's date with its own clock. *)
Expiring(t) == t.exp - now < Margin

(* token(): enough is left. *)
TokenFresh(c) ==
    /\ Calls(c) /\ signedIn = "settled"
    /\ ~Expiring(access)
    /\ Resume({c}, access)
    /\ UNCHANGED <<now, signedIn, access, refreshToken, request, current, issued,
                   refused, losses, answerLost>>

(* Mutant: every caller sends a refresh of its own, and the answer of an    *)
(* earlier one is overtaken.                                                *)
TokenRefreshesAlone(c) ==
    /\ Calls(c) /\ signedIn = "settled"
    /\ Expiring(access)
    /\ pc' = [pc EXCEPT ![c] = "token"]
    /\ request' = Sent(0)
    /\ UNCHANGED <<now, signedIn, access, refreshToken, given, current, issued,
                   refused, losses, answerLost>>

(* token(): too little is left; start the refresh or join the one under way.*)
TokenRefreshes(c) ==
    /\ Calls(c) /\ signedIn = "settled"
    /\ Expiring(access)
    /\ pc' = [pc EXCEPT ![c] = "token"]
    /\ request' = IF request.pc = "none" THEN Sent(0) ELSE request
    /\ UNCHANGED <<now, signedIn, access, refreshToken, given, current, issued,
                   refused, losses, answerLost>>

-----------------------------------------------------------------------------
(* Session.grant(). *)

(* Auth dates an access token by its own clock. *)
Issues == \E lag \in Lags : issued' = [exp |-> now - lag + Lifetime, at |-> now]

(* Auth handles the request.  A sign-in starts a new chain of tokens.       *)
AuthGrants ==
    /\ request.pc = "sent"
    /\ signedIn = "settled" => refreshToken = current
    /\ current' = current + 1
    /\ Issues
    /\ request' = [request EXCEPT !.pc = "answered"]
    /\ UNCHANGED <<now, signedIn, access, refreshToken, pc, given, refused, losses, answerLost>>

(* A refresh token that was used before: refused, or answered with the      *)
(* refresh token it was exchanged for and a new access token.               *)
AuthSeesUsed ==
    /\ request.pc = "sent"
    /\ signedIn = "settled" /\ refreshToken # current
    /\ \/ /\ request' = [request EXCEPT !.pc = "refused"]
          /\ refused' = TRUE
          /\ UNCHANGED issued
       \/ /\ request' = [request EXCEPT !.pc = "answered"]
          /\ Issues
          /\ UNCHANGED refused
    /\ UNCHANGED <<now, signedIn, access, refreshToken, pc, given, current, losses, answerLost>>

(* Wrong credentials, a banned user, Auth failing: an answer that is not 200.*)
AuthRefuses ==
    /\ request.pc = "sent"
    /\ losses < MaxLosses /\ losses' = losses + 1
    /\ request' = [request EXCEPT !.pc = "refused"]
    /\ UNCHANGED <<now, signedIn, access, refreshToken, pc, given, current, issued,
                   refused, answerLost>>

(* The answer arrives in time: the tokens are kept. *)
Keeps ==
    /\ request.pc = "answered"
    /\ access' = issued
    /\ refreshToken' = current
    /\ UNCHANGED <<now, current, issued, refused, losses, answerLost>>

(* signIn() is done: everybody who waits for the session calls token(), and *)
(* shares a refresh if Auth's date leaves too little.                       *)
SignedIn ==
    /\ Keeps
    /\ signedIn = "pending" /\ signedIn' = "settled"
    /\ IF Expiring(issued)
       THEN /\ request' = Sent(0)
            /\ pc' = [c \in Callers |-> IF c \in Waiting("session") THEN "token" ELSE pc[c]]
            /\ UNCHANGED given
       ELSE /\ request' = NoRequest
            /\ Resume(Waiting("session"), issued)

(* The refresh is done: token() looks at the date no more. *)
Refreshed ==
    /\ Keeps
    /\ signedIn = "settled" /\ UNCHANGED signedIn
    /\ request' = NoRequest
    /\ Resume(Waiting("token"), issued)

(* grant() throws: a sign-in leaves the map, everybody who waits is told.   *)
GrantFails ==
    /\ request' = NoRequest
    /\ signedIn' = IF signedIn = "pending" THEN "none" ELSE signedIn
    /\ Reject(Waiting("session") \cup Waiting("token"))

(* An HTTP answer, including a refusal, is final. *)
RefusalArrives ==
    /\ request.pc = "refused"
    /\ GrantFails
    /\ UNCHANGED <<now, access, refreshToken, current, issued, refused, losses, answerLost>>

(* The headers arrive but the body does not: an answer without a token.     *)
BodyLost ==
    /\ request.pc = "answered"
    /\ losses < MaxLosses /\ losses' = losses + 1
    /\ answerLost' = TRUE
    /\ GrantFails
    /\ UNCHANGED <<now, access, refreshToken, current, issued, refused>>

(* The back-off of attempt + 1 seconds, 1 to 3, is short against a step of  *)
(* the clock: it passes within one or reaches into the next.                *)
Backoff == {0, 1}

(* No HTTP answer: back off and try again, or give up. *)
RetryOrGiveUp ==
    IF request.attempt >= Retries
    THEN GrantFails
    ELSE /\ \E pause \in Backoff :
                request' = [request EXCEPT !.pc = "backoff", !.due = now + pause]
         /\ UNCHANGED <<pc, given, signedIn>>

(* The request never reaches Auth, or the answer is lost on the way back.   *)
NetworkFails ==
    /\ request.pc \in {"sent", "answered"}
    /\ losses < MaxLosses /\ losses' = losses + 1
    /\ answerLost' = (answerLost \/ request.pc = "answered")
    /\ RetryOrGiveUp
    /\ UNCHANGED <<now, access, refreshToken, current, issued, refused>>

(* Mutant: fetch has no time limit. *)
TimesOutNever == request.pc = "aborted" /\ UNCHANGED sessionVars

(* The request is aborted after 30 s. *)
TimesOut ==
    /\ request.pc \in {"sent", "answered", "refused"}
    /\ now >= request.due
    /\ answerLost' = (answerLost \/ request.pc = "answered")
    /\ RetryOrGiveUp
    /\ UNCHANGED <<now, access, refreshToken, current, issued, refused, losses>>

Retry ==
    /\ request.pc = "backoff"
    /\ now >= request.due
    /\ request' = Sent(request.attempt + 1)
    /\ UNCHANGED <<now, signedIn, access, refreshToken, pc, given, current, issued,
                   refused, losses, answerLost>>

Tick ==
    /\ now < MaxTime
    /\ request.pc = "none" \/ now < request.due
    /\ now' = now + 1
    /\ UNCHANGED <<signedIn, access, refreshToken, request, pc, given, current, issued,
                   refused, losses, answerLost>>

(* The bound on the clock is reached and nobody waits. *)
Over == now = MaxTime /\ request.pc = "none" /\ UNCHANGED sessionVars

Grant == \/ SignedIn \/ Refreshed \/ RefusalArrives \/ BodyLost \/ NetworkFails \/ TimesOut \/ Retry
         \/ AuthGrants \/ AuthSeesUsed \/ AuthRefuses

SessionNext ==
    \/ \E c \in Callers : SignIn(c) \/ TokenFresh(c) \/ TokenRefreshes(c)
    \/ Grant \/ Tick \/ Over

SessionSpec == SessionInit /\ [][SessionNext]_sessionVars

(* Time passes, timers fire and answers are read.  Nothing is assumed of    *)
(* Auth or of the network: a request may stay without an answer.            *)
FairSpec ==
    /\ SessionSpec
    /\ WF_sessionVars(Tick) /\ WF_sessionVars(TimesOut)
    /\ WF_sessionVars(Retry) /\ WF_sessionVars(RefusalArrives)

-----------------------------------------------------------------------------
(* What a session promises. *)

(* What token() hands out is good for a request: it has the margin left by  *)
(* the client's clock or Auth issued it at most a timeout ago, however many *)
(* callers shared the refresh, however often it was retried and whatever    *)
(* Auth's clock shows.                                                      *)
TokensUsable == \A c \in Callers : given[c].left >= Margin \/ given[c].age <= Timeout

(* token()'s comment, "A token with at least 60 s left". *)
MarginLeft == \A c \in Callers : given[c].left >= Margin

(* No caller awaits a promise that nobody will settle: while one waits in   *)
(* session() or token(), a grant is under way.                              *)
NobodyOrphaned == \A c \in Callers : pc[c] # "idle" => request.pc # "none"

(* Auth is never shown a used refresh token by concurrent callers: only     *)
(* the retry after a lost answer can do that.                               *)
UsedOnlyAfterLoss == refused => answerLost

(* Every call of session() and token() settles. *)
CallsSettle == \A c \in Callers : (pc[c] # "idle") ~> (pc[c] = "idle")
=============================================================================
