----------------------------- MODULE AccessProofs ----------------------------
(***************************************************************************)
(* What a client needs to get at an asset: proofs about Session and Read.  *)
(*                                                                         *)
(* Session, for any number of callers and any lifetime, margin, timeout and *)
(* distance of the two clocks.  TokensUsable rests on the timer: a request  *)
(* is over when its timeout is, so an answer is never older than that; how  *)
(* much is left of it by the client's clock is known only if the clocks are *)
(* close (SkewSmall).  UsedOnlyAfterLoss rests on Auth and the session agreeing   *)
(* on the refresh token whenever no answer is on its way and none was lost. *)
(*                                                                         *)
(* Read, for every size, chunk size, tag length and window.  A plaintext   *)
(* and a stored object are both stretches of an endless function of        *)
(* places, and so is what the code cuts out of them and puts together      *)
(* again: lemmas say that cutting and gluing stretches gives stretches, and *)
(* how envelope.ts reckons; the invariant of a read comes after them.      *)
(***************************************************************************)
EXTENDS Session, Read, TLAPS, WellFoundedInduction, SequenceTheorems

-----------------------------------------------------------------------------
(* Session. *)

RequestPCs == {"none", "sent", "answered", "refused", "backoff"}
Tokens == [exp : Int, at : Int]
Requests == [pc : RequestPCs, attempt : Nat, due : Int]

SessionTypes ==
    /\ now \in Nat /\ access \in Tokens /\ issued \in Tokens
    /\ refreshToken \in Nat /\ current \in Nat
    /\ signedIn \in {"none", "pending", "settled"}
    /\ request \in Requests
    /\ pc \in [Callers -> {"idle", "session", "token"}]
    /\ given \in [Callers -> [left : Int, age : Int]]

(* The margin and the time an answer may take fit into what a lifetime is   *)
(* by the client's clock.                                                   *)
SkewSmall == Margin <= Lifetime /\ \A lag \in Lags : Margin + Timeout + lag <= Lifetime

(* A request never outlives its timer, and the access token in an answer    *)
(* was issued after the request was sent.                                   *)
InTime ==
    /\ request.pc # "none" => now <= request.due
    /\ request.pc = "sent" => now >= request.due - Timeout
    /\ request.pc = "answered" =>
          /\ issued.at >= request.due - Timeout
          /\ SkewSmall => issued.exp - issued.at >= Margin + Timeout

(* The session holds the refresh token that Auth takes, unless the answer   *)
(* with the next one is on its way or was lost.                             *)
Agreed ==
    signedIn = "settled" /\ ~answerLost /\ request.pc # "answered" => refreshToken = current

(* Whoever waits, waits for a request. *)
WaitersServed ==
    /\ signedIn = "pending" => request.pc # "none"
    /\ signedIn = "none" => request.pc = "none"
    /\ \A c \in Callers :
          /\ pc[c] = "session" => signedIn = "pending"
          /\ pc[c] = "token" => signedIn = "settled" /\ request.pc # "none"

TokensGood == TokensUsable /\ (SkewSmall => MarginLeft)

SessionInv == SessionTypes /\ InTime /\ Agreed /\ WaitersServed /\ TokensGood /\ UsedOnlyAfterLoss

-----------------------------------------------------------------------------
LEMMA SentTyped ==
    ASSUME SessionInv, NEW a \in Nat
    PROVE  /\ Sent(a) \in Requests
           /\ Sent(a).pc = "sent" /\ Sent(a).due = now + Timeout
BY LifetimeAssumption DEF SessionInv, SessionTypes, Requests, RequestPCs, Sent

LEMMA NoRequestTyped == NoRequest \in Requests /\ NoRequest.pc = "none"
BY DEF NoRequest, Requests, RequestPCs, Nothing

LEMMA SessionInitInv == ASSUME SessionInit PROVE SessionInv
<1> USE LifetimeAssumption, NoRequestTyped DEF SessionInit
<1>0. access \in Tokens /\ issued \in Tokens /\ given \in [Callers -> [left : Int, age : Int]]
    BY DEF Tokens
<1>1. SessionTypes
    BY <1>0 DEF SessionTypes
<1>2. InTime /\ Agreed /\ UsedOnlyAfterLoss
    BY DEF InTime, Agreed, UsedOnlyAfterLoss
<1>3. WaitersServed /\ TokensGood
    BY DEF WaitersServed, TokensGood, TokensUsable, MarginLeft, SkewSmall
<1> QED  BY <1>1, <1>2, <1>3 DEF SessionInv

(* A caller starts to wait, with the request it starts or finds. *)
LEMMA SignInKeeps == ASSUME SessionInv, NEW c \in Callers, SignIn(c) PROVE SessionInv'
<1> USE LifetimeAssumption DEF SessionInv
<1>1. request' \in Requests
    BY SentTyped DEF SignIn, SessionTypes
<1>2. SessionTypes'
    BY <1>1 DEF SessionTypes, SignIn
<1>3. InTime'
    BY SentTyped DEF SessionTypes, SignIn, InTime, WaitersServed
<1>4. Agreed' /\ TokensGood' /\ UsedOnlyAfterLoss'
    BY DEF SignIn, Agreed, TokensGood, TokensUsable, MarginLeft, UsedOnlyAfterLoss
<1>5. WaitersServed'
    BY SentTyped DEF SessionTypes, SignIn, WaitersServed, Calls
<1> QED  BY <1>2, <1>3, <1>4, <1>5

(* Everybody in S continues with the token t, which has its margin or is    *)
(* new enough.                                                              *)
LEMMA ResumeGood ==
    ASSUME SessionInv, NEW t \in Tokens, NEW S, Resume(S, t),
           t.exp - now >= Margin \/ now - t.at <= Timeout,
           SkewSmall => t.exp - now >= Margin
    PROVE  /\ TokensGood'
           /\ given' \in [Callers -> [left : Int, age : Int]]
           /\ pc' \in [Callers -> {"idle", "session", "token"}]
<1>1. t.exp - now \in Int /\ now - t.at \in Int
    BY DEF SessionInv, SessionTypes, Tokens
<1>2. ASSUME NEW c \in Callers
      PROVE  given'[c] = IF c \in S THEN [left |-> t.exp - now, age |-> now - t.at]
                         ELSE given[c]
    BY DEF Resume
<1>3. TokensUsable'
    BY <1>1, <1>2 DEF SessionInv, TokensGood, TokensUsable
<1>4. ASSUME SkewSmall PROVE MarginLeft'
    BY <1>1, <1>2, <1>4 DEF SessionInv, TokensGood, MarginLeft
<1>5. given' \in [Callers -> [left : Int, age : Int]]
    BY <1>1 DEF SessionInv, SessionTypes, Resume
<1>6. pc' \in [Callers -> {"idle", "session", "token"}]
    BY DEF SessionInv, SessionTypes, Resume
<1> QED  BY <1>3, <1>4, <1>5, <1>6 DEF TokensGood, SkewSmall

LEMMA TokenFreshKeeps == ASSUME SessionInv, NEW c \in Callers, TokenFresh(c) PROVE SessionInv'
<1> USE DEF SessionInv, TokenFresh
<1>1. access.exp - now >= Margin /\ access \in Tokens
    BY LifetimeAssumption DEF SessionTypes, Tokens, Expiring
<1>2. SessionTypes' /\ TokensGood'
    BY <1>1, ResumeGood DEF SessionTypes
<1>3. InTime' /\ Agreed' /\ UsedOnlyAfterLoss'
    BY DEF InTime, Agreed, UsedOnlyAfterLoss
<1>4. WaitersServed'
    BY DEF SessionTypes, WaitersServed, Resume
<1> QED  BY <1>2, <1>3, <1>4

LEMMA TokenRefreshesKeeps ==
    ASSUME SessionInv, NEW c \in Callers, TokenRefreshes(c)
    PROVE  SessionInv'
<1> USE LifetimeAssumption DEF SessionInv
<1>1. request' \in Requests
    BY SentTyped DEF TokenRefreshes, SessionTypes
<1>2. SessionTypes'
    BY <1>1 DEF SessionTypes, TokenRefreshes
<1>3. InTime'
    BY SentTyped DEF SessionTypes, TokenRefreshes, InTime
<1>4. Agreed' /\ TokensGood' /\ UsedOnlyAfterLoss'
    BY SentTyped DEF TokenRefreshes, Agreed, TokensGood, TokensUsable, MarginLeft, UsedOnlyAfterLoss
<1>5. WaitersServed'
    BY SentTyped DEF SessionTypes, TokenRefreshes, WaitersServed
<1> QED  BY <1>2, <1>3, <1>4, <1>5

-----------------------------------------------------------------------------
(* Auth. *)

(* What Auth issues while the request is under way. *)
LEMMA IssuesGood ==
    ASSUME SessionInv, Issues, request.pc = "sent", request' = [request EXCEPT !.pc = "answered"],
           now' = now
    PROVE  issued' \in Tokens /\ request' \in Requests /\ InTime'
<1> USE LifetimeAssumption, LagsAssumption DEF SessionInv
<1>1. PICK lag \in Lags : issued' = [exp |-> now - lag + Lifetime, at |-> now]
    BY DEF Issues
<1>2. lag \in Int /\ now \in Int /\ now - lag + Lifetime \in Int
    BY DEF SessionTypes
<1>3. issued' \in Tokens
    BY <1>1, <1>2 DEF Tokens
<1>4. request' \in Requests /\ request'.pc = "answered" /\ request'.due = request.due
    BY DEF SessionTypes, Requests, RequestPCs
<1>5. now <= request.due /\ now >= request.due - Timeout
    BY DEF InTime
<1>6. SkewSmall => issued'.exp - issued'.at >= Margin + Timeout
    BY <1>1, <1>2 DEF SkewSmall
<1>7. SkewSmall' <=> SkewSmall
    BY DEF SkewSmall
<1> QED  BY <1>1, <1>2, <1>3, <1>4, <1>5, <1>6, <1>7 DEF InTime

LEMMA AuthGrantsKeeps == ASSUME SessionInv, AuthGrants PROVE SessionInv'
<1> USE DEF SessionInv, AuthGrants
<1>1. SessionTypes' /\ InTime'
    BY IssuesGood DEF SessionTypes
<1>2. TokensGood' /\ UsedOnlyAfterLoss'
    BY DEF TokensGood, TokensUsable, MarginLeft, SkewSmall, UsedOnlyAfterLoss
<1>3. Agreed' /\ WaitersServed'
    BY DEF SessionTypes, Requests, Agreed, WaitersServed
<1> QED  BY <1>1, <1>2, <1>3

LEMMA AuthSeesUsedKeeps == ASSUME SessionInv, AuthSeesUsed PROVE SessionInv'
<1> USE DEF SessionInv, AuthSeesUsed
<1>1. answerLost
    BY DEF Agreed
<1>2. TokensGood' /\ UsedOnlyAfterLoss' /\ Agreed'
    BY <1>1 DEF TokensGood, TokensUsable, MarginLeft, SkewSmall, UsedOnlyAfterLoss, Agreed
<1>3. WaitersServed'
    BY DEF SessionTypes, Requests, WaitersServed
<1>4. CASE request' = [request EXCEPT !.pc = "refused"] /\ UNCHANGED issued
    <2>1. SessionTypes'
        BY <1>4 DEF SessionTypes, Requests, RequestPCs
    <2>2. InTime'
        BY <1>4 DEF SessionTypes, InTime, Requests
    <2> QED  BY <1>2, <1>3, <2>1, <2>2
<1>5. CASE request' = [request EXCEPT !.pc = "answered"] /\ Issues
    BY <1>2, <1>3, <1>5, IssuesGood DEF SessionTypes
<1> QED  BY <1>4, <1>5

LEMMA AuthRefusesKeeps == ASSUME SessionInv, AuthRefuses PROVE SessionInv'
<1> USE LifetimeAssumption DEF SessionInv, AuthRefuses
<1>1. SessionTypes'
    BY DEF SessionTypes, Requests, RequestPCs
<1>2. InTime'
    BY DEF SessionTypes, InTime, Requests
<1>3. Agreed' /\ TokensGood' /\ UsedOnlyAfterLoss' /\ WaitersServed'
    BY DEF SessionTypes, Requests, Agreed, TokensGood, TokensUsable, MarginLeft, UsedOnlyAfterLoss, WaitersServed
<1> QED  BY <1>1, <1>2, <1>3

-----------------------------------------------------------------------------
(* The session. *)

LEMMA AnswerInTime ==
    ASSUME SessionInv, request.pc = "answered"
    PROVE  /\ issued \in Tokens
           /\ now - issued.at <= Timeout
           /\ SkewSmall => issued.exp - now >= Margin
BY LifetimeAssumption DEF SessionInv, SessionTypes, Requests, Tokens, InTime

LEMMA RefreshedKeeps == ASSUME SessionInv, Refreshed PROVE SessionInv'
<1> USE DEF SessionInv, Refreshed, Keeps
<1>1. TokensGood' /\ SessionTypes'
    BY AnswerInTime, ResumeGood, NoRequestTyped DEF SessionTypes
<1>2. InTime' /\ Agreed' /\ UsedOnlyAfterLoss'
    BY NoRequestTyped DEF SessionTypes, InTime, Agreed, UsedOnlyAfterLoss
<1>3. \A c \in Callers : pc'[c] = "idle"
    BY DEF SessionTypes, Waiting, WaitersServed, Resume
<1>4. WaitersServed'
    BY <1>3 DEF WaitersServed
<1> QED  BY <1>1, <1>2, <1>4

LEMMA SignedInKeeps == ASSUME SessionInv, SignedIn PROVE SessionInv'
<1> USE DEF SessionInv, SignedIn, Keeps
<1>1. Agreed' /\ UsedOnlyAfterLoss'
    BY DEF Agreed, UsedOnlyAfterLoss
<1>2. CASE Expiring(issued)
    <2>1. request' = Sent(0) /\ request' \in Requests /\ UNCHANGED given
        BY <1>2, SentTyped
    <2>2. pc' = [c \in Callers |-> IF c \in Waiting("session") THEN "token" ELSE pc[c]]
        BY <1>2
    <2>3. SessionTypes' /\ TokensGood'
        BY <2>1, <2>2 DEF SessionTypes, TokensGood, TokensUsable, MarginLeft
    <2>4. InTime'
        BY <2>1, SentTyped, LifetimeAssumption DEF SessionTypes, InTime
    <2>5. WaitersServed'
        BY <2>1, <2>2, SentTyped DEF SessionTypes, Waiting, WaitersServed
    <2> QED  BY <1>1, <2>3, <2>4, <2>5
<1>3. CASE ~Expiring(issued)
    <2>1. TokensGood' /\ SessionTypes'
        BY <1>3, AnswerInTime, ResumeGood, NoRequestTyped DEF SessionTypes
    <2>2. InTime'
        BY <1>3, NoRequestTyped DEF InTime
    <2>3. \A c \in Callers : pc'[c] = "idle"
        BY <1>3 DEF SessionTypes, Waiting, WaitersServed, Resume
    <2>4. WaitersServed'
        BY <2>3 DEF WaitersServed
    <2> QED  BY <1>1, <2>1, <2>2, <2>4
<1> QED  BY <1>2, <1>3

(* What the ways for grant() to fail have in common. *)
LEMMA GrantFailsKeeps ==
    ASSUME SessionInv, GrantFails, UNCHANGED <<now, access, refreshToken, current, issued, refused>>,
           answerLost \/ request.pc = "answered" => answerLost'
    PROVE  SessionInv'
<1> USE DEF SessionInv, GrantFails, Reject
<1>1. SessionTypes'
    BY NoRequestTyped DEF SessionTypes
<1>2. InTime' /\ TokensGood'
    BY NoRequestTyped DEF InTime, TokensGood, TokensUsable, MarginLeft
<1>3. Agreed' /\ UsedOnlyAfterLoss'
    BY NoRequestTyped DEF Agreed, UsedOnlyAfterLoss, SessionTypes
<1>4. \A c \in Callers : pc'[c] = "idle"
    BY DEF SessionTypes, Waiting
<1>5. WaitersServed'
    BY <1>4, NoRequestTyped DEF WaitersServed, SessionTypes
<1> QED  BY <1>1, <1>2, <1>3, <1>5

LEMMA RetryOrGiveUpKeeps ==
    ASSUME SessionInv, RetryOrGiveUp, request.pc # "none",
           UNCHANGED <<now, access, refreshToken, current, issued, refused>>,
           answerLost \/ request.pc = "answered" => answerLost'
    PROVE  SessionInv'
<1>1. CASE request.attempt >= Retries
    BY <1>1, GrantFailsKeeps DEF RetryOrGiveUp
<1>2. CASE ~(request.attempt >= Retries)
    <2> USE <1>2 DEF SessionInv
    <2>1. PICK pause \in Backoff :
              request' = [request EXCEPT !.pc = "backoff", !.due = now + pause]
        BY DEF RetryOrGiveUp
    <2>2. UNCHANGED <<pc, given, signedIn>>
        BY DEF RetryOrGiveUp
    <2>3. now + pause \in Int
        BY DEF SessionTypes, Backoff
    <2>4. request' \in Requests
        BY <2>1, <2>3 DEF SessionTypes, Requests, RequestPCs
    <2>5. SessionTypes'
        BY <2>4, <2>2 DEF SessionTypes
    <2>6. InTime' /\ TokensGood'
        BY <2>1, <2>2 DEF InTime, TokensGood, TokensUsable, MarginLeft, Backoff, SessionTypes, Requests
    <2>7. Agreed' /\ UsedOnlyAfterLoss' /\ WaitersServed'
        BY <2>1, <2>2 DEF Agreed, UsedOnlyAfterLoss, WaitersServed, SessionTypes, Requests
    <2> QED  BY <2>5, <2>6, <2>7
<1> QED  BY <1>1, <1>2

LEMMA RetryKeeps == ASSUME SessionInv, Retry PROVE SessionInv'
<1> USE LifetimeAssumption DEF SessionInv, Retry
<1>0. request.attempt + 1 \in Nat
    BY DEF SessionTypes, Requests
<1>1. SessionTypes'
    BY <1>0, SentTyped DEF SessionTypes
<1>2. InTime' /\ TokensGood'
    BY <1>0, SentTyped DEF InTime, TokensGood, TokensUsable, MarginLeft, SessionTypes
<1>3. Agreed' /\ UsedOnlyAfterLoss' /\ WaitersServed'
    BY <1>0, SentTyped DEF Agreed, UsedOnlyAfterLoss, WaitersServed
<1> QED  BY <1>1, <1>2, <1>3

LEMMA TickKeeps == ASSUME SessionInv, Tick PROVE SessionInv'
<1> USE LifetimeAssumption DEF SessionInv, Tick
<1>1. SessionTypes'
    BY DEF SessionTypes
<1>2. InTime' /\ TokensGood'
    BY DEF InTime, TokensGood, TokensUsable, MarginLeft, SessionTypes, Requests
<1>3. Agreed' /\ UsedOnlyAfterLoss' /\ WaitersServed'
    BY DEF Agreed, UsedOnlyAfterLoss, WaitersServed
<1> QED  BY <1>1, <1>2, <1>3

LEMMA SessionKeeps == ASSUME SessionInv, [SessionNext]_sessionVars PROVE SessionInv'
<1>1. CASE \E c \in Callers : SignIn(c) \/ TokenFresh(c) \/ TokenRefreshes(c)
    BY <1>1, SignInKeeps, TokenFreshKeeps, TokenRefreshesKeeps
<1>2. CASE AuthGrants \/ AuthSeesUsed \/ AuthRefuses
    BY <1>2, AuthGrantsKeeps, AuthSeesUsedKeeps, AuthRefusesKeeps
<1>3. CASE SignedIn \/ Refreshed \/ Retry \/ Tick
    BY <1>3, SignedInKeeps, RefreshedKeeps, RetryKeeps, TickKeeps
<1>4. CASE RefusalArrives
    BY <1>4, GrantFailsKeeps DEF RefusalArrives, SessionInv, SessionTypes
<1>5. CASE BodyLost
    BY <1>5, GrantFailsKeeps DEF BodyLost
<1>6. CASE NetworkFails
    BY <1>6, RetryOrGiveUpKeeps DEF NetworkFails, SessionInv, SessionTypes
<1>7. CASE TimesOut
    BY <1>7, RetryOrGiveUpKeeps DEF TimesOut, SessionInv, SessionTypes
<1>8. CASE UNCHANGED sessionVars
    BY <1>8 DEF sessionVars, SessionInv, SessionTypes, InTime, Agreed, WaitersServed, TokensGood, TokensUsable, MarginLeft,
                UsedOnlyAfterLoss
<1> QED
    BY <1>1, <1>2, <1>3, <1>4, <1>5, <1>6, <1>7, <1>8 DEF SessionNext, Grant, Over

-----------------------------------------------------------------------------
LEMMA SessionInductive == SessionSpec => []SessionInv
<1>1. SessionInit => SessionInv  BY SessionInitInv
<1>2. SessionInv /\ [SessionNext]_sessionVars => SessionInv'  BY SessionKeeps
<1> QED  BY <1>1, <1>2, PTL DEF SessionSpec

(* Every token that session() or token() hands out has the margin left by   *)
(* the client's clock or was issued at most a timeout ago, whoever shared   *)
(* the refresh, however often it was retried and whatever Auth's clock is.  *)
THEOREM Usable == SessionSpec => []TokensUsable
<1>1. SessionInv => TokensUsable  BY DEF SessionInv, TokensGood
<1> QED  BY <1>1, SessionInductive, PTL

(* token()'s comment holds as long as the margin, a timeout and what Auth's *)
(* clock is behind fit into a lifetime.                                     *)
THEOREM MarginKept == ASSUME SkewSmall PROVE SessionSpec => []MarginLeft
<1>1. SessionInv => MarginLeft  BY DEF SessionInv, TokensGood
<1> QED  BY <1>1, SessionInductive, PTL

(* Auth refuses a used refresh token only after an answer was lost: the     *)
(* shared request keeps concurrent callers from presenting one twice.       *)
THEOREM RefusedAfterLoss == SessionSpec => []UsedOnlyAfterLoss
<1>1. SessionInv => UsedOnlyAfterLoss  BY DEF SessionInv
<1> QED  BY <1>1, SessionInductive, PTL

(* A caller that waits in session() or token() waits for a grant under way, *)
(* in every interleaving of failures, retries and new callers.              *)
THEOREM Served == SessionSpec => []NobodyOrphaned
<1>1. SessionInv => NobodyOrphaned
    BY DEF SessionInv, SessionTypes, WaitersServed, NobodyOrphaned
<1> QED  BY <1>1, SessionInductive, PTL

-----------------------------------------------------------------------------
(* Induction.  The library's rules take the claim as an operator; here it   *)
(* is the set of the numbers it holds for.                                  *)

LEMMA Least ==
    ASSUME NEW S, S \subseteq Nat, S # {}
    PROVE  \E n \in S : \A m \in S : n <= m
<1> DEFINE R == OpToRel(<, Nat)
<1>1. IsWellFoundedOn(R, Nat)
    BY NatLessThanWellFounded
<1>2. \A x, y \in Nat : x < y => <<x, y>> \in R
    BY DEF OpToRel
<1> HIDE DEF R
<1>3. PICK x \in S : \A y \in S : ~(<<y, x>> \in R)
    BY <1>1, WFMin
<1>4. ASSUME NEW y \in S PROVE x <= y
    <2>1. x \in Nat /\ y \in Nat /\ ~(<<y, x>> \in R)
        BY <1>3
    <2>2. ~(y < x)
        BY <1>2, <2>1
    <2> QED  BY <2>1, <2>2
<1> QED  BY <1>4

LEMMA SetInduction ==
    ASSUME NEW S, 0 \in S, \A n \in Nat : n \in S => n + 1 \in S
    PROVE  Nat \subseteq S
<1> SUFFICES ASSUME Nat \ S # {} PROVE FALSE
    OBVIOUS
<1>1. PICK n \in Nat \ S : \A m \in Nat \ S : n <= m
    BY Least
<1>2. n - 1 \in Nat /\ n - 1 \in S
    BY <1>1
<1> QED  BY <1>1, <1>2

-----------------------------------------------------------------------------
(* Small operators. *)

LEMMA MaxTwo == ASSUME NEW a \in Int, NEW b \in Int PROVE Max({a, b}) = IF a >= b THEN a ELSE b
BY DEF Max

LEMMA MinTwo == ASSUME NEW a \in Int, NEW b \in Int PROVE Min({a, b}) = IF a <= b THEN a ELSE b
BY DEF Min

LEMMA Quotient ==
    ASSUME NEW a \in Nat, NEW c \in Nat \ {0}
    PROVE  a \div c \in Nat /\ (a \div c) * c <= a /\ a < (a \div c) * c + c
OBVIOUS

LEMMA QuotientIs ==
    ASSUME NEW a \in Nat, NEW c \in Nat \ {0}, NEW q \in Nat, q * c <= a, a < q * c + c
    PROVE  a \div c = q
OBVIOUS

LEMMA Times ==
    ASSUME NEW a \in Int, NEW b \in Int, NEW c \in Nat, a <= b
    PROVE  a * c \in Int /\ b * c \in Int /\ a * c <= b * c
OBVIOUS

(* g satisfies FlattenSeq's recursion for the n sequences of s. *)
Flattens(g, s, n) == g = [i \in 1..n |-> IF i = 1 THEN s[i] ELSE g[i - 1] \o s[i]]

(* Such a function is the one FlattenSeq takes. *)
LEMMA FlattenIs ==
    ASSUME NEW s, NEW n \in Nat \ {0}, Len(s) = n, NEW f, Flattens(f, s, n)
    PROVE  FlattenSeq(s) = f[n]
<1>1. ASSUME NEW g, Flattens(g, s, n) PROVE g = f
    <2> DEFINE S == {i \in Nat : i \in 1..n => g[i] = f[i]}
    <2>1. 0 \in S
        OBVIOUS
    <2>2. ASSUME NEW i \in Nat, i \in S PROVE i + 1 \in S
        <3>1. ASSUME i + 1 \in 1..n PROVE g[i + 1] = f[i + 1]
            <4>1. CASE i = 0
                BY <1>1, <3>1, <4>1 DEF Flattens
            <4>2. CASE i # 0
                <5> DEFINE j == i + 1
                <5>1. j \in 1..n /\ j # 1 /\ j - 1 = i /\ g[i] = f[i]
                    BY <2>2, <3>1, <4>2
                <5> HIDE DEF j
                <5>2. g[j] = g[j - 1] \o s[j] /\ f[j] = f[j - 1] \o s[j]
                    BY <1>1, <5>1 DEF Flattens
                <5>3. g[j] = f[j]
                    BY <5>1, <5>2
                <5> QED  BY <5>3 DEF j
            <4> QED  BY <4>1, <4>2
        <3> QED  BY <3>1
    <2>3. Nat \subseteq S
        <3> HIDE DEF S
        <3> QED  BY <2>1, <2>2, SetInduction
    <2>4. \A i \in 1..n : g[i] = f[i]
        BY <2>3
    <2> QED  BY <1>1, <2>4 DEF Flattens
<1>2. (CHOOSE g : Flattens(g, s, n)) = f
    BY <1>1
<1>3. FlattenSeq(s) = (CHOOSE g : Flattens(g, s, n))[n]
    BY DEF FlattenSeq, Flattens
<1> QED  BY <1>2, <1>3

-----------------------------------------------------------------------------
(* Stretches. *)

(* The values of f from a up to b. *)
Stretch(f, a, b) == [k \in 1..(b - a) |-> f[a + k - 1]]

Values(f) == {f[x] : x \in Nat}

LEMMA StretchLen ==
    ASSUME NEW f, NEW a \in Nat, NEW b \in Nat, a <= b
    PROVE  /\ Len(Stretch(f, a, b)) = b - a
           /\ \A k \in 1..(b - a) : Stretch(f, a, b)[k] = f[a + k - 1]
           /\ Stretch(f, a, b) \in Seq(Values(f))
<1>1. ASSUME NEW k \in 1..(b - a) PROVE f[a + k - 1] \in Values(f)
    <2>1. a + k - 1 \in Nat
        OBVIOUS
    <2> QED  BY <2>1 DEF Values
<1>2. b - a \in Nat
    OBVIOUS
<1>3. Stretch(f, a, b) \in [1..(b - a) -> Values(f)]
    BY <1>1 DEF Stretch
<1>4. Stretch(f, a, b) \in Seq(Values(f))
    BY <1>2, <1>3, SeqDef
<1> QED  BY <1>2, <1>4 DEF Stretch

(* Slice cuts a stretch out of a stretch. *)
LEMMA StretchSlice ==
    ASSUME NEW f, NEW a \in Nat, NEW b \in Nat, a <= b,
           NEW u \in Nat, NEW v \in Nat, u <= v, v <= b - a
    PROVE  Slice(Stretch(f, a, b), u, v - 1) = Stretch(f, a + u, a + v)
<1> DEFINE s == Stretch(f, a, b)
<1>1. Len(s) = b - a /\ \A k \in 1..(b - a) : s[k] = f[a + k - 1]
    BY StretchLen
<1> HIDE DEF s
<1>2. Slice(s, u, v - 1) = SubSeq(s, u + 1, v)
    <2>1. Min({v - 1 + 1, Len(s)}) = v
        BY <1>1, MinTwo
    <2> QED  BY <2>1 DEF Slice
<1>3. SubSeq(s, u + 1, v) = [k \in 1..(v - u) |-> s[u + k]]
    OBVIOUS
<1>4. ASSUME NEW k \in 1..(v - u) PROVE s[u + k] = f[(a + u) + k - 1]
    <2>1. u + k \in 1..(b - a) /\ a + (u + k) - 1 = (a + u) + k - 1
        OBVIOUS
    <2> QED  BY <1>1, <2>1
<1>5. (a + v) - (a + u) = v - u
    OBVIOUS
<1>6. Slice(s, u, v - 1) = [k \in 1..(v - u) |-> f[(a + u) + k - 1]]
    BY <1>2, <1>3, <1>4
<1> QED  BY <1>5, <1>6 DEF s, Stretch

(* Neighbouring stretches make a stretch. *)
LEMMA StretchGlue ==
    ASSUME NEW f, NEW a \in Nat, NEW b \in Nat, NEW c \in Nat, a <= b, b <= c
    PROVE  Stretch(f, a, b) \o Stretch(f, b, c) = Stretch(f, a, c)
<1> DEFINE s == Stretch(f, a, b)
           t == Stretch(f, b, c)
<1> DEFINE u == Stretch(f, a, c)
<1>1. /\ s \in Seq(Values(f)) /\ t \in Seq(Values(f)) /\ u \in Seq(Values(f))
      /\ Len(s) = b - a /\ \A k \in 1..(b - a) : s[k] = f[a + k - 1]
      /\ Len(t) = c - b /\ \A k \in 1..(c - b) : t[k] = f[b + k - 1]
      /\ Len(u) = c - a /\ \A k \in 1..(c - a) : u[k] = f[a + k - 1]
    <2>1. a <= c
        OBVIOUS
    <2>2. /\ s \in Seq(Values(f)) /\ Len(s) = b - a
          /\ \A k \in 1..(b - a) : s[k] = f[a + k - 1]
        BY StretchLen
    <2>3. /\ t \in Seq(Values(f)) /\ Len(t) = c - b
          /\ \A k \in 1..(c - b) : t[k] = f[b + k - 1]
        BY StretchLen
    <2>4. /\ u \in Seq(Values(f)) /\ Len(u) = c - a
          /\ \A k \in 1..(c - a) : u[k] = f[a + k - 1]
        BY <2>1, StretchLen
    <2> HIDE DEF s, t, u
    <2> QED  BY <2>2, <2>3, <2>4
<1> HIDE DEF s, t, u
<1>2. /\ s \o t \in Seq(Values(f)) /\ Len(s \o t) = Len(s) + Len(t)
      /\ \A k \in 1..(Len(s) + Len(t)) : (s \o t)[k] = IF k <= Len(s) THEN s[k] ELSE t[k - Len(s)]
    BY <1>1, ConcatProperties
<1>3. Len(s) + Len(t) = c - a
    BY <1>1
<1>4. ASSUME NEW k \in 1..(c - a) PROVE (s \o t)[k] = u[k]
    <2>1. CASE k <= b - a
        <3>1. k \in 1..(b - a)
            BY <2>1
        <3>2. (s \o t)[k] = s[k]
            BY <1>1, <1>2, <1>3, <2>1
        <3> QED  BY <1>1, <3>1, <3>2
    <2>2. CASE ~(k <= b - a)
        <3>1. k - (b - a) \in 1..(c - b) /\ b + (k - (b - a)) - 1 = a + k - 1
            BY <2>2
        <3>2. t[k - (b - a)] = f[b + (k - (b - a)) - 1]
            BY <1>1, <3>1
        <3>3. (s \o t)[k] = t[k - (b - a)]
            BY <1>1, <1>2, <1>3, <2>2
        <3> QED  BY <1>1, <3>1, <3>2, <3>3
    <2> QED  BY <2>1, <2>2
<1>5. s \o t = u
    <2> DEFINE v == s \o t
    <2>1. v \in Seq(Values(f)) /\ Len(v) = Len(u) /\ \A k \in 1..Len(v) : v[k] = u[k]
        BY <1>1, <1>2, <1>3, <1>4
    <2> HIDE DEF v
    <2>2. v = u
        BY <1>1, <2>1, SeqEqual
    <2> QED  BY <2>2 DEF v
<1> QED  BY <1>5 DEF s, t, u

(* s is what f is between the n + 1 places of cut. *)
Pieces(f, cut, n, s) ==
    /\ cut \in [0..n -> Nat]
    /\ \A i \in 1..n : cut[i - 1] <= cut[i]
    /\ s = [i \in 1..n |-> Stretch(f, cut[i - 1], cut[i])]

(* So do the pieces of a stretch. *)
LEMMA StretchFlatten ==
    ASSUME NEW f, NEW n \in Nat \ {0}, NEW cut, NEW s, Pieces(f, cut, n, s)
    PROVE  FlattenSeq(s) = Stretch(f, cut[0], cut[n])
<1> USE DEF Pieces
<1> DEFINE g == [i \in 1..n |-> Stretch(f, cut[0], cut[i])]
<1>1. \A i \in 1..n : cut[0] <= cut[i]
    <2> DEFINE S == {i \in Nat : i <= n => cut[0] <= cut[i]}
    <2>1. 0 \in S
        OBVIOUS
    <2>2. ASSUME NEW i \in Nat, i \in S PROVE i + 1 \in S
        <3>1. ASSUME i + 1 <= n PROVE cut[0] <= cut[i + 1]
            <4>1. i + 1 \in 1..n /\ i + 1 - 1 = i /\ cut[0] <= cut[i]
                BY <2>2, <3>1
            <4>2. cut[i] <= cut[i + 1] /\ cut[0] \in Nat /\ cut[i] \in Nat /\ cut[i + 1] \in Nat
                BY <4>1
            <4> QED  BY <4>1, <4>2
        <3> QED  BY <3>1
    <2>3. Nat \subseteq S
        <3> HIDE DEF S
        <3> QED  BY <2>1, <2>2, SetInduction
    <2> QED  BY <2>3
<1>2. ASSUME NEW i \in 1..n PROVE g[i] = IF i = 1 THEN s[i] ELSE g[i - 1] \o s[i]
    <2>1. CASE i = 1
        BY <2>1
    <2>2. CASE i # 1
        <3>1. i - 1 \in 1..n /\ cut[0] \in Nat /\ cut[i - 1] \in Nat /\ cut[i] \in Nat
            BY <2>2
        <3>2. cut[0] <= cut[i - 1] /\ cut[i - 1] <= cut[i]
            BY <1>1, <3>1
        <3>3. Stretch(f, cut[0], cut[i - 1]) \o Stretch(f, cut[i - 1], cut[i]) = Stretch(f, cut[0], cut[i])
            BY <3>1, <3>2, StretchGlue
        <3> QED  BY <2>2, <3>1, <3>3
    <2> QED  BY <2>1, <2>2
<1>3. Len(s) = n
    OBVIOUS
<1>4. Flattens(g, s, n)
    BY <1>2 DEF Flattens
<1>5. g[n] = Stretch(f, cut[0], cut[n])
    OBVIOUS
<1> HIDE DEF g
<1> QED  BY <1>3, <1>4, <1>5, FlattenIs

-----------------------------------------------------------------------------
(* The arithmetic of envelope.ts for an asset of n plaintext units. *)

Count(n) == Max({1, (n + Chunk - 1) \div Chunk})
LenOf(n, i) == Max({0, Min({Chunk, n - i * Chunk})})
Place(i) == i * (Chunk + Tag)
PlaceAfter(n, i) == Place(i) + LenOf(n, i) + Tag

(* The chunks from which the plaintext units a up to e are read. *)
FirstOf(a) == a \div Chunk
LastOf(e) == (e - 1) \div Chunk

LEMMA CountFacts ==
    ASSUME NEW n \in Nat
    PROVE  /\ Count(n) \in Nat \ {0} /\ n <= Count(n) * Chunk
           /\ n > 0 => (Count(n) - 1) * Chunk < n
           /\ n = 0 => Count(n) = 1
<1> DEFINE x == n + Chunk - 1
           q == x \div Chunk
<1>1. x \in Nat /\ Chunk \in Nat \ {0}
    BY ChunkAssumption
<1>2. q \in Nat /\ q * Chunk <= x /\ x < q * Chunk + Chunk
    BY <1>1, Quotient
<1>3. Count(n) = IF 1 >= q THEN 1 ELSE q
    BY <1>2, MaxTwo DEF Count
<1>4. CASE q = 0
    BY <1>1, <1>2, <1>3, <1>4
<1>5. CASE q > 0
    <2>1. Count(n) = q
        BY <1>2, <1>3, <1>5
    <2>2. (q - 1) * Chunk = q * Chunk - Chunk
        BY <1>1, <1>2
    <2>3. n = 0 => q = 1
        BY <1>1, <1>2, <1>5
    <2> QED  BY <1>1, <1>2, <1>5, <2>1, <2>2, <2>3
<1> QED  BY <1>2, <1>4, <1>5

(* Every chunk but the last is a whole one. *)
LEMMA LenFacts ==
    ASSUME NEW n \in Nat, NEW i \in 0..(Count(n) - 1)
    PROVE  /\ LenOf(n, i) \in 0..Chunk
           /\ i < Count(n) - 1 => LenOf(n, i) = Chunk
           /\ i = Count(n) - 1 => LenOf(n, i) = n - i * Chunk
<1> DEFINE c == Count(n)
<1>1. c \in Nat \ {0} /\ n <= c * Chunk /\ (n > 0 => (c - 1) * Chunk < n) /\ (n = 0 => c = 1)
    BY CountFacts
<1>2. Chunk \in Nat \ {0} /\ i \in Nat /\ i <= c - 1
    BY <1>1, ChunkAssumption
<1> HIDE DEF c
<1>3. i * Chunk \in Nat /\ n - i * Chunk \in Int
    BY <1>2
<1>4. LenOf(n, i) = LET m == IF Chunk <= n - i * Chunk THEN Chunk ELSE n - i * Chunk
                    IN  IF 0 >= m THEN 0 ELSE m
    <2>1. Min({Chunk, n - i * Chunk}) = IF Chunk <= n - i * Chunk THEN Chunk ELSE n - i * Chunk
        BY <1>2, <1>3, MinTwo
    <2>2. Min({Chunk, n - i * Chunk}) \in Int
        BY <1>2, <1>3, <2>1
    <2> QED  BY <2>1, <2>2, MaxTwo DEF LenOf
<1>5. CASE i = c - 1
    <2>1. c * Chunk = i * Chunk + Chunk
        BY <1>1, <1>2, <1>5
    <2>2. n - i * Chunk <= Chunk /\ n - i * Chunk >= 0
        BY <1>1, <1>2, <1>3, <1>5, <2>1
    <2> QED  BY <1>2, <1>3, <1>4, <1>5, <2>2 DEF c
<1>6. CASE i < c - 1
    <2>1. (i + 1) * Chunk <= (c - 1) * Chunk /\ (i + 1) * Chunk = i * Chunk + Chunk
        BY <1>1, <1>2, <1>6
    <2>2. Chunk <= n - i * Chunk
        BY <1>1, <1>2, <1>3, <1>6, <2>1
    <2> QED  BY <1>2, <1>3, <1>4, <1>6, <2>2 DEF c
<1> QED  BY <1>2, <1>5, <1>6, <1>1

(* The places of the chunks: each begins where the one before it ends, the  *)
(* last one ends with the object.                                           *)
LEMMA PlaceFacts ==
    ASSUME NEW n \in Nat, NEW i \in 0..(Count(n) - 1)
    PROVE  /\ Place(i) \in Nat /\ PlaceAfter(n, i) \in Nat /\ Place(i) < PlaceAfter(n, i)
           /\ i < Count(n) - 1 => PlaceAfter(n, i) = Place(i + 1)
           /\ i = Count(n) - 1 => PlaceAfter(n, i) = n + Count(n) * Tag
<1> DEFINE c == Count(n)
<1>1. c \in Nat \ {0} /\ Chunk \in Nat \ {0} /\ Tag \in Nat \ {0} /\ i \in Nat
    BY CountFacts, ChunkAssumption
<1>2. /\ LenOf(n, i) \in 0..Chunk
      /\ i < c - 1 => LenOf(n, i) = Chunk
      /\ i = c - 1 => LenOf(n, i) = n - i * Chunk
    BY LenFacts
<1> HIDE DEF c
<1>3. /\ i * (Chunk + Tag) = i * Chunk + i * Tag /\ i * Chunk \in Nat /\ i * Tag \in Nat
      /\ (i + 1) * (Chunk + Tag) = i * (Chunk + Tag) + Chunk + Tag
      /\ i = c - 1 => c * Tag = i * Tag + Tag
    BY <1>1
<1>4. Place(i) = i * (Chunk + Tag) /\ Place(i + 1) = (i + 1) * (Chunk + Tag)
    BY DEF Place
<1>5. PlaceAfter(n, i) = Place(i) + LenOf(n, i) + Tag
    BY DEF PlaceAfter
<1> QED  BY <1>1, <1>2, <1>3, <1>4, <1>5 DEF c

(* The chunks of a window cover it, and no other chunk touches it. *)
LEMMA WindowFacts ==
    ASSUME NEW n \in Nat, NEW a \in Nat, NEW e \in Nat, a < e, e <= n
    PROVE  /\ FirstOf(a) \in Nat /\ LastOf(e) \in 0..(Count(n) - 1) /\ FirstOf(a) <= LastOf(e)
           /\ FirstOf(a) * Chunk <= a /\ a < FirstOf(a) * Chunk + Chunk
           /\ LastOf(e) * Chunk < e /\ e <= LastOf(e) * Chunk + Chunk
<1> DEFINE c == Count(n)
           f == FirstOf(a)
           l == LastOf(e)
<1>1. c \in Nat \ {0} /\ n <= c * Chunk /\ Chunk \in Nat \ {0}
    BY CountFacts, ChunkAssumption
<1>2. f \in Nat /\ f * Chunk <= a /\ a < f * Chunk + Chunk
    BY <1>1, Quotient DEF FirstOf
<1>3. l \in Nat /\ l * Chunk <= e - 1 /\ e - 1 < l * Chunk + Chunk
    BY <1>1, Quotient DEF LastOf
<1> HIDE DEF c, f, l
<1>4. ASSUME c <= l PROVE FALSE
    <2>1. c * Chunk <= l * Chunk
        BY <1>1, <1>3, <1>4, Times
    <2> QED  BY <1>1, <1>3, <2>1
<1>5. ASSUME l < f PROVE FALSE
    <2>1. l * Chunk + Chunk = (l + 1) * Chunk /\ (l + 1) * Chunk <= f * Chunk
        BY <1>1, <1>2, <1>3, <1>5
    <2> QED  BY <1>1, <1>2, <1>3, <2>1
<1> QED  BY <1>1, <1>2, <1>3, <1>4, <1>5 DEF c, f, l

-----------------------------------------------------------------------------
(* The plaintext, and the ciphertext of an asset of n units. *)

PlainAt(x) == [asset |-> "ours", at |-> x]
CipherAt(n, i, k) == [asset |-> "ours", idx |-> i, count |-> Count(n), pos |-> k, flip |-> FALSE]

Plaintext == [x \in Nat |-> PlainAt(x)]
Ciphertext(n) ==
    [x \in Nat |-> CipherAt(n, x \div (Chunk + Tag), x - (x \div (Chunk + Tag)) * (Chunk + Tag) + 1)]

ContentOf(a, b) == Stretch(Plaintext, a, b)
ChunkOf(n, i) == Stretch(Ciphertext(n), Place(i), PlaceAfter(n, i))
ObjectOf(n) == Stretch(Ciphertext(n), 0, n + Count(n) * Tag)

LEMMA ContentIs ==
    ASSUME NEW a \in Nat, NEW b \in Nat, a <= b
    PROVE  Content(a, b) = ContentOf(a, b)
<1>1. ASSUME NEW k \in 1..(b - a) PROVE [asset |-> "ours", at |-> a + k - 1] = Plaintext[a + k - 1]
    <2>1. a + k - 1 \in Nat
        OBVIOUS
    <2> QED  BY <2>1 DEF Plaintext, PlainAt
<1> QED  BY <1>1 DEF Content, ContentOf, Stretch

LEMMA CiphertextIs ==
    ASSUME NEW n \in Nat, NEW i \in 0..(Count(n) - 1), NEW k \in 1..(LenOf(n, i) + Tag)
    PROVE  Ciphertext(n)[Place(i) + k - 1] = CipherAt(n, i, k)
<1> DEFINE b == Chunk + Tag
           x == Place(i) + k - 1
<1>1. b \in Nat \ {0} /\ i \in Nat /\ k \in 1..b
    BY LenFacts, CountFacts, ChunkAssumption
<1>2. x = i * b + k - 1 /\ x \in Nat /\ i * b \in Nat
    BY <1>1 DEF Place
<1> HIDE DEF b, x
<1>3. x \div b = i /\ x - i * b + 1 = k
    <2>1. i * b <= x /\ x < i * b + b
        BY <1>1, <1>2
    <2> QED  BY <1>1, <1>2, <2>1, QuotientIs
<1>4. Ciphertext(n)[x] = CipherAt(n, x \div b, x - (x \div b) * b + 1)
    BY <1>2 DEF Ciphertext, b
<1> QED  BY <1>3, <1>4 DEF x

LEMMA EncryptIs ==
    ASSUME NEW n \in Nat, NEW i \in 0..(Count(n) - 1)
    PROVE  EncryptChunk("ours", i, Count(n), LenOf(n, i)) = ChunkOf(n, i)
<1> DEFINE m == LenOf(n, i) + Tag
<1>1. PlaceAfter(n, i) - Place(i) = m
    <2>1. LenOf(n, i) \in Nat /\ Place(i) \in Nat /\ Tag \in Nat
        BY LenFacts, PlaceFacts, ChunkAssumption
    <2> QED  BY <2>1 DEF PlaceAfter
<1>2. ASSUME NEW k \in 1..m PROVE Ciphertext(n)[Place(i) + k - 1] = CipherAt(n, i, k)
    BY CiphertextIs
<1>3. EncryptChunk("ours", i, Count(n), LenOf(n, i)) = [k \in 1..m |-> CipherAt(n, i, k)]
    BY DEF EncryptChunk, CipherAt
<1> HIDE DEF m
<1> QED  BY <1>1, <1>2, <1>3 DEF ChunkOf, Stretch

(* Decrypting a chunk gives its plaintext. *)
LEMMA DecryptIs ==
    ASSUME NEW n \in Nat, NEW i \in 0..(Count(n) - 1)
    PROVE  Decrypt(ChunkOf(n, i)) = ContentOf(i * Chunk, i * Chunk + LenOf(n, i))
<1> DEFINE m == LenOf(n, i)
           s == ChunkOf(n, i)
<1>1. m \in Nat /\ Tag \in Nat \ {0} /\ i \in Nat /\ i * Chunk \in Nat
    BY LenFacts, CountFacts, ChunkAssumption
<1>2. /\ Place(i) \in Nat /\ PlaceAfter(n, i) \in Nat /\ Place(i) <= PlaceAfter(n, i)
      /\ PlaceAfter(n, i) = Place(i) + m + Tag
    BY PlaceFacts DEF PlaceAfter
<1>3. Len(s) = m + Tag /\ \A k \in 1..(m + Tag) : s[k] = CipherAt(n, i, k)
    <2>1. PlaceAfter(n, i) - Place(i) = m + Tag
        BY <1>1, <1>2
    <2>2. /\ Len(s) = PlaceAfter(n, i) - Place(i)
          /\ \A k \in 1..(PlaceAfter(n, i) - Place(i)) : s[k] = Ciphertext(n)[Place(i) + k - 1]
        BY <1>2, StretchLen DEF ChunkOf
    <2> QED  BY <2>1, <2>2, CiphertextIs
<1> HIDE DEF s, m
<1>4. ASSUME NEW k \in 1..m
      PROVE  [asset |-> s[k].asset, at |-> s[k].idx * Chunk + s[k].pos - 1] = Plaintext[i * Chunk + k - 1]
    <2>1. s[k] = CipherAt(n, i, k)
        BY <1>1, <1>3
    <2>2. s[k].asset = "ours" /\ s[k].idx = i /\ s[k].pos = k
        BY <2>1 DEF CipherAt
    <2>3. i * Chunk + k - 1 \in Nat
        BY <1>1
    <2> QED  BY <2>2, <2>3 DEF Plaintext, PlainAt
<1>5. Len(s) - Tag = m /\ (i * Chunk + m) - i * Chunk = m
    BY <1>1, <1>3
<1>6. Decrypt(s) = [k \in 1..m |-> Plaintext[i * Chunk + k - 1]]
    BY <1>4, <1>5 DEF Decrypt
<1> QED  BY <1>5, <1>6 DEF s, m, ContentOf, Stretch

(* What a window [a, e) takes of chunk i, decrypted. *)
PieceOf(n, a, e, i) ==
    Slice(Decrypt(ChunkOf(n, i)), Max({a, i * Chunk}) - i * Chunk,
          Min({e, i * Chunk + LenOf(n, i)}) - i * Chunk - 1)

LEMMA PieceIs ==
    ASSUME NEW n \in Nat, NEW a \in Nat, NEW e \in Nat, a < e, e <= n,
           NEW i \in FirstOf(a)..LastOf(e)
    PROVE  LET from == IF i = FirstOf(a) THEN a ELSE i * Chunk
               to   == IF i = LastOf(e) THEN e ELSE (i + 1) * Chunk
           IN  /\ from \in Nat /\ to \in Nat /\ from <= to
               /\ PieceOf(n, a, e, i) = ContentOf(from, to)
<1> DEFINE f == FirstOf(a)
           l == LastOf(e)
           m == LenOf(n, i)
           x == i * Chunk
           from == IF i = f THEN a ELSE x
           to   == IF i = l THEN e ELSE x + Chunk
<1>1. /\ f \in Nat /\ l \in 0..(Count(n) - 1) /\ f <= l /\ Count(n) \in Nat \ {0}
      /\ f * Chunk <= a /\ a < f * Chunk + Chunk /\ l * Chunk < e /\ e <= l * Chunk + Chunk
    BY WindowFacts, CountFacts
<1>2. /\ i \in Nat /\ i <= l /\ f <= i /\ i \in 0..(Count(n) - 1)
      /\ Chunk \in Nat \ {0} /\ x \in Nat /\ f * Chunk \in Nat /\ l * Chunk \in Nat
    BY <1>1, ChunkAssumption
<1>3. /\ m \in 0..Chunk
      /\ i < Count(n) - 1 => m = Chunk
      /\ i = Count(n) - 1 => m = n - x
    BY <1>2, LenFacts
<1>4. (i + 1) * Chunk = x + Chunk /\ (f + 1) * Chunk = f * Chunk + Chunk
    BY <1>1, <1>2
<1>5. f < i => f * Chunk + Chunk <= x
    <2>1. ASSUME f < i PROVE (f + 1) * Chunk <= i * Chunk
        BY <1>1, <1>2, <2>1, Times
    <2> QED  BY <1>4, <2>1
<1>6. i < l => x + Chunk <= l * Chunk
    <2>1. ASSUME i < l PROVE (i + 1) * Chunk <= l * Chunk
        BY <1>1, <1>2, <2>1, Times
    <2> QED  BY <1>4, <2>1
<1> HIDE DEF f, l, m, x
<1>7. Max({a, x}) = from /\ x <= from /\ from \in Nat
    <2>1. Max({a, x}) = IF a >= x THEN a ELSE x
        BY <1>2, MaxTwo
    <2>2. CASE i = f
        BY <1>1, <1>2, <2>1, <2>2 DEF x
    <2>3. CASE i # f
        BY <1>1, <1>2, <1>5, <2>1, <2>3
    <2> QED  BY <2>2, <2>3
<1>8. Min({e, x + m}) = to /\ to <= x + m /\ to \in Nat
    <2>1. Min({e, x + m}) = IF e <= x + m THEN e ELSE x + m
        BY <1>2, <1>3, MinTwo
    <2>2. CASE i = l
        <3>1. e <= x + Chunk /\ e <= x + m
            BY <1>1, <1>2, <1>3, <2>2 DEF x
        <3> QED  BY <2>1, <2>2, <3>1
    <2>3. CASE i # l
        <3>1. i < l /\ m = Chunk /\ x + Chunk < e
            BY <1>1, <1>2, <1>3, <1>6, <2>3
        <3> QED  BY <1>2, <2>1, <2>3, <3>1
    <2> QED  BY <2>2, <2>3
<1>9. from <= to
    <2>1. CASE i = f /\ i = l
        BY <2>1
    <2>2. CASE i = f /\ i # l
        BY <1>1, <1>2, <2>2 DEF x
    <2>3. CASE i # f /\ i = l
        BY <1>1, <1>2, <2>3 DEF x
    <2>4. CASE i # f /\ i # l
        BY <1>2, <2>4
    <2> QED  BY <2>1, <2>2, <2>3, <2>4
<1> HIDE DEF from, to
<1>10. Slice(ContentOf(x, x + m), from - x, to - x - 1) = ContentOf(from, to)
    <2>1. /\ x \in Nat /\ x + m \in Nat /\ x <= x + m
          /\ from - x \in Nat /\ to - x \in Nat /\ from - x <= to - x /\ to - x <= (x + m) - x
          /\ x + (from - x) = from /\ x + (to - x) = to
        BY <1>2, <1>3, <1>7, <1>8, <1>9
    <2>2. Slice(Stretch(Plaintext, x, x + m), from - x, (to - x) - 1)
             = Stretch(Plaintext, x + (from - x), x + (to - x))
        BY <2>1, StretchSlice
    <2> QED  BY <2>1, <2>2 DEF ContentOf
<1>11. PieceOf(n, a, e, i) = ContentOf(from, to)
    <2>1. Decrypt(ChunkOf(n, i)) = ContentOf(x, x + m)
        BY <1>2, DecryptIs DEF x, m
    <2>2. PieceOf(n, a, e, i) = Slice(Decrypt(ChunkOf(n, i)), Max({a, x}) - x, Min({e, x + m}) - x - 1)
        BY DEF PieceOf, x, m
    <2> QED  BY <1>7, <1>8, <1>10, <2>1, <2>2
<1>12. from = (IF i = f THEN a ELSE x) /\ to = (IF i = l THEN e ELSE (i + 1) * Chunk)
    BY <1>4 DEF from, to
<1> QED  BY <1>7, <1>8, <1>9, <1>11, <1>12 DEF f, l, x

(* Glued together they are the window's plaintext. *)
LEMMA PiecesGlue ==
    ASSUME NEW n \in Nat, NEW a \in Nat, NEW e \in Nat, a < e, e <= n, NEW s,
           s = [c \in 1..(LastOf(e) - FirstOf(a) + 1) |-> PieceOf(n, a, e, FirstOf(a) + c - 1)]
    PROVE  FlattenSeq(s) = ContentOf(a, e)
<1> DEFINE f == FirstOf(a)
           l == LastOf(e)
           m == l - f + 1
           cut == [c \in 0..m |-> IF c = 0 THEN a ELSE IF c = m THEN e ELSE (f + c) * Chunk]
<1>1. f \in Nat /\ l \in Nat /\ f <= l /\ m \in Nat \ {0} /\ Chunk \in Nat
    <2>1. f \in Nat /\ l \in 0..(Count(n) - 1) /\ f <= l /\ Count(n) \in Nat
        BY WindowFacts, CountFacts
    <2> HIDE DEF f, l
    <2> QED  BY <2>1, ChunkAssumption
<1>2. ASSUME NEW c \in 1..m
      PROVE  /\ cut[c - 1] \in Nat /\ cut[c] \in Nat /\ cut[c - 1] <= cut[c]
             /\ s[c] = Stretch(Plaintext, cut[c - 1], cut[c])
    <2> DEFINE i == f + c - 1
    <2>1. i \in f..l /\ (i = f <=> c - 1 = 0) /\ (i = l <=> c = m) /\ c # 0 /\ c - 1 # m
        BY <1>1
    <2>2. i + 1 = f + c /\ i = f + (c - 1) /\ c - 1 \in 0..m /\ c \in 0..m
        BY <1>1
    <2>3. /\ cut[c - 1] = IF i = f THEN a ELSE i * Chunk
          /\ cut[c] = IF i = l THEN e ELSE (i + 1) * Chunk
        <3>1. cut[c - 1] = IF c - 1 = 0 THEN a ELSE IF c - 1 = m THEN e ELSE (f + (c - 1)) * Chunk
            BY <2>2
        <3>2. cut[c] = IF c = 0 THEN a ELSE IF c = m THEN e ELSE (f + c) * Chunk
            BY <2>2
        <3> QED  BY <2>1, <2>2, <3>1, <3>2
    <2>4. s[c] = PieceOf(n, a, e, i)
        OBVIOUS
    <2> HIDE DEF i, cut
    <2> QED  BY <2>1, <2>3, <2>4, PieceIs DEF ContentOf
<1>3. cut \in [0..m -> Nat]
    <2>1. ASSUME NEW c \in 0..m PROVE cut[c] \in Nat
        <3>1. CASE c = 0
            BY <3>1
        <3>2. CASE c # 0
            <4>1. c \in 1..m
                BY <3>2, <1>1
            <4> QED  BY <1>2, <4>1
        <3> QED  BY <3>1, <3>2
    <2> QED  BY <2>1
<1>4. cut[0] = a /\ cut[m] = e
    BY <1>1
<1>5. s = [c \in 1..m |-> Stretch(Plaintext, cut[c - 1], cut[c])]
    BY <1>2
<1> HIDE DEF cut, m
<1>6. Pieces(Plaintext, cut, m, s)
    BY <1>2, <1>3, <1>5 DEF Pieces
<1>7. FlattenSeq(s) = Stretch(Plaintext, cut[0], cut[m])
    BY <1>1, <1>6, StretchFlatten
<1> QED  BY <1>4, <1>7 DEF ContentOf

-----------------------------------------------------------------------------
(* The object in storage, as the upload left it. *)

TotalOf(n) == n + Count(n) * Tag

LEMMA PlaceOrder ==
    ASSUME NEW n \in Nat, NEW j \in 0..(Count(n) - 1), NEW i \in 0..j
    PROVE  /\ Place(i) <= Place(j) /\ PlaceAfter(n, i) <= PlaceAfter(n, j)
           /\ PlaceAfter(n, j) <= TotalOf(n) /\ TotalOf(n) \in Nat
<1>1. Count(n) \in Nat \ {0} /\ Chunk \in Nat /\ Tag \in Nat
    BY CountFacts, ChunkAssumption
<1>2. \A x, y \in Nat : x <= y => Place(x) <= Place(y)
    <2> SUFFICES ASSUME NEW x \in Nat, NEW y \in Nat, x <= y PROVE Place(x) <= Place(y)
        OBVIOUS
    <2>1. Chunk + Tag \in Nat
        BY <1>1
    <2> QED  BY <2>1, Times DEF Place
<1>3. ASSUME NEW x \in 0..(Count(n) - 1), NEW y \in 0..(Count(n) - 1), x <= y
      PROVE  PlaceAfter(n, x) <= PlaceAfter(n, y)
    <2>1. /\ PlaceAfter(n, x) \in Nat /\ PlaceAfter(n, y) \in Nat /\ Place(y) < PlaceAfter(n, y)
          /\ x < Count(n) - 1 => PlaceAfter(n, x) = Place(x + 1)
          /\ Place(y) \in Nat
        BY PlaceFacts
    <2>2. CASE x = y
        BY <2>1, <2>2
    <2>3. CASE x # y
        <3>1. x + 1 \in Nat /\ y \in Nat /\ x + 1 <= y /\ x < Count(n) - 1
            BY <1>1, <1>3, <2>3
        <3>2. Place(x + 1) <= Place(y)
            BY <1>2, <3>1
        <3> QED  BY <2>1, <3>1, <3>2
    <2> QED  BY <2>2, <2>3
<1>4. i \in 0..(Count(n) - 1) /\ i <= j /\ i \in Nat /\ j \in Nat
    BY <1>1
<1>5. Count(n) - 1 \in 0..(Count(n) - 1) /\ j <= Count(n) - 1
    BY <1>1
<1>6. PlaceAfter(n, Count(n) - 1) = TotalOf(n) /\ PlaceAfter(n, Count(n) - 1) \in Nat
    BY <1>5, PlaceFacts DEF TotalOf
<1> QED  BY <1>2, <1>3, <1>4, <1>5, <1>6

LEMMA WholeIs ==
    ASSUME NEW n \in Nat, NEW s,
           s = [c \in 1..Count(n) |-> EncryptChunk("ours", c - 1, Count(n), LenOf(n, c - 1))]
    PROVE  FlattenSeq(s) = ObjectOf(n)
<1> DEFINE m == Count(n)
           cut == [c \in 0..m |-> IF c = m THEN TotalOf(n) ELSE Place(c)]
<1>1. m \in Nat \ {0}
    BY CountFacts
<1>2. ASSUME NEW c \in 1..m
      PROVE  /\ cut[c - 1] \in Nat /\ cut[c] \in Nat /\ cut[c - 1] <= cut[c]
             /\ s[c] = Stretch(Ciphertext(n), cut[c - 1], cut[c])
    <2> DEFINE i == c - 1
    <2>1. i \in 0..(m - 1) /\ i # m /\ i + 1 = c /\ i \in 0..m /\ (c = m <=> i = m - 1) /\ (c # m <=> i < m - 1)
        BY <1>1
    <2>2. /\ Place(i) \in Nat /\ PlaceAfter(n, i) \in Nat /\ Place(i) < PlaceAfter(n, i)
          /\ i < m - 1 => PlaceAfter(n, i) = Place(i + 1)
          /\ i = m - 1 => PlaceAfter(n, i) = TotalOf(n)
        BY <2>1, PlaceFacts DEF TotalOf
    <2>3. cut[c - 1] = Place(i)
        BY <2>1
    <2>4. cut[c] = PlaceAfter(n, i)
        <3>1. cut[c] = IF c = m THEN TotalOf(n) ELSE Place(c)
            BY <1>1
        <3> QED  BY <2>1, <2>2, <3>1
    <2>5. s[c] = ChunkOf(n, i)
        <3>1. s[c] = EncryptChunk("ours", c - 1, Count(n), LenOf(n, c - 1))
            OBVIOUS
        <3> QED  BY <2>1, <3>1, EncryptIs
    <2> HIDE DEF cut, i, m
    <2> QED  BY <2>2, <2>3, <2>4, <2>5 DEF ChunkOf
<1>3. cut[0] = 0 /\ cut[m] = TotalOf(n)
    <2>1. Place(0) = 0
        BY ChunkAssumption DEF Place
    <2> QED  BY <1>1, <2>1
<1>4. cut \in [0..m -> Nat]
    <2>1. ASSUME NEW c \in 0..m PROVE cut[c] \in Nat
        <3>1. CASE c = 0
            BY <1>3, <3>1
        <3>2. CASE c # 0
            <4>1. c \in 1..m
                BY <3>2, <1>1
            <4> QED  BY <1>2, <4>1
        <3> QED  BY <3>1, <3>2
    <2> QED  BY <2>1
<1>5. s = [c \in 1..m |-> Stretch(Ciphertext(n), cut[c - 1], cut[c])]
    BY <1>2
<1> HIDE DEF cut, m
<1>6. Pieces(Ciphertext(n), cut, m, s)
    BY <1>2, <1>4, <1>5 DEF Pieces
<1>7. FlattenSeq(s) = Stretch(Ciphertext(n), cut[0], cut[m])
    BY <1>1, <1>6, StretchFlatten
<1> QED  BY <1>3, <1>7 DEF ObjectOf, TotalOf

(* The ciphertext of the chunks f to l. *)
RangeOf(n, f, l) == Stretch(Ciphertext(n), Place(f), PlaceAfter(n, l))

LEMMA ObjectSlice ==
    ASSUME NEW n \in Nat, NEW l \in 0..(Count(n) - 1), NEW f \in 0..l
    PROVE  /\ Slice(ObjectOf(n), Place(f), PlaceAfter(n, l) - 1) = RangeOf(n, f, l)
           /\ Len(ObjectOf(n)) = TotalOf(n)
           /\ Place(f) < TotalOf(n)
           /\ Len(RangeOf(n, f, l)) = PlaceAfter(n, l) - Place(f)
<1>1. f \in 0..(Count(n) - 1)
    BY CountFacts
<1>2. /\ Place(f) \in Nat /\ PlaceAfter(n, l) \in Nat /\ TotalOf(n) \in Nat /\ Place(f) < PlaceAfter(n, f)
      /\ PlaceAfter(n, f) \in Nat /\ PlaceAfter(n, f) <= PlaceAfter(n, l) /\ PlaceAfter(n, l) <= TotalOf(n)
    BY <1>1, PlaceFacts, PlaceOrder
<1>3. ObjectOf(n) = Stretch(Ciphertext(n), 0, TotalOf(n))
    BY DEF ObjectOf, TotalOf
<1>4. Len(ObjectOf(n)) = TotalOf(n)
    <2>1. 0 <= TotalOf(n) /\ 0 \in Nat /\ TotalOf(n) - 0 = TotalOf(n)
        BY <1>2
    <2>2. Len(Stretch(Ciphertext(n), 0, TotalOf(n))) = TotalOf(n) - 0
        BY <1>2, <2>1, StretchLen
    <2> QED  BY <1>3, <2>1, <2>2
<1>5. Slice(ObjectOf(n), Place(f), PlaceAfter(n, l) - 1)
         = Stretch(Ciphertext(n), 0 + Place(f), 0 + PlaceAfter(n, l))
    <2>1. Place(f) <= PlaceAfter(n, l) /\ PlaceAfter(n, l) <= TotalOf(n) - 0 /\ 0 <= TotalOf(n)
        BY <1>2
    <2> QED  BY <1>2, <1>3, <2>1, StretchSlice
<1>6. Len(RangeOf(n, f, l)) = PlaceAfter(n, l) - Place(f)
    <2>1. Place(f) <= PlaceAfter(n, l)
        BY <1>2
    <2> QED  BY <1>2, <2>1, StretchLen DEF RangeOf
<1> QED  BY <1>2, <1>4, <1>5, <1>6 DEF RangeOf

LEMMA ChunkSlice ==
    ASSUME NEW n \in Nat, NEW l \in 0..(Count(n) - 1), NEW f \in 0..l, NEW i \in f..l
    PROVE  LET off == Place(i) - Place(f)
           IN  Slice(RangeOf(n, f, l), off, off + LenOf(n, i) + Tag - 1) = ChunkOf(n, i)
<1> DEFINE u == Place(i) - Place(f)
           v == PlaceAfter(n, i) - Place(f)
<1>1. i \in 0..(Count(n) - 1) /\ i \in 0..l /\ f \in 0..i /\ f \in 0..(Count(n) - 1)
    BY CountFacts
<1>2. /\ Place(f) \in Nat /\ Place(i) \in Nat /\ PlaceAfter(n, i) \in Nat /\ PlaceAfter(n, l) \in Nat
      /\ Place(f) <= Place(i) /\ Place(i) < PlaceAfter(n, i) /\ PlaceAfter(n, i) <= PlaceAfter(n, l)
    BY <1>1, PlaceFacts, PlaceOrder
<1>3. LenOf(n, i) \in Nat /\ Tag \in Nat /\ PlaceAfter(n, i) = Place(i) + LenOf(n, i) + Tag
    BY <1>1, LenFacts, ChunkAssumption DEF PlaceAfter
<1>4. /\ u \in Nat /\ v \in Nat /\ u <= v /\ v <= PlaceAfter(n, l) - Place(f)
      /\ Place(f) <= PlaceAfter(n, l)
      /\ Place(f) + u = Place(i) /\ Place(f) + v = PlaceAfter(n, i)
      /\ u + LenOf(n, i) + Tag - 1 = v - 1
    BY <1>2, <1>3
<1> HIDE DEF u, v
<1>5. Slice(RangeOf(n, f, l), u, v - 1) = Stretch(Ciphertext(n), Place(f) + u, Place(f) + v)
    BY <1>2, <1>4, StretchSlice DEF RangeOf
<1> QED  BY <1>4, <1>5 DEF u, ChunkOf

-----------------------------------------------------------------------------
(* The operators of Read in these terms. *)

HashesFor(n) == [i \in 0..(Count(n) - 1) |-> ChunkOf(n, i)]

LEMMA EnvelopeIs ==
    ASSUME size \in Nat
    PROVE  /\ ChunkCount = Count(size) /\ CipherSize = TotalOf(size)
           /\ \A i : PlainLen(i) = LenOf(size, i) /\ CipherOffset(i) = Place(i)
           /\ \A i \in 0..(Count(size) - 1) : ChunkEnd(i) = PlaceAfter(size, i) - 1
<1>1. ChunkCount = Count(size)
    BY DEF ChunkCount, Count
<1>2. CipherSize = TotalOf(size)
    BY <1>1 DEF CipherSize, TotalOf
<1>3. \A i : PlainLen(i) = LenOf(size, i)
    BY DEF PlainLen, LenOf
<1>4. \A i : CipherOffset(i) = Place(i)
    BY DEF CipherOffset, Place
<1>5. ASSUME NEW i \in 0..(Count(size) - 1) PROVE ChunkEnd(i) = PlaceAfter(size, i) - 1
    <2>1. Place(i) \in Nat /\ LenOf(size, i) \in Nat /\ Tag \in Nat
        BY PlaceFacts, LenFacts, ChunkAssumption
    <2> QED  BY <1>3, <1>4, <2>1 DEF ChunkEnd, PlaceAfter
<1> QED  BY <1>1, <1>2, <1>3, <1>4, <1>5

LEMMA SpanIs ==
    ASSUME size \in Nat, NEW a, NEW e, LastOf(e) \in 0..(Count(size) - 1)
    PROVE  /\ Span(a, e).first = FirstOf(a) /\ Span(a, e).last = LastOf(e)
           /\ Span(a, e).cStart = Place(FirstOf(a)) /\ Span(a, e).cEnd = PlaceAfter(size, LastOf(e)) - 1
BY EnvelopeIs DEF Span, FirstOf, LastOf

LEMMA AuthenticIs ==
    ASSUME size \in Nat, NEW i \in 0..(Count(size) - 1), NEW ct
    PROVE  Authentic(i, ct) <=> ct = ChunkOf(size, i)
BY EnvelopeIs, EncryptIs DEF Authentic

LEMMA IntactIs ==
    ASSUME size \in Nat
    PROVE  Intact = ObjectOf(size) /\ HashesOf(Intact) = HashesFor(size)
<1>1. Intact = ObjectOf(size)
    <2> DEFINE s == [c \in 1..Count(size) |-> EncryptChunk("ours", c - 1, Count(size), LenOf(size, c - 1))]
    <2>1. Intact = FlattenSeq(s)
        BY EnvelopeIs DEF Intact, Whole
    <2> HIDE DEF s
    <2>2. FlattenSeq(s) = ObjectOf(size)
        BY WholeIs DEF s
    <2> QED  BY <2>1, <2>2
<1>2. ASSUME NEW i \in 0..(Count(size) - 1)
      PROVE  Slice(Intact, CipherOffset(i), ChunkEnd(i)) = ChunkOf(size, i)
    <2>1. i \in 0..i
        BY CountFacts
    <2>2. Slice(ObjectOf(size), Place(i), PlaceAfter(size, i) - 1) = RangeOf(size, i, i)
        BY <2>1, ObjectSlice
    <2> QED  BY <1>1, <2>2, EnvelopeIs DEF RangeOf, ChunkOf
<1>3. HashesOf(Intact) = HashesFor(size)
    BY <1>2, EnvelopeIs DEF HashesOf, HashesFor
<1> QED  BY <1>1, <1>3

-----------------------------------------------------------------------------
(* The inductive invariant: n, o, h and m are size, object, hashes and      *)
(* member, r is the read.                                                   *)

Fields == {"pc", "kind", "path", "from", "to", "verify", "step", "at", "got", "want", "plain", "error",
           "log", "sha", "late", "unlucky"}

(* Where a read works on a window, and where it is under way at all. *)
InWindow == {"row", "key", "fetch", "check"}
UnderWay == InWindow \cup {"asset", "log"}

Ending(r) == Min({r.to, r.at + r.step})
Gave(r) == r.pc = "done" /\ r.error = None

(* What a read has so far is the plaintext up to the window it is at. *)
PlaceOK(n, r) ==
    /\ DOMAIN r = Fields
    /\ r.pc \in {"free", "done"} \cup UnderWay
    /\ r.from \in Nat /\ r.to \in Nat /\ r.at \in Nat /\ r.step \in Nat
    /\ r.pc \in InWindow => r.from <= r.at /\ r.at < r.to /\ r.to <= n /\ r.step > 0
    /\ r.pc = "asset" => r.from = 0 /\ r.at = 0 /\ r.to = n /\ r.step > 0 /\ r.kind = "all"
    /\ r.pc = "log" => r.from <= r.at /\ r.at = r.to
    /\ r.pc \in UnderWay => r.plain = ContentOf(r.from, r.at)
    /\ r.pc \in UnderWay /\ r.kind = "all" => r.from = 0 /\ r.to = n
    /\ r.pc # "done" => r.error = None
    /\ Gave(r) => r.from <= r.to /\ r.plain = ContentOf(r.from, r.to)

(* The answers of a read that met no bad one. *)
AnswersOK(n, o, r) ==
    /\ r.pc = "asset" => r.got = None /\ r.want = None
    /\ r.pc = "check" => r.got # None /\ r.want # None
    /\ ~r.unlucky => r.want \in {None, "rows", "unchecked"}
    /\ r.got # None /\ ~r.unlucky =>
          \/ /\ r.got.status = 206 /\ r.got.total \in {Len(o), None}
             /\ r.got.bytes = Slice(o, Place(FirstOf(r.at)), PlaceAfter(n, LastOf(Ending(r))) - 1)
          \/ r.got.status = 200 /\ r.got.total = None /\ r.got.bytes = o
    /\ r.kind = "all" /\ r.pc \in InWindow \cup {"log"} => r.sha \/ r.unlucky

(* A read that began without the membership got something only from the    *)
(* CDN, has no hashes to compare with, and returned only if it needed none. *)
Unhashed(r) == IF r.verify THEN "none" ELSE "unchecked"

LateOK(m, r) ==
    r.late => /\ ~m
              /\ r.got # None => r.path = "authenticated"
              /\ r.want # None => r.want = Unhashed(r)
              /\ Gave(r) => r.path = "authenticated" /\ ~r.verify /\ ~r.log

Sound(n, o, h) == o = ObjectOf(n) /\ h = HashesFor(n)
DoubtOK(n, o, h, r) == r.error = "integrity" => ~Sound(n, o, h) \/ r.unlucky

ReadOK(n, o, h, m, r) ==
    PlaceOK(n, r) /\ AnswersOK(n, o, r) /\ LateOK(m, r) /\ DoubtOK(n, o, h, r)

IInv == size \in Nat /\ ReadOK(size, object, hashes, member, read)

-----------------------------------------------------------------------------
(* A read that ends. *)
Ended(x, e, r) == r = [x EXCEPT !.pc = "done", !.error = e, !.got = None, !.want = None]

LEMMA EndsKeeps ==
    ASSUME NEW n, NEW o, NEW h, NEW m, NEW x, ReadOK(n, o, h, m, x), NEW e, NEW r, Ended(x, e, r),
           e = None => ~x.late /\ x.from <= x.to /\ x.plain = ContentOf(x.from, x.to),
           e = "integrity" => ~Sound(n, o, h) \/ x.unlucky
    PROVE  ReadOK(n, o, h, m, r)
<1>1. /\ DOMAIN r = Fields /\ r.pc = "done" /\ r.error = e /\ r.got = None /\ r.want = None
      /\ r.from = x.from /\ r.to = x.to /\ r.at = x.at /\ r.step = x.step /\ r.plain = x.plain
      /\ r.kind = x.kind /\ r.sha = x.sha /\ r.late = x.late /\ r.unlucky = x.unlucky
      /\ r.path = x.path /\ r.verify = x.verify /\ r.log = x.log
    BY DEF ReadOK, PlaceOK, Fields, Ended
<1>2. PlaceOK(n, r)
    BY <1>1 DEF ReadOK, PlaceOK, UnderWay, InWindow, Gave
<1>3. AnswersOK(n, o, r)
    BY <1>1 DEF AnswersOK, InWindow
<1>4. LateOK(m, r)
    BY <1>1 DEF ReadOK, LateOK, Gave, Unhashed
<1>5. DoubtOK(n, o, h, r)
    BY <1>1 DEF DoubtOK
<1> QED  BY <1>2, <1>3, <1>4, <1>5 DEF ReadOK

(* A read that goes on with the same window. *)
Moved(x, l, r) == r = [x EXCEPT !.pc = l]

LEMMA GotoKeeps ==
    ASSUME NEW n, NEW o, NEW h, NEW m, NEW x, ReadOK(n, o, h, m, x), x.pc \in InWindow,
           NEW l \in InWindow, l = "check" => x.got # None /\ x.want # None,
           NEW r, Moved(x, l, r)
    PROVE  ReadOK(n, o, h, m, r)
<1>1. /\ DOMAIN r = Fields /\ r.pc = l /\ r.error = x.error /\ r.got = x.got /\ r.want = x.want
      /\ r.from = x.from /\ r.to = x.to /\ r.at = x.at /\ r.step = x.step /\ r.plain = x.plain
      /\ r.kind = x.kind /\ r.sha = x.sha /\ r.late = x.late /\ r.unlucky = x.unlucky
      /\ r.path = x.path /\ r.verify = x.verify /\ r.log = x.log
    BY DEF ReadOK, PlaceOK, Fields, Moved
<1>2. PlaceOK(n, r)
    BY <1>1 DEF ReadOK, PlaceOK, UnderWay, InWindow, Gave
<1>3. AnswersOK(n, o, r)
    <2>1. Ending(r) = Ending(x)
        BY <1>1 DEF Ending
    <2> QED  BY <1>1, <2>1 DEF ReadOK, AnswersOK, InWindow
<1>4. LateOK(m, r)
    BY <1>1 DEF ReadOK, LateOK, Gave, InWindow, Unhashed
<1>5. DoubtOK(n, o, h, r)
    BY <1>1 DEF ReadOK, DoubtOK
<1> QED  BY <1>2, <1>3, <1>4, <1>5 DEF ReadOK

LEMMA FailureKeeps == ASSUME IInv, Ends("other"), UNCHANGED world PROVE IInv'
<1>1. PICK e : e = "other" /\ Ended(read, e, read')
    BY DEF Ends, Ended
<1>2. e # None /\ e # "integrity"
    BY <1>1, NoneAssumption
<1>3. ReadOK(size, object, hashes, member, read')
    BY <1>1, <1>2, EndsKeeps DEF IInv
<1> QED  BY <1>3 DEF IInv, world

LEMMA MoveKeeps ==
    ASSUME IInv, UNCHANGED world, read.pc \in InWindow,
           \/ Goto("key") \/ Goto("fetch")
           \/ Goto("check") /\ read.got # None /\ read.want # None
    PROVE  IInv'
<1>1. PICK l \in InWindow : Moved(read, l, read') /\ (l = "check" => read.got # None /\ read.want # None)
    BY DEF Goto, Moved, InWindow
<1>2. ReadOK(size, object, hashes, member, read')
    BY <1>1, GotoKeeps DEF IInv
<1> QED  BY <1>2 DEF IInv, world

LEMMA CallFailsKeeps == ASSUME IInv, CallFails PROVE IInv'
BY FailureKeeps DEF CallFails

LEMMA UnwrapDekKeeps == ASSUME IInv, UnwrapDek PROVE IInv'
<1>1. UNCHANGED world /\ read.pc \in InWindow
    BY DEF UnwrapDek, At, world, InWindow
<1> QED  BY <1>1, FailureKeeps, MoveKeeps DEF UnwrapDek

LEMMA BothThereKeeps == ASSUME IInv, BothThere PROVE IInv'
<1>1. UNCHANGED world /\ read.pc \in InWindow
    BY DEF BothThere, At, world, InWindow
<1> QED  BY <1>1, MoveKeeps DEF BothThere

LEMMA OthersKeep ==
    ASSUME IInv,
           UploadCompletes \/ MembershipLost \/ OtherReadCaches \/ EdgeEvicts \/ UNCHANGED vars
    PROVE  IInv'
<1>1. UNCHANGED <<size, object, hashes, read>> /\ (member' = member \/ member' = FALSE)
    BY DEF UploadCompletes, MembershipLost, OtherReadCaches, EdgeEvicts, vars, world
<1>2. LateOK(member', read)
    BY <1>1 DEF IInv, ReadOK, LateOK
<1> QED  BY <1>1, <1>2 DEF IInv, ReadOK

LEMMA EmptyContent == ASSUME NEW a \in Nat PROVE ContentOf(a, a) = <<>>
<1>1. a - a = 0
    OBVIOUS
<1> QED  BY <1>1 DEF ContentOf, Stretch

(* A read that has begun: of a range with a first window, or of a whole. *)
Begun(r, a, m) ==
    /\ DOMAIN r = Fields /\ r.from = a /\ r.at = a /\ r.got = None /\ r.want = None
    /\ r.plain = <<>> /\ r.error = None /\ ~r.unlucky /\ (r.late => ~m)

LEMMA BegunOK ==
    ASSUME NEW n \in Nat, NEW o, NEW h, NEW m, NEW a \in Nat, NEW r, Begun(r, a, m),
           r.to \in Nat, r.to <= n, r.step \in Nat \ {0},
           \/ r.pc = "row" /\ r.kind # "all" /\ a < r.to
           \/ r.pc = "asset" /\ r.kind = "all" /\ a = 0 /\ r.to = n
    PROVE  ReadOK(n, o, h, m, r)
<1>1. r.plain = ContentOf(r.from, r.at)
    BY EmptyContent DEF Begun
<1>2. PlaceOK(n, r)
    BY <1>1 DEF Begun, PlaceOK, UnderWay, InWindow, Gave
<1>3. AnswersOK(n, o, r)
    BY DEF Begun, AnswersOK, InWindow
<1>4. LateOK(m, r)
    BY DEF Begun, LateOK, Gave
<1>5. DoubtOK(n, o, h, r)
    BY NoneAssumption DEF Begun, DoubtOK
<1> QED  BY <1>2, <1>3, <1>4, <1>5 DEF ReadOK

LEMMA StartRangeKeeps == ASSUME IInv, StartRange PROVE IInv'
<1>1. PICK a, b \in 0..size, p \in Paths, v, l \in BOOLEAN :
          /\ a < b
          /\ read' = [NoRead EXCEPT !.pc = "row", !.kind = "range", !.path = p, !.from = a, !.to = b,
                                  !.at = a, !.step = b - a, !.verify = v, !.log = l, !.late = ~member]
    BY DEF StartRange
<1>2. /\ Begun(read', a, member) /\ read'.to = b /\ read'.step = b - a
      /\ read'.pc = "row" /\ read'.kind = "range"
    BY <1>1 DEF NoRead, Fields, Begun
<1>3. a \in Nat /\ b \in Nat /\ b <= size /\ b - a \in Nat \ {0}
    BY <1>1 DEF IInv
<1>4. ReadOK(size, object, hashes, member, read')
    BY <1>1, <1>2, <1>3, BegunOK DEF IInv
<1> QED  BY <1>4 DEF IInv, StartRange, world

LEMMA StartAllKeeps == ASSUME IInv, StartAll PROVE IInv'
<1>1. PICK w \in Windows, p \in Paths, v \in BOOLEAN :
          read' = [NoRead EXCEPT !.pc = "asset", !.kind = "all", !.path = p, !.to = size,
                                  !.step = w * Chunk, !.verify = v, !.late = ~member]
    BY DEF StartAll
<1>2. /\ Begun(read', 0, member) /\ read'.to = size /\ read'.step = w * Chunk
      /\ read'.pc = "asset" /\ read'.kind = "all"
    BY <1>1 DEF NoRead, Fields, Begun
<1>3. w * Chunk \in Nat \ {0} /\ size <= size /\ size \in Nat
    BY SizesAssumption, ChunkAssumption DEF IInv
<1>4. ReadOK(size, object, hashes, member, read')
    BY <1>2, <1>3, BegunOK DEF IInv
<1> QED  BY <1>4 DEF IInv, StartAll, world

LEMMA AssetOfAllKeeps == ASSUME IInv, AssetOfAll PROVE IInv'
<1> DEFINE x == read
<1>1. UNCHANGED world /\ size \in Nat /\ ReadOK(size, object, hashes, member, read)
    BY DEF AssetOfAll, world, IInv
<1>2. CASE RowSeen
    <2>0. /\ read' = [x EXCEPT !.sha = RowComplete, !.unlucky = ~RowComplete,
                              !.pc = IF size > 0 THEN "row" ELSE "log"]
          /\ DOMAIN x = Fields
        BY <1>1, <1>2 DEF AssetOfAll, ReadOK, PlaceOK
    <2>1. /\ DOMAIN read' = Fields /\ read'.pc = (IF size > 0 THEN "row" ELSE "log")
          /\ read'.error = x.error /\ read'.got = x.got /\ read'.want = x.want /\ read'.from = x.from
          /\ read'.to = x.to /\ read'.at = x.at /\ read'.step = x.step /\ read'.plain = x.plain
          /\ read'.kind = x.kind /\ read'.late = x.late /\ (read'.sha \/ read'.unlucky)
          /\ read'.path = x.path /\ read'.verify = x.verify /\ read'.log = x.log
        BY <2>0 DEF Fields
    <2>2. /\ x.pc = "asset" /\ x.from = 0 /\ x.at = 0 /\ x.to = size /\ x.got = None /\ x.want = None
          /\ x.error = None
        BY <1>1 DEF AssetOfAll, At, ReadOK, PlaceOK, AnswersOK
    <2>3. PlaceOK(size, read')
        BY <1>1, <2>1, <2>2 DEF ReadOK, PlaceOK, UnderWay, InWindow, Gave
    <2>4. AnswersOK(size, object, read')
        BY <2>1, <2>2 DEF AnswersOK
    <2>5. LateOK(member, read')
        BY <1>1, <2>1, <2>2 DEF ReadOK, LateOK, Gave
    <2>6. DoubtOK(size, object, hashes, read')
        BY <2>1, <2>2, NoneAssumption DEF DoubtOK
    <2> QED  BY <1>1, <2>3, <2>4, <2>5, <2>6 DEF IInv, ReadOK, world
<1>3. CASE ~RowSeen
    BY <1>1, <1>3, FailureKeeps DEF AssetOfAll
<1> QED  BY <1>2, <1>3

LEMMA AssetOfKeeps == ASSUME IInv, AssetOf PROVE IInv'
<1> DEFINE x == read
<1>1. UNCHANGED world /\ size \in Nat /\ ReadOK(size, object, hashes, member, read)
    BY DEF AssetOf, world, IInv
<1>2. read.pc \in InWindow
    BY DEF AssetOf, At, InWindow
<1>3. CASE ~RowSeen
    BY <1>1, <1>3, FailureKeeps DEF AssetOf
<1>4. CASE RowSeen /\ RowComplete
    BY <1>1, <1>2, <1>4, MoveKeeps DEF AssetOf
<1>5. CASE RowSeen /\ ~RowComplete
    <2>1. /\ DOMAIN read' = Fields /\ read'.pc = "done"
          /\ read'.error = "integrity" /\ read'.got = x.got /\ read'.want = x.want /\ read'.from = x.from
          /\ read'.to = x.to /\ read'.at = x.at /\ read'.step = x.step /\ read'.plain = x.plain
          /\ read'.kind = x.kind /\ read'.late = x.late /\ read'.unlucky
          /\ read'.path = x.path /\ read'.verify = x.verify /\ read'.log = x.log
        BY <1>1, <1>5 DEF AssetOf, ReadOK, PlaceOK, Fields
    <2>2. ~Gave(read')
        BY <2>1, NoneAssumption DEF Gave
    <2>3. PlaceOK(size, read')
        BY <1>1, <2>1, <2>2 DEF ReadOK, PlaceOK, UnderWay, InWindow
    <2>4. AnswersOK(size, object, read')
        BY <2>1 DEF AnswersOK, InWindow
    <2>5. LateOK(member, read')
        BY <1>1, <2>1, <2>2 DEF ReadOK, LateOK, Unhashed
    <2>6. DoubtOK(size, object, hashes, read')
        BY <2>1 DEF DoubtOK
    <2> QED  BY <1>1, <2>3, <2>4, <2>5, <2>6 DEF IInv, ReadOK, world
<1> QED  BY <1>3, <1>4, <1>5

(* The window a read is at. *)
LEMMA AtWindow ==
    ASSUME IInv, read.pc \in InWindow
    PROVE  LET a == read.at
               e == Ending(read)
           IN  /\ WindowEnd = e /\ size \in Nat /\ a \in Nat /\ e \in Nat /\ a < e /\ e <= size
               /\ e <= read.to /\ e \in {read.to, read.at + read.step}
               /\ FirstOf(a) \in 0..LastOf(e) /\ LastOf(e) \in 0..(Count(size) - 1)
               /\ WindowSpan.first = FirstOf(a) /\ WindowSpan.last = LastOf(e)
               /\ WindowSpan.cStart = Place(FirstOf(a))
               /\ WindowSpan.cEnd = PlaceAfter(size, LastOf(e)) - 1
<1> DEFINE a == read.at
           e == Ending(read)
<1>1. /\ size \in Nat /\ read.at \in Nat /\ read.to \in Nat /\ read.step \in Nat
      /\ read.at < read.to /\ read.to <= size /\ read.step > 0
    BY DEF IInv, ReadOK, PlaceOK
<1>2. e = IF read.to <= read.at + read.step THEN read.to ELSE read.at + read.step
    <2>1. read.at + read.step \in Int /\ read.to \in Int
        BY <1>1
    <2> QED  BY <2>1, MinTwo DEF Ending
<1>3. e \in Nat /\ a < e /\ e <= size /\ e <= read.to /\ e \in {read.to, read.at + read.step}
    BY <1>1, <1>2
<1>4. WindowEnd = e
    BY DEF WindowEnd, Ending
<1> HIDE DEF e
<1>5. FirstOf(a) \in Nat /\ LastOf(e) \in 0..(Count(size) - 1) /\ FirstOf(a) <= LastOf(e)
    BY <1>1, <1>3, WindowFacts
<1>6. FirstOf(a) \in 0..LastOf(e)
    BY <1>5, CountFacts
<1>7. WindowSpan = Span(a, e)
    BY <1>4 DEF WindowSpan
<1>8. /\ WindowSpan.first = FirstOf(a) /\ WindowSpan.last = LastOf(e)
      /\ WindowSpan.cStart = Place(FirstOf(a))
      /\ WindowSpan.cEnd = PlaceAfter(size, LastOf(e)) - 1
    BY <1>1, <1>5, <1>7, SpanIs
<1> QED  BY <1>1, <1>3, <1>4, <1>5, <1>6, <1>8 DEF e

(* An answer of the server that is what a sound server answers. *)
GoodAnswer(n, o, x, g) ==
    \/ /\ g.status = 206 /\ g.total \in {Len(o), None}
       /\ g.bytes = Slice(o, Place(FirstOf(x.at)), PlaceAfter(n, LastOf(Ending(x))) - 1)
    \/ g.status = 200 /\ g.total = None /\ g.bytes = o

(* r is x with one more answer. *)
Answered(x, r) ==
    /\ DOMAIN r = Fields /\ r.pc = x.pc /\ r.error = x.error
    /\ r.from = x.from /\ r.to = x.to /\ r.at = x.at /\ r.step = x.step /\ r.plain = x.plain
    /\ r.kind = x.kind /\ r.sha = x.sha /\ r.late = x.late /\ (x.unlucky => r.unlucky)
    /\ r.path = x.path /\ r.verify = x.verify /\ r.log = x.log

LEMMA AnsweredKeeps ==
    ASSUME NEW n, NEW o, NEW h, NEW m, NEW x, ReadOK(n, o, h, m, x), x.pc = "fetch",
           NEW r, Answered(x, r),
           ~r.unlucky => r.want \in {None, "rows", "unchecked"},
           r.got # None /\ ~r.unlucky => GoodAnswer(n, o, x, r.got),
           r.late => /\ r.got # None => r.path = "authenticated"
                     /\ r.want # None => r.want = Unhashed(r)
    PROVE  ReadOK(n, o, h, m, r)
<1>1. PlaceOK(n, r)
    BY DEF ReadOK, PlaceOK, Answered, UnderWay, InWindow, Gave
<1>2. AnswersOK(n, o, r)
    <2>1. Ending(r) = Ending(x)
        BY DEF Ending, Answered
    <2> QED  BY <2>1 DEF ReadOK, AnswersOK, Answered, GoodAnswer, InWindow
<1>3. LateOK(m, r)
    BY DEF ReadOK, LateOK, Answered, Gave
<1>4. DoubtOK(n, o, h, r)
    BY DEF ReadOK, DoubtOK, Answered
<1> QED  BY <1>1, <1>2, <1>3, <1>4 DEF ReadOK

LEMMA ChunkHashesKeeps == ASSUME IInv, ChunkHashes PROVE IInv'
<1>1. /\ UNCHANGED world /\ size \in Nat /\ ReadOK(size, object, hashes, member, read)
      /\ read.pc = "fetch"
    BY DEF ChunkHashes, At, world, IInv
<1>2. Answered(read, read') /\ read'.got = read.got
    BY <1>1 DEF ChunkHashes, ReadOK, PlaceOK, Fields, Answered
<1>3. /\ read'.want = IF ~read.verify THEN "unchecked" ELSE IF member THEN "rows" ELSE "none"
      /\ read'.unlucky <=> (read.unlucky \/ (read.verify /\ ~member))
    BY <1>1 DEF ChunkHashes, ReadOK, PlaceOK, Fields
<1>4. ~read'.unlucky => read'.want \in {None, "rows", "unchecked"}
    BY <1>3
<1>5. /\ read'.got # None /\ ~read'.unlucky => GoodAnswer(size, object, read, read'.got)
    BY <1>1, <1>2 DEF ReadOK, AnswersOK, GoodAnswer, Answered
<1>5a. read'.late => /\ read'.got # None => read'.path = "authenticated"
                     /\ read'.want # None => read'.want = Unhashed(read')
    BY <1>1, <1>2, <1>3 DEF ReadOK, LateOK, Answered, Unhashed
<1>6. ReadOK(size, object, hashes, member, read')
    BY <1>1, <1>2, <1>4, <1>5, <1>5a, AnsweredKeeps
<1> QED  BY <1>1, <1>6 DEF IInv, world

(* r is x with the part b of what was asked for, or of the whole object. *)
Partly(x, b, t, body, r) ==
    r = [x EXCEPT !.got = [status |-> 206, bytes |-> b, total |-> t], !.unlucky = @ \/ b # body]
Wholly(x, b, o, r) ==
    r = [x EXCEPT !.got = [status |-> 200, bytes |-> b, total |-> None], !.unlucky = @ \/ b # o]

LEMMA FetchCipherKeeps == ASSUME IInv, FetchCipher PROVE IInv'
<1> DEFINE sp == WindowSpan
           body == Slice(object, sp.cStart, sp.cEnd)
<1>1. /\ UNCHANGED world /\ size \in Nat /\ ReadOK(size, object, hashes, member, read)
      /\ read.pc = "fetch" /\ read.pc \in InWindow
    BY DEF FetchCipher, At, world, IInv, InWindow
<1>2. /\ sp.cStart = Place(FirstOf(read.at)) /\ sp.cEnd = PlaceAfter(size, LastOf(Ending(read))) - 1
      /\ FirstOf(read.at) \in 0..LastOf(Ending(read)) /\ LastOf(Ending(read)) \in 0..(Count(size) - 1)
    BY <1>1, AtWindow
<1> HIDE DEF sp
<1>3. CASE ~StorageReadable
    BY <1>1, <1>3, FailureKeeps DEF FetchCipher
<1>4. CASE sp.cStart >= Len(object) /\ Ends("integrity")
    <2>1. ~Sound(size, object, hashes)
        <3>1. ASSUME object = ObjectOf(size) PROVE FALSE
            <4>1. Len(object) = TotalOf(size) /\ Place(FirstOf(read.at)) < TotalOf(size)
                BY <1>1, <1>2, <3>1, ObjectSlice
            <4>2. TotalOf(size) \in Nat /\ Place(FirstOf(read.at)) \in Nat
                <5>1. FirstOf(read.at) \in 0..(Count(size) - 1)
                    BY <1>1, <1>2, CountFacts
                <5> QED  BY <1>1, <1>2, <5>1, PlaceOrder, PlaceFacts
            <4> QED  BY <1>2, <1>4, <4>1, <4>2
        <3> QED  BY <3>1 DEF Sound
    <2>2. PICK e : e = "integrity" /\ Ended(read, e, read')
        BY <1>4 DEF Ends, Ended
    <2>3. e # None
        BY <2>2, NoneAssumption
    <2>4. ReadOK(size, object, hashes, member, read')
        BY <1>1, <2>1, <2>2, <2>3, EndsKeeps
    <2> QED  BY <1>1, <2>4 DEF IInv, world
<1>5. ASSUME StorageReadable, NEW g, NEW good, good => GoodAnswer(size, object, read, g),
             read' = [read EXCEPT !.got = g, !.unlucky = @ \/ ~good]
      PROVE  IInv'
    <2>1. Answered(read, read') /\ read'.got = g /\ read'.want = read.want /\ (~read'.unlucky => good)
        BY <1>1, <1>5 DEF ReadOK, PlaceOK, Fields, Answered
    <2>2. read'.late => /\ read'.got # None => read'.path = "authenticated"
                        /\ read'.want # None => read'.want = Unhashed(read')
        BY <1>1, <1>5, <2>1 DEF StorageReadable, EdgeHit, ReadOK, LateOK, Answered, Unhashed
    <2>3. ~read'.unlucky => read'.want \in {None, "rows", "unchecked"}
        BY <1>1, <2>1 DEF ReadOK, AnswersOK, Answered
    <2>4. ReadOK(size, object, hashes, member, read')
        BY <1>1, <1>5, <2>1, <2>2, <2>3, AnsweredKeeps
    <2> QED  BY <1>1, <2>4 DEF IInv, world
<1>6. ASSUME StorageReadable, NEW b, NEW t \in {Len(object), None}, Partly(read, b, t, body, read')
      PROVE  IInv'
    <2> DEFINE g == [status |-> 206, bytes |-> b, total |-> t]
               good == b = body
    <2>1. good => GoodAnswer(size, object, read, g)
        BY <1>2, <1>6 DEF GoodAnswer
    <2>2. read' = [read EXCEPT !.got = g, !.unlucky = @ \/ ~good]
        BY <1>6 DEF Partly
    <2> HIDE DEF g, good
    <2> QED  BY <1>5, <1>6, <2>1, <2>2
<1>7. ASSUME StorageReadable, NEW b, Wholly(read, b, object, read')
      PROVE  IInv'
    <2> DEFINE g == [status |-> 200, bytes |-> b, total |-> None]
               good == b = object
    <2>1. good => GoodAnswer(size, object, read, g)
        BY <1>7 DEF GoodAnswer
    <2>2. read' = [read EXCEPT !.got = g, !.unlucky = @ \/ ~good]
        BY <1>7 DEF Wholly
    <2> HIDE DEF g, good
    <2> QED  BY <1>5, <1>7, <2>1, <2>2
<1>8. CASE StorageReadable
    <2>1. \/ sp.cStart >= Len(object) /\ Ends("integrity")
          \/ \E b \in {body, Front(body)}, t \in {Len(object), None} : Partly(read, b, t, body, read')
          \/ \E b \in {object, IF object = <<>> THEN <<>> ELSE Front(object)} :
                Wholly(read, b, object, read')
        BY <1>8 DEF FetchCipher, sp, Partly, Wholly
    <2> HIDE DEF body
    <2> QED  BY <1>4, <1>6, <1>7, <1>8, <2>1
<1> QED  BY <1>3, <1>8

LEMMA LogAccessKeeps == ASSUME IInv, LogAccess PROVE IInv'
<1> DEFINE ok == read.sha /\ read.plain = Content(0, size)
<1>1. /\ UNCHANGED world /\ size \in Nat /\ ReadOK(size, object, hashes, member, read)
      /\ read.pc = "log"
    BY DEF LogAccess, At, world, IInv
<1>2. /\ read.from \in Nat /\ read.to \in Nat /\ read.from <= read.to
      /\ read.plain = ContentOf(read.from, read.to)
      /\ read.kind = "all" => read.from = 0 /\ read.to = size /\ (read.sha \/ read.unlucky)
    BY <1>1 DEF ReadOK, PlaceOK, AnswersOK, UnderWay, InWindow
<1>3. CASE ~member
    BY <1>1, <1>3, FailureKeeps DEF LogAccess
<1>4. CASE member
    <2>1. ~read.late
        BY <1>1, <1>4 DEF ReadOK, LateOK
    <2>2. read.kind = "all" /\ ~ok => read.unlucky
        <3>1. Content(0, size) = ContentOf(0, size)
            BY <1>1, ContentIs
        <3> QED  BY <1>2, <3>1
    <2>3. PICK e : Ended(read, e, read') /\ (e = "integrity" => read.unlucky)
        <3>1. CASE read.kind = "all" /\ ~ok
            <4>1. Ends("integrity")
                BY <1>4, <3>1 DEF LogAccess
            <4> QED  BY <2>2, <3>1, <4>1 DEF Ends, Ended
        <3>2. CASE ~(read.kind = "all" /\ ~ok)
            <4>1. Ends(None)
                BY <1>4, <3>2 DEF LogAccess
            <4> QED  BY <4>1, NoneAssumption DEF Ends, Ended
        <3> QED  BY <3>1, <3>2
    <2>4. ReadOK(size, object, hashes, member, read')
        BY <1>1, <1>2, <2>1, <2>3, EndsKeeps
    <2> QED  BY <1>1, <2>4 DEF IInv, world
<1> QED  BY <1>3, <1>4

-----------------------------------------------------------------------------
(* The check of a window. *)

(* r is x with the plaintext p of a window that ends at e. *)
Advanced(x, p, e, r) ==
    r = [x EXCEPT !.plain = @ \o p, !.at = e, !.got = None, !.want = None,
                  !.pc = IF e < x.to THEN "row" ELSE IF x.log THEN "log" ELSE "done"]

LEMMA AdvancedKeeps ==
    ASSUME NEW n, NEW o, NEW h, NEW m, NEW x, ReadOK(n, o, h, m, x), x.pc = "check",
           x.want \in {"unchecked", "rows"},
           NEW e \in Nat, x.at < e, e <= x.to, NEW r, Advanced(x, ContentOf(x.at, e), e, r)
    PROVE  ReadOK(n, o, h, m, r)
<1>1. /\ DOMAIN r = Fields /\ r.got = None /\ r.want = None /\ r.error = x.error /\ r.from = x.from
      /\ r.to = x.to /\ r.at = e /\ r.step = x.step /\ r.plain = x.plain \o ContentOf(x.at, e)
      /\ r.kind = x.kind /\ r.sha = x.sha /\ r.late = x.late /\ r.unlucky = x.unlucky
      /\ r.path = x.path /\ r.verify = x.verify /\ r.log = x.log
      /\ r.pc = IF e < x.to THEN "row" ELSE IF x.log THEN "log" ELSE "done"
    BY DEF ReadOK, PlaceOK, Fields, Advanced
<1>2. /\ x.from \in Nat /\ x.at \in Nat /\ x.to \in Nat /\ x.step \in Nat /\ x.from <= x.at
      /\ x.to <= n /\ x.step > 0 /\ x.plain = ContentOf(x.from, x.at) /\ x.error = None
      /\ x.kind = "all" => x.from = 0 /\ x.to = n
      /\ x.kind = "all" => x.sha \/ x.unlucky
      /\ x.got # None
    BY DEF ReadOK, PlaceOK, AnswersOK, UnderWay, InWindow
<1>3. r.plain = ContentOf(x.from, e) /\ x.from <= e
    <2>1. /\ x.from \in Nat /\ x.at \in Nat /\ x.from <= x.at
          /\ x.at <= e /\ x.from <= e
        BY <1>2
    <2>2. Stretch(Plaintext, x.from, x.at) \o Stretch(Plaintext, x.at, e) = Stretch(Plaintext, x.from, e)
        BY <2>1, StretchGlue
    <2> QED  BY <1>1, <1>2, <2>1, <2>2 DEF ContentOf
<1>4. \/ r.pc = "row" /\ e < x.to
      \/ r.pc \in {"log", "done"} /\ e = x.to
    BY <1>1, <1>2
<1>5. PlaceOK(n, r)
    BY <1>1, <1>2, <1>3, <1>4 DEF PlaceOK, UnderWay, InWindow, Gave
<1>6. AnswersOK(n, o, r)
    BY <1>1, <1>2, <1>4 DEF AnswersOK, InWindow
<1>7. LateOK(m, r)
    <2>1. ASSUME x.late PROVE x.path = "authenticated" /\ ~x.verify
        <3>1. x.want # None /\ x.want = Unhashed(x)
            BY <2>1 DEF ReadOK, AnswersOK, LateOK
        <3> QED  BY <1>2, <2>1, <3>1 DEF ReadOK, LateOK, Unhashed
    <2> QED  BY <1>1, <1>2, <2>1 DEF ReadOK, LateOK, Gave
<1>8. DoubtOK(n, o, h, r)
    BY <1>1, <1>2, NoneAssumption DEF DoubtOK
<1> QED  BY <1>5, <1>6, <1>7, <1>8 DEF ReadOK

(* The units of an asset's own ciphertext are units. *)
LEMMA RangeIsBytes ==
    ASSUME NEW n \in Nat, NEW l \in 0..(Count(n) - 1), NEW f \in 0..l
    PROVE  RangeOf(n, f, l) # None
<1>1. Values(Ciphertext(n)) \subseteq Units
    <2>1. ASSUME NEW x \in Nat PROVE Ciphertext(n)[x] \in Units
        <3> DEFINE b == Chunk + Tag
                   i == x \div b
                   k == x - i * b + 1
        <3>1. b \in Nat \ {0} /\ Count(n) \in Nat
            BY ChunkAssumption, CountFacts
        <3>2. i \in Nat /\ i * b <= x
            BY <3>1, Quotient
        <3>3. k \in Nat
            <4> HIDE DEF i
            <4> QED  BY <3>1, <3>2
        <3>4. Ciphertext(n)[x] = CipherAt(n, i, k)
            BY DEF Ciphertext
        <3> HIDE DEF i, k
        <3> QED  BY <3>1, <3>2, <3>3, <3>4 DEF CipherAt, Units
    <2> QED  BY <2>1 DEF Values
<1>2. f \in 0..(Count(n) - 1)
    BY CountFacts
<1>3. Place(f) \in Nat /\ PlaceAfter(n, l) \in Nat /\ Place(f) <= PlaceAfter(n, l)
    <2>1. /\ Place(f) \in Nat /\ PlaceAfter(n, l) \in Nat /\ Place(f) <= Place(l)
          /\ Place(l) \in Nat /\ Place(l) < PlaceAfter(n, l)
        BY <1>2, PlaceFacts, PlaceOrder
    <2> QED  BY <2>1
<1>4. RangeOf(n, f, l) \in Seq(Values(Ciphertext(n)))
    BY <1>3, StretchLen DEF RangeOf
<1>5. RangeOf(n, f, l) \in Seq(Units)
    BY <1>1, <1>4, SeqMonotonic
<1> QED  BY <1>5, NoneAssumption

(* Of the asset's own object, answered well, the body is the window's       *)
(* ciphertext, whether the server gave the range or everything.             *)
LEMMA BodyIs ==
    ASSUME IInv, read.pc = "check", object = ObjectOf(size), ~read.unlucky
    PROVE  Body = RangeOf(size, FirstOf(read.at), LastOf(Ending(read)))
<1> DEFINE f == FirstOf(read.at)
           l == LastOf(Ending(read))
           got == read.got
           need == WindowSpan.cEnd - WindowSpan.cStart + 1
           ignored == got.status = 200 /\ Len(got.bytes) # need
           body == IF ignored THEN Slice(got.bytes, WindowSpan.cStart, WindowSpan.cEnd) ELSE got.bytes
<1>1. /\ size \in Nat /\ f \in 0..l /\ l \in 0..(Count(size) - 1)
      /\ WindowSpan.cStart = Place(f) /\ WindowSpan.cEnd = PlaceAfter(size, l) - 1
    BY AtWindow DEF InWindow
<1>2. got # None /\ GoodAnswer(size, object, read, got)
    BY DEF IInv, ReadOK, AnswersOK, GoodAnswer
<1>3. Body = IF \/ ignored /\ Len(got.bytes) < CipherSize
                \/ got.total # None /\ got.total # CipherSize
                \/ Len(body) < need
             THEN None ELSE body
    BY DEF Body
<1> HIDE DEF f, l
<1>4. /\ Slice(object, Place(f), PlaceAfter(size, l) - 1) = RangeOf(size, f, l)
      /\ Len(object) = TotalOf(size) /\ Len(RangeOf(size, f, l)) = PlaceAfter(size, l) - Place(f)
      /\ CipherSize = TotalOf(size)
    BY <1>1, ObjectSlice, EnvelopeIs
<1>5. /\ Place(f) \in Nat /\ PlaceAfter(size, l) \in Nat /\ TotalOf(size) \in Nat
      /\ Place(f) < PlaceAfter(size, l) /\ PlaceAfter(size, l) <= TotalOf(size)
    <2>1. f \in 0..(Count(size) - 1)
        BY <1>1, CountFacts
    <2>2. /\ Place(f) \in Nat /\ PlaceAfter(size, l) \in Nat /\ TotalOf(size) \in Nat
          /\ Place(f) <= Place(l) /\ Place(l) \in Nat /\ Place(l) < PlaceAfter(size, l)
          /\ PlaceAfter(size, l) <= TotalOf(size)
        BY <1>1, <2>1, PlaceFacts, PlaceOrder
    <2> QED  BY <2>2
<1>6. need = PlaceAfter(size, l) - Place(f) /\ need \in Nat
    BY <1>1, <1>5
<1> HIDE DEF need, got
<1>7. CASE got.status = 206
    <2>1. ~ignored
        BY <1>7
    <2>2. body = RangeOf(size, f, l) /\ got.total \in {TotalOf(size), None}
        BY <1>2, <1>4, <1>7, <2>1 DEF GoodAnswer, f, l
    <2> HIDE DEF ignored, body
    <2> QED  BY <1>3, <1>4, <1>6, <2>1, <2>2 DEF f, l
<1>8. CASE got.status # 206
    <2>1. got.status = 200 /\ got.total = None /\ got.bytes = object
        BY <1>2, <1>8 DEF GoodAnswer
    <2>2. body = RangeOf(size, f, l)
        <3>1. CASE ignored
            BY <1>1, <1>4, <2>1, <3>1
        <3>2. CASE ~ignored
            <4>1. TotalOf(size) = need
                BY <1>4, <2>1, <3>2
            <4>2. Place(f) = 0 /\ PlaceAfter(size, l) = TotalOf(size)
                BY <1>5, <1>6, <4>1
            <4>3. body = object
                BY <2>1, <3>2
            <4> QED  BY <4>2, <4>3 DEF RangeOf, ObjectOf, TotalOf
        <3> QED  BY <3>1, <3>2
    <2>3. Len(got.bytes) = CipherSize /\ Len(body) = need /\ CipherSize \in Nat
        BY <1>4, <1>5, <1>6, <2>1, <2>2
    <2> HIDE DEF ignored, body
    <2> QED  BY <1>3, <1>6, <2>1, <2>2, <2>3 DEF f, l
<1> QED  BY <1>7, <1>8

(* Check, with names for its parts. *)
Passes(i) ==
    /\ read.want = "unchecked" \/ (read.want = "rows" /\ CipherOf(Body, i) = hashes[i])
    /\ Authentic(i, CipherOf(Body, i))

WindowPlain(f, l) == FlattenSeq([c \in 1..(l - f + 1) |-> PlainOf(f + c - 1, CipherOf(Body, f + c - 1))])

LEMMA CheckIs ==
    ASSUME Check, NEW f \in Nat, NEW l \in Nat, WindowSpan.first = f, WindowSpan.last = l
    PROVE  \/ (\A i \in f..l : Passes(i)) /\ Advanced(read, WindowPlain(f, l), WindowEnd, read')
           \/ ~(Body # None /\ \A i \in f..l : Passes(i)) /\ Ends("integrity")
<1> DEFINE ct == [i \in f..l |-> CipherOf(Body, i)]
           Good(i) == /\ read.want = "unchecked" \/ (read.want = "rows" /\ ct[i] = hashes[i])
                      /\ Authentic(i, ct[i])
           s == [c \in 1..(l - f + 1) |-> PlainOf(f + c - 1, ct[f + c - 1])]
<1>1. \/ Body # None /\ (\A i \in f..l : Good(i)) /\ Advanced(read, FlattenSeq(s), WindowEnd, read')
      \/ ~(Body # None /\ (\A i \in f..l : Good(i))) /\ Ends("integrity")
    BY DEF Check, Advanced
<1>2. \A i \in f..l : ct[i] = CipherOf(Body, i)
    OBVIOUS
<1>3. \A i \in f..l : Good(i) <=> Passes(i)
    BY <1>2 DEF Passes
<1>4. s = [c \in 1..(l - f + 1) |-> PlainOf(f + c - 1, CipherOf(Body, f + c - 1))]
    <2>1. \A c \in 1..(l - f + 1) : f + c - 1 \in f..l
        OBVIOUS
    <2> HIDE DEF ct
    <2> QED  BY <1>2, <2>1
<1>5. FlattenSeq(s) = WindowPlain(f, l)
    BY <1>4 DEF WindowPlain
<1> HIDE DEF Good, s
<1> QED  BY <1>1, <1>3, <1>5

LEMMA CheckKeeps == ASSUME IInv, Check PROVE IInv'
<1> DEFINE a == read.at
           e == Ending(read)
           f == FirstOf(a)
           l == LastOf(e)
<1>1. /\ UNCHANGED world /\ size \in Nat /\ ReadOK(size, object, hashes, member, read)
      /\ read.pc = "check" /\ read.pc \in InWindow
    BY DEF Check, At, world, IInv, InWindow
<1>2. /\ WindowEnd = e /\ a \in Nat /\ e \in Nat /\ a < e /\ e <= size /\ e <= read.to
      /\ f \in 0..l /\ l \in 0..(Count(size) - 1)
      /\ WindowSpan.first = f /\ WindowSpan.last = l /\ WindowSpan.cStart = Place(f)
    BY <1>1, AtWindow
<1>3. f \in Nat /\ l \in Nat /\ \A i \in f..l : i \in 0..(Count(size) - 1)
    BY <1>1, <1>2, CountFacts
<1> HIDE DEF e, f, l
<1>4. CASE (\A i \in f..l : Passes(i)) /\ Advanced(read, WindowPlain(f, l), WindowEnd, read')
    <2>1. ASSUME NEW i \in f..l
          PROVE  PlainOf(i, CipherOf(Body, i)) = PieceOf(size, a, e, i)
        <3>1. CipherOf(Body, i) = ChunkOf(size, i)
            BY <1>1, <1>3, <1>4, AuthenticIs DEF Passes
        <3>2. PlainLen(i) = LenOf(size, i)
            BY <1>1, EnvelopeIs
        <3> QED  BY <1>2, <3>1, <3>2 DEF PlainOf, PieceOf
    <2>2. WindowPlain(f, l) = ContentOf(a, e)
        <3> DEFINE s == [c \in 1..(l - f + 1) |-> PieceOf(size, a, e, f + c - 1)]
        <3>1. \A c \in 1..(l - f + 1) : f + c - 1 \in f..l
            BY <1>3
        <3>2. WindowPlain(f, l) = FlattenSeq(s)
            BY <2>1, <3>1 DEF WindowPlain
        <3>3. s = [c \in 1..(LastOf(e) - FirstOf(a) + 1) |-> PieceOf(size, a, e, FirstOf(a) + c - 1)]
            BY DEF f, l
        <3> HIDE DEF s
        <3>4. FlattenSeq(s) = ContentOf(a, e)
            BY <1>1, <1>2, <3>3, PiecesGlue
        <3> QED  BY <3>2, <3>4
    <2>3. read.want \in {"unchecked", "rows"}
        <3>1. f \in f..l
            BY <1>2, <1>3
        <3> QED  BY <1>4, <3>1 DEF Passes
    <2>4. ReadOK(size, object, hashes, member, read')
        BY <1>1, <1>2, <1>4, <2>2, <2>3, AdvancedKeeps
    <2> QED  BY <1>1, <2>4 DEF IInv, world
<1>5. CASE ~(Body # None /\ \A i \in f..l : Passes(i)) /\ Ends("integrity")
    <2>1. ASSUME Sound(size, object, hashes), ~read.unlucky PROVE FALSE
        <3>1. object = ObjectOf(size) /\ hashes = HashesFor(size)
            BY <2>1 DEF Sound
        <3>2. Body = RangeOf(size, f, l) /\ Body # None
            BY <1>1, <1>2, <2>1, <3>1, BodyIs, RangeIsBytes DEF f, l, e
        <3>3. ASSUME NEW i \in f..l PROVE Passes(i)
            <4>1. CipherOf(Body, i) = ChunkOf(size, i)
                <5>1. /\ CipherOffset(i) = Place(i) /\ PlainLen(i) = LenOf(size, i)
                    BY <1>1, EnvelopeIs
                <5>2. LET off == Place(i) - Place(f)
                      IN  Slice(RangeOf(size, f, l), off, off + LenOf(size, i) + Tag - 1) = ChunkOf(size, i)
                    BY <1>1, <1>2, ChunkSlice
                <5> QED  BY <1>2, <3>2, <5>1, <5>2 DEF CipherOf
            <4>2. hashes[i] = ChunkOf(size, i)
                BY <1>3, <3>1 DEF HashesFor
            <4>3. read.want \in {"rows", "unchecked"}
                BY <1>1, <2>1 DEF ReadOK, AnswersOK
            <4>4. Authentic(i, CipherOf(Body, i))
                BY <1>1, <1>3, <4>1, AuthenticIs
            <4> QED  BY <4>1, <4>2, <4>3, <4>4 DEF Passes
        <3> QED  BY <1>5, <3>2, <3>3
    <2>2. PICK x : x = "integrity" /\ Ended(read, x, read')
        BY <1>5 DEF Ends, Ended
    <2>3. x # None
        BY <2>2, NoneAssumption
    <2>4. ReadOK(size, object, hashes, member, read')
        BY <1>1, <2>1, <2>2, <2>3, EndsKeeps
    <2> QED  BY <1>1, <2>4 DEF IInv, world
<1> QED  BY <1>2, <1>3, <1>4, <1>5, CheckIs

-----------------------------------------------------------------------------
(* The theorems. *)

LEMMA InitIInv == ASSUME Init PROVE IInv
<1>1. size \in Nat
    BY SizesAssumption DEF Init
<1>2. /\ DOMAIN read = Fields /\ read.pc = "free" /\ read.from = 0 /\ read.to = 0 /\ read.at = 0
      /\ read.step = 0 /\ read.got = None /\ read.want = None /\ read.error = None
      /\ ~read.late /\ ~read.unlucky
    BY DEF Init, NoRead, Fields
<1>3. PlaceOK(size, read)
    BY <1>2 DEF PlaceOK, UnderWay, InWindow, Gave
<1>4. AnswersOK(size, object, read)
    BY <1>2 DEF AnswersOK, InWindow
<1>5. LateOK(member, read) /\ DoubtOK(size, object, hashes, read)
    BY <1>2, NoneAssumption DEF LateOK, DoubtOK
<1> QED  BY <1>1, <1>3, <1>4, <1>5 DEF IInv, ReadOK

LEMMA NextKeeps == ASSUME IInv, [Next]_vars PROVE IInv'
BY StartRangeKeeps, StartAllKeeps, AssetOfAllKeeps, AssetOfKeeps, UnwrapDekKeeps, FetchCipherKeeps,
   ChunkHashesKeeps, BothThereKeeps, CheckKeeps, LogAccessKeeps, CallFailsKeeps, OthersKeep
   DEF Next, ReadStep

LEMMA Inductive == Spec => []IInv
BY InitIInv, NextKeeps, PTL DEF Spec

(* readRange() and readAll() of any asset, with any chunk size, tag length  *)
(* and window, give the plaintext of their range or fail, whatever is in    *)
(* storage and whatever the server answers.                                 *)
THEOREM Closed == Spec => []FailsClosed
<1>1. ASSUME IInv PROVE FailsClosed
    <2>1. PlaceOK(size, read)
        BY <1>1 DEF IInv, ReadOK
    <2>2. ASSUME Returned PROVE read.plain = Content(read.from, read.to)
        <3>1. /\ read.from \in Nat /\ read.to \in Nat /\ read.from <= read.to
              /\ read.plain = ContentOf(read.from, read.to)
            BY <2>1, <2>2 DEF PlaceOK, Returned, At, Gave
        <3> QED  BY <3>1, ContentIs
    <2> QED  BY <2>2 DEF FailsClosed
<1> QED  BY <1>1, Inductive, PTL

(* An integrity error of a read whose answers were complete and who is a    *)
(* member is the fault of the object or of its hashes.                      *)
THEOREM Justified == Spec => []DoubtIsJustified
<1>1. ASSUME IInv PROVE DoubtIsJustified
    <2>1. size \in Nat /\ DoubtOK(size, object, hashes, read)
        BY <1>1 DEF IInv, ReadOK
    <2>2. Intact = ObjectOf(size) /\ HashesOf(Intact) = HashesFor(size)
        BY <2>1, IntactIs
    <2> QED  BY <2>1, <2>2 DEF DoubtIsJustified, DoubtOK, Sound
<1> QED  BY <1>1, Inductive, PTL

(* A read that begins after the membership was lost returns only what the   *)
(* CDN still has, and only without the hash check and without the log,      *)
(* whatever row and key the process has cached.                             *)
THEOREM Revoked == Spec => []RevokedReadsOnlyEdge
<1>1. ASSUME IInv PROVE RevokedReadsOnlyEdge
    BY <1>1 DEF IInv, ReadOK, LateOK, RevokedReadsOnlyEdge, Returned, At, Gave
<1> QED  BY <1>1, Inductive, PTL
=============================================================================
