---------------------------- MODULE FanoutProofs -----------------------------
(***************************************************************************)
(* Proofs about Fanout, for any screens, users, endpoints, lifetimes,      *)
(* timeout and write delay.                                                *)
(*                                                                         *)
(* CacheHonest is about the age of what a screen reads, which no variable  *)
(* records while it grows.  IInv follows a body from the call to the row:  *)
(* the calls of a screen begin together and are over within the timeout,   *)
(* so a body is at most the timeout old when the screen is gathered, at    *)
(* most PutDelay older when it is written, and expires accordingly.        *)
(***************************************************************************)
EXTENDS Fanout, TLAPS

Bodies == [user : Users, made : Nat]
Rows == [body : Bodies, expires : Nat]
Parts == [body : Bodies, source : {"cache", "upstream"}, age : Int]
ScreenTypes ==
    [pc : {"free", "read", "calls", "write", "done"}, user : Users \cup {None},
     forced : SUBSET Endpoints, data : [Endpoints -> Parts \cup {None}], gathered : Nat]
CallTypes == [pc : {"none", "waiting", "body", "over"}, sent : Nat]

Active(c) == c.pc \in {"waiting", "body"}
Fetched(d) == d # None /\ d.source = "upstream"

(* What CacheHonest says of one part d of a screen of user u. *)
PartOK(d, u, e) ==
    d # None => /\ d.body.user = u
                /\ d.source = "upstream" \/ d.age < Ttl[e] + Timeout + PutDelay

(* The calls k of a screen q began at b, and the time t is inside their     *)
(* deadline.                                                                *)
Since(q, k, t, b) ==
    /\ b <= t /\ t <= b + Timeout
    /\ \A e \in Endpoints : /\ Active(k[e]) => k[e].sent = b
                            /\ Fetched(q.data[e]) => q.data[e].body.made >= b

(* Gathered, and not yet written. *)
Pending(q, t) ==
    /\ t <= q.gathered + PutDelay
    /\ \A e \in Endpoints : Fetched(q.data[e]) => q.data[e].body.made + Timeout >= q.gathered

(* What holds of a screen q with calls k at time t. *)
ScreenOK(q, k, t) ==
    /\ q \in ScreenTypes /\ k \in [Endpoints -> CallTypes]
    /\ q.pc # "free" => q.user \in Users
    /\ q.pc \in {"free", "read"} => \A e \in Endpoints : q.data[e] = None
    /\ \A e \in Endpoints : PartOK(q.data[e], q.user, e)
    /\ \A e \in Endpoints : Active(k[e]) => q.pc = "calls"
    /\ q.pc = "calls" => \E b \in Nat : Since(q, k, t, b)
    /\ q.pc = "write" => Pending(q, t)

(* A row is of the user it is stored for, and expires at most its lifetime, *)
(* the timeout and the write delay after its body was made.                 *)
RowOK(r, u, e) ==
    r # None => /\ r \in Rows /\ r.body.user = u
                /\ r.expires <= r.body.made + Ttl[e] + Timeout + PutDelay

CacheOK ==
    /\ cache \in [Users -> [Endpoints -> Rows \cup {None}]]
    /\ \A u \in Users, e \in Endpoints : RowOK(cache[u][e], u, e)

IInv ==
    /\ now \in Nat /\ CacheOK
    /\ screen \in [Screens -> ScreenTypes]
    /\ call \in [Screens -> [Endpoints -> CallTypes]]
    /\ \A s \in Screens : ScreenOK(screen[s], call[s], now)

-----------------------------------------------------------------------------
LEMMA NoScreenOK ==
    ASSUME NEW k \in [Endpoints -> CallTypes], \A e \in Endpoints : ~Active(k[e]), NEW t \in Nat
    PROVE  ScreenOK(NoScreen, k, t)
BY DEF NoScreen, ScreenOK, ScreenTypes, PartOK

LEMMA InitIInv == ASSUME Init PROVE IInv
<1>1. now \in Nat /\ CacheOK
    BY DEF Init, CacheOK, RowOK
<1>2. NoScreen \in ScreenTypes /\ NoCall \in CallTypes /\ ~Active(NoCall)
    BY DEF NoScreen, ScreenTypes, NoCall, CallTypes, Active
<1>3. ASSUME NEW s \in Screens PROVE ScreenOK(screen[s], call[s], now)
    <2>1. call[s] \in [Endpoints -> CallTypes] /\ \A e \in Endpoints : ~Active(call[s][e])
        BY <1>2 DEF Init
    <2> QED  BY <1>1, <2>1, NoScreenOK DEF Init
<1>4. screen \in [Screens -> ScreenTypes] /\ call \in [Screens -> [Endpoints -> CallTypes]]
    BY <1>2 DEF Init
<1> QED  BY <1>1, <1>3, <1>4 DEF IInv

(* One screen moves, to q with calls k. *)
LEMMA OneMoves ==
    ASSUME IInv, NEW s \in Screens, NEW q, NEW k, CacheOK', now' = now,
           screen' = [screen EXCEPT ![s] = q], call' = [call EXCEPT ![s] = k],
           ScreenOK(q, k, now)
    PROVE  IInv'
<1>1. screen' \in [Screens -> ScreenTypes] /\ call' \in [Screens -> [Endpoints -> CallTypes]]
    BY DEF IInv, ScreenOK
<1>2. ASSUME NEW r \in Screens PROVE ScreenOK(screen'[r], call'[r], now')
    <2>1. CASE r = s
        BY <2>1 DEF IInv
    <2>2. CASE r # s
        BY <2>2 DEF IInv
    <2> QED  BY <2>1, <2>2
<1> QED  BY <1>1, <1>2 DEF IInv

(* The facts about one screen that every step starts from. *)
LEMMA Here ==
    ASSUME IInv, NEW s \in Screens
    PROVE  /\ now \in Nat /\ CacheOK /\ ScreenOK(screen[s], call[s], now)
           /\ screen[s] \in ScreenTypes /\ call[s] \in [Endpoints -> CallTypes]
BY DEF IInv, ScreenOK

-----------------------------------------------------------------------------
(* fanOut() *)

(* All calls begin now. *)
LEMMA CallsBegin ==
    ASSUME NEW q \in ScreenTypes, NEW k \in [Endpoints -> CallTypes], NEW t \in Nat,
           q.pc = "calls", q.user \in Users,
           \A e \in Endpoints : PartOK(q.data[e], q.user, e) /\ ~Fetched(q.data[e]),
           \A e \in Endpoints : Active(k[e]) => k[e].sent = t
    PROVE  ScreenOK(q, k, t)
<1>1. Since(q, k, t, t)
    BY TimeAssumption DEF Since
<1> QED  BY <1>1 DEF ScreenOK

LEMMA BeginKeeps ==
    ASSUME IInv, NEW s \in Screens, NEW u \in Users, NEW f \in SUBSET Endpoints,
           NEW r \in BOOLEAN, Begin(s, u, f, r)
    PROVE  IInv'
<1> USE Here
<1>1. CacheOK' /\ now' = now
    BY DEF Begin, CacheOK
<1>2. CASE r \/ f = Endpoints
    <2> DEFINE q == [NoScreen EXCEPT !.pc = "calls", !.user = u]
    <2> DEFINE k == [e \in Endpoints |-> [pc |-> "waiting", sent |-> now]]
    <2>1. screen' = [screen EXCEPT ![s] = q] /\ call' = [call EXCEPT ![s] = k]
        BY <1>2 DEF Begin
    <2>2. q \in ScreenTypes /\ q.pc = "calls" /\ q.user \in Users
          /\ \A e \in Endpoints : q.data[e] = None
        BY DEF NoScreen, ScreenTypes
    <2>3. k \in [Endpoints -> CallTypes] /\ \A e \in Endpoints : k[e].sent = now
        BY DEF CallTypes
    <2> HIDE DEF q, k
    <2>4. ScreenOK(q, k, now)
        BY <2>2, <2>3, CallsBegin DEF PartOK, Fetched
    <2> QED  BY <1>1, <2>1, <2>4, OneMoves
<1>3. CASE ~(r \/ f = Endpoints)
    <2> DEFINE q == [NoScreen EXCEPT !.pc = "read", !.user = u, !.forced = f]
    <2>1. screen' = [screen EXCEPT ![s] = q] /\ call' = call
        BY <1>3 DEF Begin
    <2>2. q \in ScreenTypes /\ q.pc = "read" /\ q.user \in Users
          /\ \A e \in Endpoints : q.data[e] = None
        BY DEF NoScreen, ScreenTypes
    <2> HIDE DEF q
    <2>3. \A e \in Endpoints : ~Active(call[s][e])
        BY DEF Begin, ScreenOK
    <2>4. ScreenOK(q, call[s], now)
        BY <2>2, <2>3 DEF ScreenOK, PartOK
    <2>5. call' = [call EXCEPT ![s] = call[s]]
        BY <2>1 DEF IInv
    <2> QED  BY <1>1, <2>1, <2>4, <2>5, OneMoves
<1> QED  BY <1>2, <1>3

(* What CallMisses does with parts that are honest and not fetched. *)
LEMMA CallMissesKeeps ==
    ASSUME IInv, NEW s \in Screens, NEW data \in [Endpoints -> Parts \cup {None}],
           screen[s].pc = "read", CallMisses(s, data), UNCHANGED <<now, cache>>,
           \A e \in Endpoints : PartOK(data[e], screen[s].user, e) /\ ~Fetched(data[e])
    PROVE  IInv'
<1> USE Here
<1> DEFINE q == [screen[s] EXCEPT !.pc = "calls", !.data = data, !.forced = {}]
<1> DEFINE k == [e \in Endpoints |->
                    IF data[e] = None THEN [pc |-> "waiting", sent |-> now] ELSE NoCall]
<1>1. screen' = [screen EXCEPT ![s] = q] /\ call' = [call EXCEPT ![s] = k]
    BY DEF CallMisses, IInv
<1>2. q \in ScreenTypes /\ q.pc = "calls" /\ q.user = screen[s].user /\ q.data = data
    BY DEF ScreenTypes
<1>3. screen[s].user \in Users
    BY DEF ScreenOK
<1>4. k \in [Endpoints -> CallTypes]
    BY DEF CallTypes, NoCall
<1>5. ASSUME NEW e \in Endpoints, Active(k[e]) PROVE k[e].sent = now
    BY <1>5 DEF Active, NoCall
<1> HIDE DEF q, k
<1>6. ScreenOK(q, k, now)
    BY <1>2, <1>3, <1>4, <1>5, CallsBegin
<1>7. CacheOK' /\ now' = now
    BY DEF CacheOK
<1> QED  BY <1>1, <1>6, <1>7, OneMoves

(* What a screen takes from the cache is honest. *)
LEMMA CacheReadKeeps == ASSUME IInv, NEW s \in Screens, CacheRead(s) PROVE IInv'
<1> USE Here
<1> DEFINE hit(e) == (CHOOSE r \in CacheGet(s, e) : TRUE).body
<1> DEFINE part(e) == IF CacheGet(s, e) = {} THEN None
                      ELSE [body |-> hit(e), source |-> "cache", age |-> now - hit(e).made]
<1> DEFINE data == [e \in Endpoints |-> part(e)]
<1>1. screen[s].pc = "read" /\ screen[s].user \in Users
    BY DEF CacheRead, ScreenOK
<1>2. ASSUME NEW e \in Endpoints
      PROVE  /\ part(e) \in Parts \cup {None}
             /\ PartOK(part(e), screen[s].user, e) /\ ~Fetched(part(e))
    <2>1. CASE CacheGet(s, e) = {}
        BY <2>1 DEF PartOK, Fetched
    <2>2. CASE CacheGet(s, e) # {}
        <3> DEFINE r == CHOOSE x \in CacheGet(s, e) : TRUE
        <3>1. r \in CacheGet(s, e)
            BY <2>2
        <3>2. r = cache[screen[s].user][e] /\ r # None /\ r.expires > now
            BY <3>1 DEF CacheGet, Visible, Unexpired
        <3>3. RowOK(r, screen[s].user, e)
            BY <1>1, <3>2 DEF CacheOK
        <3>4. part(e) = [body |-> r.body, source |-> "cache", age |-> now - r.body.made]
            BY <2>2
        <3> HIDE DEF r, part
        <3>5. r \in Rows /\ r.body.user = screen[s].user
              /\ r.expires <= r.body.made + Ttl[e] + Timeout + PutDelay
            BY <3>2, <3>3 DEF RowOK
        <3>6. r.body \in Bodies /\ r.body.made \in Nat /\ r.expires \in Nat /\ Ttl[e] \in Nat
            BY <3>5, TtlAssumption DEF Rows, Bodies
        <3>7. now - r.body.made < Ttl[e] + Timeout + PutDelay
            BY <3>2, <3>5, <3>6, TimeAssumption
        <3> QED  BY <3>4, <3>5, <3>6, <3>7 DEF Parts, PartOK, Fetched
    <2> QED  BY <2>1, <2>2
<1>3. CallMisses(s, data) /\ UNCHANGED <<now, cache>>
    BY DEF CacheRead
<1>4. data \in [Endpoints -> Parts \cup {None}]
    BY <1>2
<1>5. \A e \in Endpoints : PartOK(data[e], screen[s].user, e) /\ ~Fetched(data[e])
    BY <1>2
<1> HIDE DEF data
<1> QED  BY <1>1, <1>3, <1>4, <1>5, CallMissesKeeps

LEMMA CacheReadFailsKeeps == ASSUME IInv, NEW s \in Screens, CacheReadFails(s) PROVE IInv'
<1>1. screen[s].data \in [Endpoints -> Parts \cup {None}]
    BY Here DEF ScreenTypes
<1>2. \A e \in Endpoints : screen[s].data[e] = None
    BY Here DEF CacheReadFails, ScreenOK
<1>3. screen[s].pc = "read" /\ CallMisses(s, screen[s].data) /\ UNCHANGED <<now, cache>>
    BY DEF CacheReadFails
<1>4. \A e \in Endpoints : PartOK(screen[s].data[e], screen[s].user, e) /\ ~Fetched(screen[s].data[e])
    BY <1>2 DEF PartOK, Fetched
<1> QED  BY <1>1, <1>3, <1>4, CallMissesKeeps

(* The screen is gathered inside its deadline, so no body is older. *)
LEMMA GatherKeeps == ASSUME IInv, NEW s \in Screens, Gather(s) PROVE IInv'
<1> USE Here
<1> DEFINE q == [screen[s] EXCEPT !.pc = IF ToStore(s) # {} THEN "write" ELSE "done",
                                  !.gathered = IF ToStore(s) # {} THEN now ELSE 0]
<1>1. screen' = [screen EXCEPT ![s] = q] /\ call' = [call EXCEPT ![s] = call[s]]
    BY DEF Gather, IInv
<1>2. q \in ScreenTypes /\ q.data = screen[s].data /\ q.user = screen[s].user
      /\ q.pc \in {"write", "done"} /\ (q.pc = "write" => q.gathered = now)
    BY DEF ScreenTypes
<1> HIDE DEF q
<1>3. \A e \in Endpoints : ~Active(call[s][e])
    BY DEF Gather, AllOver, Active
<1>4. PICK b \in Nat : Since(screen[s], call[s], now, b)
    BY DEF Gather, ScreenOK
<1>5. q.pc = "write" => Pending(q, now)
    <2> SUFFICES ASSUME q.pc = "write" PROVE Pending(q, now)  OBVIOUS
    <2>1. ASSUME NEW e \in Endpoints, Fetched(q.data[e])
          PROVE  q.data[e].body.made + Timeout >= q.gathered
        <3>1. q.data[e].body.made \in Nat
            BY <1>2, <2>1 DEF ScreenTypes, Parts, Bodies, Fetched
        <3> QED  BY <1>2, <1>4, <2>1, <3>1, TimeAssumption DEF Since
    <2> QED  BY <1>2, <2>1, TimeAssumption DEF Pending
<1>6. screen[s].user \in Users
    BY DEF Gather, ScreenOK
<1>7. ScreenOK(q, call[s], now)
    BY <1>2, <1>3, <1>5, <1>6 DEF ScreenOK
<1>8. CacheOK' /\ now' = now
    BY DEF Gather, CacheOK
<1> QED  BY <1>1, <1>7, <1>8, OneMoves

(* A screen that has stored, or could not, is done. *)
LEMMA DoneOK ==
    ASSUME IInv, NEW s \in Screens, screen[s].pc = "write"
    PROVE  ScreenOK([screen[s] EXCEPT !.pc = "done", !.gathered = 0], call[s], now)
<1> USE Here
<1> DEFINE q == [screen[s] EXCEPT !.pc = "done", !.gathered = 0]
<1>1. q \in ScreenTypes /\ q.data = screen[s].data /\ q.user = screen[s].user /\ q.pc = "done"
    BY DEF ScreenTypes
<1> HIDE DEF q
<1>2. ScreenOK(q, call[s], now)
    BY <1>1 DEF ScreenOK
<1> QED  BY <1>2 DEF q

LEMMA CacheWriteKeeps == ASSUME IInv, NEW s \in Screens, CacheWrite(s) PROVE IInv'
<1> USE Here
<1> DEFINE u == screen[s].user
<1> DEFINE row(e) == [body |-> screen[s].data[e].body, expires |-> now + Ttl[e]]
<1> DEFINE rows == [e \in Endpoints |-> IF e \in ToStore(s) THEN row(e) ELSE cache[u][e]]
<1>1. u \in Users /\ Pending(screen[s], now)
    BY DEF CacheWrite, ScreenOK
<1>2. cache' = [cache EXCEPT ![u] = rows]
    BY <1>1 DEF CacheWrite, CacheOK
<1>3. ASSUME NEW e \in Endpoints, e \in ToStore(s)
      PROVE  row(e) \in Rows /\ RowOK(row(e), u, e)
    <2>1. Fetched(screen[s].data[e]) /\ screen[s].data[e] \in Parts
        BY <1>3 DEF ToStore, Fetched, ScreenTypes
    <2>2. screen[s].data[e].body \in Bodies /\ screen[s].data[e].body.made \in Nat
        BY <2>1 DEF Parts, Bodies
    <2>3. screen[s].data[e].body.user = u
        BY <2>1 DEF ScreenOK, PartOK, Fetched
    <2>4. Ttl[e] \in Nat /\ screen[s].gathered \in Nat
        BY TtlAssumption DEF ScreenTypes
    <2>5. now <= screen[s].gathered + PutDelay
          /\ screen[s].data[e].body.made + Timeout >= screen[s].gathered
        BY <1>1, <2>1 DEF Pending
    <2>6. now + Ttl[e] <= screen[s].data[e].body.made + Ttl[e] + Timeout + PutDelay
        BY <2>2, <2>4, <2>5, TimeAssumption
    <2> QED  BY <2>2, <2>3, <2>4, <2>6 DEF Rows, RowOK
<1> HIDE DEF row, u
<1>4. \A e \in Endpoints : rows[e] \in Rows \cup {None} /\ RowOK(rows[e], u, e)
    BY <1>1, <1>3 DEF CacheOK
<1>5. rows \in [Endpoints -> Rows \cup {None}]
    BY <1>4
<1> HIDE DEF rows
<1>6. CacheOK'
    BY <1>1, <1>2, <1>4, <1>5 DEF CacheOK
<1>7. /\ screen' = [screen EXCEPT ![s] = [screen[s] EXCEPT !.pc = "done", !.gathered = 0]]
      /\ call' = [call EXCEPT ![s] = call[s]] /\ now' = now
    BY DEF CacheWrite, IInv
<1>8. ScreenOK([screen[s] EXCEPT !.pc = "done", !.gathered = 0], call[s], now)
    BY DoneOK DEF CacheWrite
<1> QED  BY <1>6, <1>7, <1>8, OneMoves

LEMMA CacheWriteFailsKeeps == ASSUME IInv, NEW s \in Screens, CacheWriteFails(s) PROVE IInv'
<1>1. /\ screen' = [screen EXCEPT ![s] = [screen[s] EXCEPT !.pc = "done", !.gathered = 0]]
      /\ call' = [call EXCEPT ![s] = call[s]] /\ now' = now
    BY DEF CacheWriteFails, IInv
<1>2. ScreenOK([screen[s] EXCEPT !.pc = "done", !.gathered = 0], call[s], now)
    BY DoneOK DEF CacheWriteFails
<1>3. CacheOK'
    BY Here DEF CacheWriteFails, CacheOK
<1> QED  BY <1>1, <1>2, <1>3, OneMoves

-----------------------------------------------------------------------------
(* callOne() *)

(* A call of e moves to c, which is over or still waits for the same        *)
(* request; the screen keeps its parts, or gets one that was made since.    *)
LEMMA CallMoves ==
    ASSUME IInv, NEW s \in Screens, NEW e \in Endpoints, NEW c \in CallTypes, NEW d,
           Active(call[s][e]), Active(c) => c.sent = call[s][e].sent,
           d = screen[s].data[e] \/
              (/\ d \in Parts /\ d.source = "upstream" /\ d.body.user = screen[s].user
               /\ d.body.made >= call[s][e].sent),
           screen' = [screen EXCEPT ![s].data[e] = d], call' = [call EXCEPT ![s][e] = c],
           UNCHANGED <<now, cache>>
    PROVE  IInv'
<1> USE Here
<1> DEFINE q == [screen[s] EXCEPT !.data[e] = d]
<1> DEFINE k == [call[s] EXCEPT ![e] = c]
<1>1. screen' = [screen EXCEPT ![s] = q] /\ call' = [call EXCEPT ![s] = k]
    BY DEF IInv
<1>2. d \in Parts \cup {None}
    BY DEF ScreenTypes
<1>3. /\ q \in ScreenTypes /\ q.pc = screen[s].pc /\ q.user = screen[s].user
      /\ q.data[e] = d /\ \A f \in Endpoints : f # e => q.data[f] = screen[s].data[f]
    BY <1>2 DEF ScreenTypes
<1>4. /\ k \in [Endpoints -> CallTypes] /\ k[e] = c
      /\ \A f \in Endpoints : f # e => k[f] = call[s][f]
    OBVIOUS
<1> HIDE DEF q, k
<1>5. screen[s].pc = "calls"
    BY DEF ScreenOK
<1>6. PICK b \in Nat : Since(screen[s], call[s], now, b)
    BY <1>5 DEF ScreenOK
<1>7. Since(q, k, now, b)
    <2>1. call[s][e].sent = b
        BY <1>6 DEF Since
    <2>2. ASSUME NEW f \in Endpoints PROVE Active(k[f]) => k[f].sent = b
        BY <1>4, <1>6, <2>1 DEF Since
    <2>3. ASSUME NEW f \in Endpoints PROVE Fetched(q.data[f]) => q.data[f].body.made >= b
        BY <1>3, <1>6, <2>1 DEF Since
    <2> QED  BY <1>6, <2>2, <2>3 DEF Since
<1>8. ASSUME NEW f \in Endpoints PROVE PartOK(q.data[f], q.user, f)
    BY <1>3 DEF ScreenOK, PartOK
<1>9. screen[s].user \in Users
    BY <1>5 DEF ScreenOK
<1>10. ScreenOK(q, k, now)
    BY <1>3, <1>4, <1>5, <1>7, <1>8, <1>9 DEF ScreenOK
<1>11. CacheOK' /\ now' = now
    BY DEF CacheOK
<1> QED  BY <1>1, <1>10, <1>11, OneMoves

LEMMA CallStepsKeep ==
    ASSUME IInv, NEW s \in Screens, NEW e \in Endpoints,
           HeadersArrive(s, e) \/ BodyArrives(s, e) \/ CallFails(s, e) \/ Deadline(s, e)
    PROVE  IInv'
<1> USE Here
<1> DEFINE over == [NoCall EXCEPT !.pc = "over"]
<1>1. call[s][e] \in CallTypes /\ Active(call[s][e])
    BY DEF HeadersArrive, BodyArrives, CallFails, Deadline, Active
<1>2. over \in CallTypes /\ ~Active(over)
    BY DEF NoCall, CallTypes, Active
<1>3. UNCHANGED screen => screen' = [screen EXCEPT ![s].data[e] = screen[s].data[e]]
    BY DEF IInv, ScreenTypes
<1>4. CASE HeadersArrive(s, e)
    <2> DEFINE c == [call[s][e] EXCEPT !.pc = "body"]
    <2>1. c \in CallTypes /\ c.sent = call[s][e].sent
        BY <1>1 DEF CallTypes
    <2>2. call' = [call EXCEPT ![s][e] = c] /\ UNCHANGED <<now, cache, screen>>
        BY <1>4 DEF HeadersArrive
    <2> HIDE DEF c
    <2> QED  BY <1>1, <1>3, <2>1, <2>2, CallMoves
<1>5. CASE CallFails(s, e) \/ Deadline(s, e)
    <2>1. call' = [call EXCEPT ![s][e] = over] /\ UNCHANGED <<now, cache, screen>>
        BY <1>5 DEF CallFails, Deadline, Over
    <2> HIDE DEF over
    <2> QED  BY <1>1, <1>2, <1>3, <2>1, CallMoves
<1>6. CASE BodyArrives(s, e)
    <2>1. PICK t \in call[s][e].sent..now :
              screen' = [screen EXCEPT ![s].data[e] =
                  [body |-> [user |-> screen[s].user, made |-> t], source |-> "upstream", age |-> 0]]
        BY <1>6 DEF BodyArrives
    <2> DEFINE d == [body |-> [user |-> screen[s].user, made |-> t], source |-> "upstream", age |-> 0]
    <2>2. t \in Nat /\ t >= call[s][e].sent
        BY <1>1 DEF CallTypes
    <2>3. screen[s].user \in Users
        BY <1>1 DEF ScreenOK
    <2>4. d \in Parts /\ d.source = "upstream" /\ d.body.user = screen[s].user /\ d.body.made = t
        BY <2>2, <2>3 DEF Parts, Bodies
    <2>5. call' = [call EXCEPT ![s][e] = over] /\ UNCHANGED <<now, cache>>
        BY <1>6 DEF BodyArrives, Over
    <2>6. screen' = [screen EXCEPT ![s].data[e] = d]
        BY <2>1
    <2> HIDE DEF over, d
    <2> QED  BY <1>1, <1>2, <2>2, <2>4, <2>5, <2>6, CallMoves
<1> QED  BY <1>4, <1>5, <1>6

-----------------------------------------------------------------------------
(* Time does not pass a deadline, a gathered screen or a write that is due. *)
LEMMA TickKeeps == ASSUME IInv, Tick PROVE IInv'
<1>1. now' = now + 1 /\ now' \in Nat /\ UNCHANGED <<cache, screen, call>>
    BY DEF Tick, IInv
<1>2. ASSUME NEW s \in Screens PROVE ScreenOK(screen[s], call[s], now')
    <2> USE Here
    <2>1. CASE screen[s].pc = "calls"
        <3>1. PICK b \in Nat : Since(screen[s], call[s], now, b)
            BY <2>1 DEF ScreenOK
        <3>2. PICK e \in Endpoints : Active(call[s][e])
            BY <2>1 DEF Tick, AllOver, Active, CallTypes
        <3>3. now < b + Timeout
            BY <3>1, <3>2 DEF Tick, Since, Active
        <3>4. Since(screen[s], call[s], now', b)
            BY <1>1, <3>1, <3>3, TimeAssumption DEF Since
        <3> QED  BY <2>1, <3>4 DEF ScreenOK
    <2>2. CASE screen[s].pc = "write"
        <3>1. now < screen[s].gathered + PutDelay /\ screen[s].gathered \in Nat
            BY <2>2 DEF Tick, ScreenTypes
        <3>2. Pending(screen[s], now')
            BY <1>1, <2>2, <3>1, TimeAssumption DEF ScreenOK, Pending
        <3> QED  BY <2>2, <3>2 DEF ScreenOK
    <2>3. CASE screen[s].pc \notin {"calls", "write"}
        BY <2>3 DEF ScreenOK
    <2> QED  BY <2>1, <2>2, <2>3
<1> QED  BY <1>1, <1>2 DEF IInv, CacheOK

LEMMA NextKeeps == ASSUME IInv, [Next]_vars PROVE IInv'
<1>1. CASE Tick
    BY <1>1, TickKeeps
<1>2. ASSUME NEW s \in Screens, NEW u \in Users, NEW f \in SUBSET Endpoints, NEW r \in BOOLEAN,
             Begin(s, u, f, r)
      PROVE  IInv'
    BY <1>2, BeginKeeps
<1>3. ASSUME NEW s \in Screens, CacheStep(s) \/ Gather(s) PROVE IInv'
    BY <1>3, CacheReadKeeps, CacheReadFailsKeeps, CacheWriteKeeps, CacheWriteFailsKeeps, GatherKeeps
       DEF CacheStep
<1>4. ASSUME NEW s \in Screens, NEW e \in Endpoints,
             HeadersArrive(s, e) \/ BodyArrives(s, e) \/ CallFails(s, e) \/ Deadline(s, e)
      PROVE  IInv'
    BY <1>4, CallStepsKeep
<1>5. CASE UNCHANGED vars
    BY <1>5 DEF vars, IInv, CacheOK
<1> QED  BY <1>1, <1>2, <1>3, <1>4, <1>5 DEF Next

LEMMA Inductive == Spec => []IInv
<1>1. Init => IInv  BY InitIInv
<1>2. IInv /\ [Next]_vars => IInv'  BY NextKeeps
<1> QED  BY <1>1, <1>2, PTL DEF Spec

(* What fanOut() takes from the cache is the data of the screen's user and  *)
(* was made less than max-age, the timeout and the write delay before,      *)
(* whichever screens wrote the row and in whatever order.                   *)
THEOREM Honest == Spec => []CacheHonest
<1>1. IInv => CacheHonest
    BY DEF IInv, ScreenOK, PartOK, CacheHonest
<1> QED  BY <1>1, Inductive, PTL
=============================================================================
