----------------------------- MODULE UploadProofs ----------------------------
(***************************************************************************)
(* Proofs about Upload, for any processes, transports, chunk counts, chunk *)
(* lengths, part sizes, files and faults.                                  *)
(*                                                                         *)
(* The invariant has three layers.  Types: who has which place, key and    *)
(* offset.  Hashed: whatever ciphertext anybody has, on the server or in   *)
(* memory, asset_chunks describes.  InPlace: every part, every TUS upload  *)
(* and the object are the stretch of the one ciphertext that belongs at    *)
(* their place.  Types gives TypeCorrect, Hashed gives BytesHashed, and    *)
(* all three give Implements.                                              *)
(***************************************************************************)
EXTENDS Upload, TLAPS, WellFoundedInduction, SequenceTheorems

-----------------------------------------------------------------------------
(* The invariant. *)

Fields == {"pc", "key", "id", "part", "uploaded", "etags", "url", "off", "cache"}
PartLists == [PartNumbers -> Bytes]
TusUploads == [state: {"none", "open", "done", "gone"}, bytes: Bytes]
Rows == [state: {"absent", "uploading", "complete"}, method: Methods \cup {None},
         key: Procs \cup {None}, uploadId: Procs \cup {None},
         tusUrl: Urls \cup {None}, sha: Contents \cup {None}]

Waiting == {"fresh", "insert", "idle", "done"}
Early == {"insert", "open", "patchId", "list"}

(* What a process x has in memory. *)
MemoryTypes(x) ==
    /\ DOMAIN x = Fields
    /\ x.pc \in PCs /\ x.key \in Procs \cup {None} /\ x.id \in Procs \cup {None}
    /\ x.part \in 0..ChunkCount /\ x.off \in 0..Size
    /\ x.uploaded \in PartLists /\ x.etags \in PartLists
    /\ x.url \in Urls \cup {None} /\ x.cache \subseteq Chunks

(* A process at work has the row's key, is inside its parts, and knows the  *)
(* TUS upload it asks for.  Before there is a row it has nothing.           *)
MemoryOK(p, x, r) ==
    /\ MemoryTypes(x)
    /\ x.pc = "insert" => x.key = p
    /\ x.pc \notin Waiting => r.state # "absent" /\ x.key = r.key
    /\ x.pc \in Early => x.part = 0
    /\ x.pc \in {"hash", "send"} => x.part < PartCount(p)
    /\ x.pc \in {"head", "patch"} => x.url \in Urls
    /\ r.state = "absent" => x.uploaded = NoParts /\ x.etags = NoParts /\ x.cache = {}

RowOK(r) == r \in Rows /\ (r.state # "absent" => r.key \in Procs /\ r.method \in Methods)

ServerTypes ==
    /\ source \in Sources /\ RowOK(row)
    /\ hashes \in [Chunks -> Ciphers \cup {None}]
    /\ mpu \in [Procs -> {"none", "open", "done"}]
    /\ parts \in [Procs -> PartLists]
    /\ tus \in [Urls -> TusUploads] /\ \A u \in Urls : Len(tus[u].bytes) <= Size
    /\ object \in Bytes /\ patching \subseteq Urls
    /\ faults \in Nat /\ torn \in BOOLEAN

(* Before there is a row nothing is stored. *)
NothingYet ==
    row.state = "absent" => /\ parts = [p \in Procs |-> NoParts]
                            /\ \A u \in Urls : tus[u].bytes = <<>>
                            /\ object = <<>>

Types == /\ ServerTypes /\ NothingYet
         /\ loc \in [Procs -> {loc[p] : p \in Procs}]
         /\ \A p \in Procs : MemoryOK(p, loc[p], row)

(* The ciphertext of chunk c under key k of content f, the chunks whose row *)
(* of asset_chunks describes it, and the ciphertexts so described.          *)
Ref(k, f, c) == [key |-> k, content |-> f, idx |-> c]
Known(k, f, h) == {c \in Chunks : h[c] = Ref(k, f, c)}
Described(k, f, h) == {Ref(k, f, c) : c \in Known(k, f, h)}

(* The content every process was given. *)
File == source[CHOOSE p \in Procs : TRUE]

KnownNow == Known(row.key, File, hashes)
DescribedNow == Described(row.key, File, hashes)

(* What process p has of the ciphertext, or is about to send, is described. *)
MemoryHashed(p, x, K, D) ==
    /\ \A n \in PartNumbers : x.uploaded[n] \in Seq(D) /\ x.etags[n] \in Seq(D)
    /\ x.cache \subseteq K
    /\ x.pc = "send" => \A c \in Chunks :
          x.part * PartChunks[p] <= c /\ c < x.part * PartChunks[p] + PartChunks[p] => c \in K

Hashed ==
    /\ \A q \in Procs, n \in PartNumbers : parts[q][n] \in Seq(DescribedNow)
    /\ \A u \in Urls : tus[u].bytes \in Seq(DescribedNow)
    /\ object \in Seq(DescribedNow)
    /\ \A p \in Procs : MemoryHashed(p, loc[p], KnownNow, DescribedNow)

(* The values of f from a up to b; the ciphertext, its units a up to b, and *)
(* part n of m chunks each.                                                 *)
Stretch(f, a, b) == [k \in 1..(b - a) |-> f[a + k - 1]]
Stream(k, f) == [u \in Nat |-> Ref(k, f, u \div ChunkUnits)]
Cut(m, n) == ChunkUnits * (IF n * m <= ChunkCount THEN n * m ELSE ChunkCount)
Part(k, f, m, n) == Stretch(Stream(k, f), Cut(m, n - 1), Cut(m, n))
Whole(k, f) == Stretch(Stream(k, f), 0, Size)

(* Every part anybody has is the ciphertext of its place. *)
Shaped(k, f, m, l) == \A n \in PartNumbers : l[n] \in {<<>>, Part(k, f, m, n)}

MemoryShaped(p, x, k, f, o) ==
    /\ Shaped(k, f, PartChunks[p], x.uploaded) /\ Shaped(k, f, PartChunks[p], x.etags)
    /\ x.pc = "complete" => \A n \in 1..PartCount(p) : x.etags[n] # <<>>
    /\ x.pc = "finish" => o # <<>>

TusShaped(x, k, f, o) ==
    /\ x.bytes = Stretch(Stream(k, f), 0, Len(x.bytes))
    /\ x.state = "done" => o # <<>>

RowShaped(r, f, o) == r.state = "complete" => o # <<>> /\ r.sha = f

InPlace ==
    /\ \A p, q \in Procs : Shaped(row.key, File, PartChunks[p], parts[q])
    /\ \A u \in Urls : TusShaped(tus[u], row.key, File, object)
    /\ object \in {<<>>, Whole(row.key, File)}
    /\ RowShaped(row, File, object)
    /\ \A p \in Procs : MemoryShaped(p, loc[p], row.key, File, object)

(* The processes cut parts of one size. *)
OneLayout == \A p, q \in Procs : PartChunks[p] = PartChunks[q]

IInv == /\ Types
        /\ OneSource => Hashed
        /\ OneSource /\ OneLayout => InPlace

(* Induction.  The library's rules take the claim as an operator; here it   *)
(* is the set of the numbers it holds for.                                  *)

LEMMA Least ==
    ASSUME NEW S, S \subseteq Nat, S # {}
    PROVE  \E n \in S : \A m \in S : n <= m
<1> DEFINE R == OpToRel(<, Nat)
<1>1. IsWellFoundedOn(R, Nat)
    BY NatLessThanWellFounded
<1>2. \A x, y \in Nat : x < y => <<x, y>> \in R
    BY DEF OpToRel
<1> HIDE DEF R
<1>3. PICK x \in S : \A y \in S : ~(<<y, x>> \in R)
    BY <1>1, WFMin
<1>4. ASSUME NEW y \in S PROVE x <= y
    <2>1. x \in Nat /\ y \in Nat /\ ~(<<y, x>> \in R)
        BY <1>3
    <2>2. ~(y < x)
        BY <1>2, <2>1
    <2> QED  BY <2>1, <2>2
<1> QED  BY <1>4

LEMMA SetInduction ==
    ASSUME NEW S, 0 \in S, \A n \in Nat : n \in S => n + 1 \in S
    PROVE  Nat \subseteq S
<1> SUFFICES ASSUME Nat \ S # {} PROVE FALSE
    OBVIOUS
<1>1. PICK n \in Nat \ S : \A m \in Nat \ S : n <= m
    BY Least
<1>2. n - 1 \in Nat /\ n - 1 \in S
    BY <1>1
<1> QED  BY <1>1, <1>2

-----------------------------------------------------------------------------
(* FlattenSeq. *)

(* g satisfies FlattenSeq's recursion for the n sequences of s. *)
Flattens(g, s, n) == g = [i \in 1..n |-> IF i = 1 THEN s[i] ELSE g[i - 1] \o s[i]]

(* Such a function is the one FlattenSeq takes. *)
LEMMA FlattenIs ==
    ASSUME NEW s, NEW n \in Nat \ {0}, Len(s) = n, NEW f, Flattens(f, s, n)
    PROVE  FlattenSeq(s) = f[n]
<1>1. ASSUME NEW g, Flattens(g, s, n) PROVE g = f
    <2> DEFINE S == {i \in Nat : i \in 1..n => g[i] = f[i]}
    <2>1. 0 \in S
        OBVIOUS
    <2>2. ASSUME NEW i \in Nat, i \in S PROVE i + 1 \in S
        <3>1. ASSUME i + 1 \in 1..n PROVE g[i + 1] = f[i + 1]
            <4>1. CASE i = 0
                BY <1>1, <3>1, <4>1 DEF Flattens
            <4>2. CASE i # 0
                <5> DEFINE j == i + 1
                <5>1. j \in 1..n /\ j # 1 /\ j - 1 = i /\ g[i] = f[i]
                    BY <2>2, <3>1, <4>2
                <5> HIDE DEF j
                <5>2. g[j] = g[j - 1] \o s[j] /\ f[j] = f[j - 1] \o s[j]
                    BY <1>1, <5>1 DEF Flattens
                <5>3. g[j] = f[j]
                    BY <5>1, <5>2
                <5> QED  BY <5>3 DEF j
            <4> QED  BY <4>1, <4>2
        <3> QED  BY <3>1
    <2>3. Nat \subseteq S
        <3> HIDE DEF S
        <3> QED  BY <2>1, <2>2, SetInduction
    <2>4. \A i \in 1..n : g[i] = f[i]
        BY <2>3
    <2> QED  BY <1>1, <2>4 DEF Flattens
<1>2. (CHOOSE g : Flattens(g, s, n)) = f
    BY <1>1
<1>3. FlattenSeq(s) = (CHOOSE g : Flattens(g, s, n))[n]
    BY DEF FlattenSeq, Flattens
<1> QED  BY <1>2, <1>3

(* What FlattenSeq joins is of the values it is given. *)
LEMMA FlattenTyped ==
    ASSUME NEW T, NEW n \in Nat \ {0}, NEW s \in [1..n -> Seq(T)]
    PROVE  FlattenSeq(s) \in Seq(T)
<1> DEFINE Good(g, m) == Flattens(g, s, m) /\ \A i \in 1..m : g[i] \in Seq(T)
           S == {m \in Nat : m <= n => \E g : Good(g, m)}
<1>1. 0 \in S
    <2>1. Good([i \in 1..0 |-> <<>>], 0)
        BY DEF Flattens
    <2> QED  BY <2>1
<1>2. ASSUME NEW m \in Nat, m \in S PROVE m + 1 \in S
    <2> SUFFICES ASSUME m + 1 <= n PROVE \E g : Good(g, m + 1)
        OBVIOUS
    <2>1. PICK g : Good(g, m)
        BY <1>2
    <2> DEFINE l == IF m = 0 THEN s[m + 1] ELSE g[m] \o s[m + 1]
               f == [i \in 1..(m + 1) |-> IF i = m + 1 THEN l ELSE g[i]]
    <2>2. l \in Seq(T)
        <3>1. s[m + 1] \in Seq(T) /\ (m # 0 => g[m] \in Seq(T))
            BY <2>1
        <3> QED  BY <3>1
    <2>3. \A i \in 1..m : g[i] = IF i = 1 THEN s[i] ELSE g[i - 1] \o s[i]
        BY <2>1 DEF Flattens
    <2>4. \A i \in 1..(m + 1) : f[i] \in Seq(T)
        BY <2>1, <2>2
    <2>5. ASSUME NEW i \in 1..(m + 1) PROVE f[i] = IF i = 1 THEN s[i] ELSE f[i - 1] \o s[i]
        <3>1. CASE i = m + 1
            BY <3>1
        <3>2. CASE i # m + 1
            <4>1. i \in 1..m /\ f[i] = g[i] /\ (i # 1 => f[i - 1] = g[i - 1])
                BY <3>2
            <4> HIDE DEF f
            <4> QED  BY <2>3, <4>1
        <3> QED  BY <3>1, <3>2
    <2>6. Flattens(f, s, m + 1)
        BY <2>5 DEF Flattens
    <2> HIDE DEF f
    <2> QED  BY <2>4, <2>6
<1>3. Nat \subseteq S
    <2> HIDE DEF S
    <2> QED  BY <1>1, <1>2, SetInduction
<1>4. PICK g : Good(g, n)
    BY <1>3
<1>5. Len(s) = n /\ g[n] \in Seq(T)
    BY <1>4
<1>6. FlattenSeq(s) = g[n]
    BY <1>4, <1>5, FlattenIs
<1> QED  BY <1>5, <1>6

-----------------------------------------------------------------------------
(* Stretches. *)

Values(f) == {f[x] : x \in Nat}

LEMMA StretchLen ==
    ASSUME NEW f, NEW a \in Nat, NEW b \in Nat, a <= b
    PROVE  /\ Len(Stretch(f, a, b)) = b - a
           /\ \A k \in 1..(b - a) : Stretch(f, a, b)[k] = f[a + k - 1]
           /\ Stretch(f, a, b) \in Seq(Values(f))
<1>1. ASSUME NEW k \in 1..(b - a) PROVE f[a + k - 1] \in Values(f)
    <2>1. a + k - 1 \in Nat
        OBVIOUS
    <2> QED  BY <2>1 DEF Values
<1>2. b - a \in Nat
    OBVIOUS
<1>3. Stretch(f, a, b) \in [1..(b - a) -> Values(f)]
    BY <1>1 DEF Stretch
<1>4. Stretch(f, a, b) \in Seq(Values(f))
    BY <1>2, <1>3, SeqDef
<1> QED  BY <1>2, <1>4 DEF Stretch

(* Neighbouring stretches make a stretch. *)
LEMMA StretchGlue ==
    ASSUME NEW f, NEW a \in Nat, NEW b \in Nat, NEW c \in Nat, a <= b, b <= c
    PROVE  Stretch(f, a, b) \o Stretch(f, b, c) = Stretch(f, a, c)
<1> DEFINE s == Stretch(f, a, b)
           t == Stretch(f, b, c)
<1> DEFINE u == Stretch(f, a, c)
<1>1. /\ s \in Seq(Values(f)) /\ t \in Seq(Values(f)) /\ u \in Seq(Values(f))
      /\ Len(s) = b - a /\ \A k \in 1..(b - a) : s[k] = f[a + k - 1]
      /\ Len(t) = c - b /\ \A k \in 1..(c - b) : t[k] = f[b + k - 1]
      /\ Len(u) = c - a /\ \A k \in 1..(c - a) : u[k] = f[a + k - 1]
    <2>1. a <= c
        OBVIOUS
    <2>2. /\ s \in Seq(Values(f)) /\ Len(s) = b - a
          /\ \A k \in 1..(b - a) : s[k] = f[a + k - 1]
        BY StretchLen
    <2>3. /\ t \in Seq(Values(f)) /\ Len(t) = c - b
          /\ \A k \in 1..(c - b) : t[k] = f[b + k - 1]
        BY StretchLen
    <2>4. /\ u \in Seq(Values(f)) /\ Len(u) = c - a
          /\ \A k \in 1..(c - a) : u[k] = f[a + k - 1]
        BY <2>1, StretchLen
    <2> HIDE DEF s, t, u
    <2> QED  BY <2>2, <2>3, <2>4
<1> HIDE DEF s, t, u
<1>2. /\ s \o t \in Seq(Values(f)) /\ Len(s \o t) = Len(s) + Len(t)
      /\ \A k \in 1..(Len(s) + Len(t)) : (s \o t)[k] = IF k <= Len(s) THEN s[k] ELSE t[k - Len(s)]
    BY <1>1, ConcatProperties
<1>3. Len(s) + Len(t) = c - a
    BY <1>1
<1>4. ASSUME NEW k \in 1..(c - a) PROVE (s \o t)[k] = u[k]
    <2>1. CASE k <= b - a
        <3>1. k \in 1..(b - a)
            BY <2>1
        <3>2. (s \o t)[k] = s[k]
            BY <1>1, <1>2, <1>3, <2>1
        <3> QED  BY <1>1, <3>1, <3>2
    <2>2. CASE ~(k <= b - a)
        <3>1. k - (b - a) \in 1..(c - b) /\ b + (k - (b - a)) - 1 = a + k - 1
            BY <2>2
        <3>2. t[k - (b - a)] = f[b + (k - (b - a)) - 1]
            BY <1>1, <3>1
        <3>3. (s \o t)[k] = t[k - (b - a)]
            BY <1>1, <1>2, <1>3, <2>2
        <3> QED  BY <1>1, <3>1, <3>2, <3>3
    <2> QED  BY <2>1, <2>2
<1>5. s \o t = u
    <2> DEFINE v == s \o t
    <2>1. v \in Seq(Values(f)) /\ Len(v) = Len(u) /\ \A k \in 1..Len(v) : v[k] = u[k]
        BY <1>1, <1>2, <1>3, <1>4
    <2> HIDE DEF v
    <2>2. v = u
        BY <1>1, <2>1, SeqEqual
    <2> QED  BY <2>2 DEF v
<1> QED  BY <1>5 DEF s, t, u

(* s is what f is between the n + 1 places of cut. *)
Pieces(f, cut, n, s) ==
    /\ cut \in [0..n -> Nat]
    /\ \A i \in 1..n : cut[i - 1] <= cut[i]
    /\ s = [i \in 1..n |-> Stretch(f, cut[i - 1], cut[i])]

(* Joining the pieces gives the stretch. *)
LEMMA StretchFlatten ==
    ASSUME NEW f, NEW n \in Nat \ {0}, NEW cut, NEW s, Pieces(f, cut, n, s)
    PROVE  FlattenSeq(s) = Stretch(f, cut[0], cut[n])
<1> USE DEF Pieces
<1> DEFINE g == [i \in 1..n |-> Stretch(f, cut[0], cut[i])]
<1>1. \A i \in 1..n : cut[0] <= cut[i]
    <2> DEFINE S == {i \in Nat : i <= n => cut[0] <= cut[i]}
    <2>1. 0 \in S
        OBVIOUS
    <2>2. ASSUME NEW i \in Nat, i \in S PROVE i + 1 \in S
        <3>1. ASSUME i + 1 <= n PROVE cut[0] <= cut[i + 1]
            <4>1. i + 1 \in 1..n /\ i + 1 - 1 = i /\ cut[0] <= cut[i]
                BY <2>2, <3>1
            <4>2. cut[i] <= cut[i + 1] /\ cut[0] \in Nat /\ cut[i] \in Nat /\ cut[i + 1] \in Nat
                BY <4>1
            <4> QED  BY <4>1, <4>2
        <3> QED  BY <3>1
    <2>3. Nat \subseteq S
        <3> HIDE DEF S
        <3> QED  BY <2>1, <2>2, SetInduction
    <2> QED  BY <2>3
<1>2. ASSUME NEW i \in 1..n PROVE g[i] = IF i = 1 THEN s[i] ELSE g[i - 1] \o s[i]
    <2>1. CASE i = 1
        BY <2>1
    <2>2. CASE i # 1
        <3>1. i - 1 \in 1..n /\ cut[0] \in Nat /\ cut[i - 1] \in Nat /\ cut[i] \in Nat
            BY <2>2
        <3>2. cut[0] <= cut[i - 1] /\ cut[i - 1] <= cut[i]
            BY <1>1, <3>1
        <3>3. Stretch(f, cut[0], cut[i - 1]) \o Stretch(f, cut[i - 1], cut[i])
                 = Stretch(f, cut[0], cut[i])
            BY <3>1, <3>2, StretchGlue
        <3> QED  BY <2>2, <3>1, <3>3
    <2> QED  BY <2>1, <2>2
<1>3. Len(s) = n
    OBVIOUS
<1>4. Flattens(g, s, n)
    BY <1>2 DEF Flattens
<1>5. g[n] = Stretch(f, cut[0], cut[n])
    OBVIOUS
<1> HIDE DEF g
<1> QED  BY <1>3, <1>4, <1>5, FlattenIs


-----------------------------------------------------------------------------
(* Arithmetic. *)

LEMMA Constants ==
    /\ ChunkCount \in Nat /\ ChunkCount > 0 /\ ChunkUnits \in Nat /\ ChunkUnits > 0
    /\ TusChunk \in Nat /\ TusChunk > 0
    /\ Size \in Nat /\ Size > 0
    /\ \A p \in Procs : PartChunks[p] \in Nat /\ PartChunks[p] > 0
<1>1. /\ ChunkCount \in Nat /\ ChunkCount > 0 /\ ChunkUnits \in Nat /\ ChunkUnits > 0
      /\ TusChunk \in Nat /\ TusChunk > 0
    BY ChunkAssumption, TusAssumption
<1>2. \A p \in Procs : PartChunks[p] \in Nat /\ PartChunks[p] > 0
    BY ChunkAssumption
<1>3. ChunkCount * ChunkUnits \in Nat /\ ChunkCount * ChunkUnits > 0
    BY <1>1
<1> QED  BY <1>1, <1>2, <1>3 DEF Size

LEMMA Quotient ==
    ASSUME NEW a \in Nat, NEW c \in Nat \ {0}
    PROVE  a \div c \in Nat /\ (a \div c) * c <= a /\ a < (a \div c) * c + c
OBVIOUS

LEMMA Times ==
    ASSUME NEW a \in Int, NEW b \in Int, NEW c \in Nat, a <= b
    PROVE  a * c \in Int /\ b * c \in Int /\ a * c <= b * c
OBVIOUS

LEMMA MinTwo == ASSUME NEW a \in Int, NEW b \in Int PROVE Min({a, b}) = IF a <= b THEN a ELSE b
BY DEF Min

(* Units lie in the chunks they should. *)
LEMMA UnitChunk ==
    ASSUME NEW u \in Nat, u < Size
    PROVE  u \div ChunkUnits \in Chunks
<1> DEFINE q == u \div ChunkUnits
<1>1. q \in Nat /\ q * ChunkUnits <= u
    BY Quotient, Constants
<1> HIDE DEF q
<1>2. ASSUME q >= ChunkCount PROVE FALSE
    <2>1. ChunkCount * ChunkUnits <= q * ChunkUnits
        BY <1>1, <1>2, Times, Constants
    <2> QED  BY <1>1, <2>1, Constants DEF Size
<1> QED  BY <1>1, <1>2, Constants DEF Chunks, q

LEMMA UnitOrder ==
    ASSUME NEW u \in Nat, NEW v \in Nat, u <= v
    PROVE  u \div ChunkUnits <= v \div ChunkUnits
<1> DEFINE a == u \div ChunkUnits
           b == v \div ChunkUnits
<1>1. a \in Nat /\ b \in Nat /\ a * ChunkUnits <= u /\ v < b * ChunkUnits + ChunkUnits
    BY Quotient, Constants
<1> HIDE DEF a, b
<1>2. ASSUME a >= b + 1 PROVE FALSE
    <2>1. (b + 1) * ChunkUnits <= a * ChunkUnits
        BY <1>1, <1>2, Times, Constants
    <2>2. (b + 1) * ChunkUnits = b * ChunkUnits + ChunkUnits
        BY <1>1, Constants
    <2> QED  BY <1>1, <2>1, <2>2, Constants
<1> QED  BY <1>1, <1>2 DEF a, b

LEMMA Counted ==
    ASSUME NEW p \in Procs
    PROVE  /\ PartCount(p) \in Nat /\ 1 <= PartCount(p) /\ PartCount(p) <= ChunkCount
           /\ \A i \in Nat : i * PartChunks[p] \in Nat
           /\ \A i \in Nat : i < PartCount(p) <=> i * PartChunks[p] < ChunkCount
<1> DEFINE m == PartChunks[p]
           a == ChunkCount + m - 1
           c == a \div m
<1>1. m \in Nat \ {0} /\ a \in Nat /\ ChunkCount \in Nat /\ ChunkCount > 0
    BY Constants
<1>2. c \in Nat /\ c * m <= a /\ a < c * m + m
    BY <1>1, Quotient
<1>3. PartCount(p) = c
    BY DEF PartCount
<1> HIDE DEF c
<1>4. ASSUME NEW i \in Nat PROVE i * m \in Nat /\ (i < c <=> i * m < ChunkCount)
    <2>1. i * m \in Nat /\ c * m \in Nat
        BY <1>1, <1>2
    <2>2. ASSUME i < c PROVE i * m < ChunkCount
        <3>1. (i + 1) * m <= c * m
            BY <1>1, <1>2, <2>2, Times
        <3>2. (i + 1) * m = i * m + m
            BY <1>1
        <3> QED  BY <1>1, <1>2, <2>1, <3>1, <3>2
    <2>3. ASSUME c <= i PROVE ~(i * m < ChunkCount)
        <3>1. c * m <= i * m
            BY <1>1, <1>2, <2>3, Times
        <3> QED  BY <1>1, <1>2, <2>1, <3>1
    <2> QED  BY <1>2, <2>1, <2>2, <2>3
<1>5. 0 < c
    <2>1. 0 * m = 0
        BY <1>1
    <2> QED  BY <1>1, <1>4, <2>1
<1>6. ~(ChunkCount < c)
    <2>1. ChunkCount * 1 <= ChunkCount * m
        BY <1>1
    <2> QED  BY <1>1, <1>4, <2>1
<1> QED  BY <1>1, <1>2, <1>3, <1>4, <1>5, <1>6

(* The part a process is at. *)
LEMMA PartPlace ==
    ASSUME NEW p \in Procs, loc[p].part \in Nat, loc[p].part < PartCount(p)
    PROVE  /\ FirstChunk(p) \in Nat /\ LastChunk(p) \in Nat
           /\ FirstChunk(p) <= LastChunk(p) /\ LastChunk(p) < ChunkCount
           /\ LastChunk(p) < FirstChunk(p) + PartChunks[p]
           /\ LastChunk(p) + 1 = IF FirstChunk(p) + PartChunks[p] <= ChunkCount
                                 THEN FirstChunk(p) + PartChunks[p] ELSE ChunkCount
           /\ \A c \in Chunks : c \in FirstChunk(p)..LastChunk(p) <=>
                  FirstChunk(p) <= c /\ c < FirstChunk(p) + PartChunks[p]
           /\ loc[p].part + 1 \in PartNumbers
<1> DEFINE m == PartChunks[p]
           a == loc[p].part * m
<1>1. a \in Nat /\ a < ChunkCount /\ m \in Nat /\ m > 0
    BY Counted, Constants
<1>2. FirstChunk(p) = a
    BY DEF FirstChunk
<1> HIDE DEF a
<1>3. LastChunk(p) = IF ChunkCount - 1 <= a + m - 1 THEN ChunkCount - 1 ELSE a + m - 1
    BY <1>1, <1>2, MinTwo, Constants DEF LastChunk
<1>4. loc[p].part + 1 \in PartNumbers
    BY Counted, Constants DEF PartNumbers
<1> QED  BY <1>1, <1>2, <1>3, <1>4, Constants DEF Chunks

(* A slice a process is about to send. *)
LEMMA SlicePlace ==
    ASSUME NEW p \in Procs, loc[p].off \in 0..Size
    PROVE  /\ SliceEnd(p) \in Nat /\ loc[p].off <= SliceEnd(p) /\ SliceEnd(p) <= Size
           /\ \A c \in Uncached(p) : c \in Chunks
           /\ \A c \in (loc[p].off \div ChunkUnits)..((SliceEnd(p) - 1) \div ChunkUnits) :
                  c \in Uncached(p) \/ c \in loc[p].cache
<1> DEFINE o == loc[p].off
           s == SliceEnd(p)
<1>1. o \in Nat /\ o <= Size
    BY Constants
<1>2. s \in Nat /\ o <= s /\ s <= Size
    BY <1>1, MinTwo, Constants DEF SliceEnd
<1> HIDE DEF s
<1>3. ASSUME NEW c \in (o \div ChunkUnits)..((s - 1) \div ChunkUnits) PROVE c \in Chunks
    <2>1. CASE s > 0
        <3>1. s - 1 \in Nat /\ s - 1 < Size
            BY <1>2, <2>1, Constants
        <3>2. (s - 1) \div ChunkUnits \in Chunks /\ o \div ChunkUnits \in Nat
            BY <1>1, <3>1, UnitChunk, Quotient, Constants
        <3> QED  BY <1>3, <3>2, Constants DEF Chunks
    <2>2. CASE s = 0
        <3>1. o \div ChunkUnits \in Nat
            BY <1>1, Quotient, Constants
        <3>2. (s - 1) \div ChunkUnits < 0
            BY <2>2, Constants
        <3>3. (s - 1) \div ChunkUnits \in Int
            BY <2>2, Constants
        <3> QED  BY <1>3, <3>1, <3>2, <3>3
    <2> QED  BY <1>2, <2>1, <2>2
<1> QED  BY <1>2, <1>3 DEF Uncached, s

-----------------------------------------------------------------------------
(* Ciphertext. *)

LEMMA RangeTyped ==
    ASSUME NEW p \in Procs, NEW a \in Nat, NEW b \in Nat, a <= b, b <= Size, NEW T,
           \A u \in a..(b - 1) : Cipher(p, u \div ChunkUnits) \in T
    PROVE  EncryptRange(p, a, b) \in Seq(T) /\ Len(EncryptRange(p, a, b)) = b - a
<1>1. b - a \in Nat
    OBVIOUS
<1>2. ASSUME NEW i \in 1..(b - a) PROVE Cipher(p, (a + i - 1) \div ChunkUnits) \in T
    <2>1. a + i - 1 \in a..(b - 1)
        OBVIOUS
    <2> QED  BY <2>1
<1>3. EncryptRange(p, a, b) \in [1..(b - a) -> T]
    BY <1>2 DEF EncryptRange
<1>4. EncryptRange(p, a, b) \in Seq(T)
    BY <1>1, <1>3, SeqDef
<1> QED  BY <1>1, <1>4 DEF EncryptRange

LEMMA SeqLarger ==
    ASSUME NEW S, NEW T, S \subseteq T, NEW s \in Seq(S)
    PROVE  s \in Seq(T)
OBVIOUS

LEMMA EmptyList == NoParts \in PartLists /\ \A n \in PartNumbers : NoParts[n] = <<>>
BY DEF NoParts, PartLists, Bytes

(* The units of a part are of its chunks. *)
LEMMA PartUnits ==
    ASSUME NEW a \in Nat, NEW b \in Nat, a <= b, b < ChunkCount
    PROVE  /\ a * ChunkUnits \in Nat /\ (b + 1) * ChunkUnits \in Nat
           /\ a * ChunkUnits <= (b + 1) * ChunkUnits /\ (b + 1) * ChunkUnits <= Size
           /\ \A u \in (a * ChunkUnits)..((b + 1) * ChunkUnits - 1) :
                  u \div ChunkUnits \in a..b /\ u \div ChunkUnits \in Chunks
<1>1. /\ a * ChunkUnits \in Nat /\ (b + 1) * ChunkUnits \in Nat
      /\ a * ChunkUnits <= (b + 1) * ChunkUnits /\ (b + 1) * ChunkUnits <= Size
    BY Times, Constants DEF Size
<1>2. ASSUME NEW u \in Nat, a * ChunkUnits <= u, u < (b + 1) * ChunkUnits
      PROVE  u \div ChunkUnits \in a..b
    <2> DEFINE q == u \div ChunkUnits
    <2>1. q \in Nat /\ q * ChunkUnits <= u /\ u < q * ChunkUnits + ChunkUnits
        BY Quotient, Constants
    <2> HIDE DEF q
    <2>2. ASSUME q + 1 <= a PROVE FALSE
        <3>1. (q + 1) * ChunkUnits <= a * ChunkUnits
            BY <2>1, <2>2, Times, Constants
        <3>2. (q + 1) * ChunkUnits = q * ChunkUnits + ChunkUnits
            BY <2>1, Constants
        <3> QED  BY <1>1, <1>2, <2>1, <3>1, <3>2, Constants
    <2>3. ASSUME b + 1 <= q PROVE FALSE
        <3>1. (b + 1) * ChunkUnits <= q * ChunkUnits
            BY <2>1, <2>3, Times, Constants
        <3> QED  BY <1>1, <1>2, <2>1, <3>1, Constants
    <2>4. q \in a..b
        BY <2>1, <2>2, <2>3
    <2> QED  BY <2>4 DEF q
<1>3. ASSUME NEW u \in (a * ChunkUnits)..((b + 1) * ChunkUnits - 1)
      PROVE  u \div ChunkUnits \in a..b /\ u \div ChunkUnits \in Chunks
    <2>1. u \in Nat /\ a * ChunkUnits <= u /\ u < (b + 1) * ChunkUnits
        BY <1>1
    <2>2. u \div ChunkUnits \in a..b
        BY <1>2, <2>1
    <2> QED  BY <2>2, Constants DEF Chunks
<1> QED  BY <1>1, <1>3

LEMMA CipherTyped ==
    ASSUME NEW p \in Procs, source \in Sources, loc[p].key \in Procs, NEW c \in Chunks
    PROVE  Cipher(p, c) \in Ciphers
<1>1. source[p] \in Contents
    BY DEF Contents
<1> QED  BY <1>1 DEF Cipher, Ciphers

(* A part, and a slice. *)
LEMMA PartTyped ==
    ASSUME NEW p \in Procs, loc[p].part \in Nat, loc[p].part < PartCount(p), NEW T,
           \A c \in FirstChunk(p)..LastChunk(p) : Cipher(p, c) \in T
    PROVE  PartBytes(p) \in Seq(T)
<1> DEFINE a == FirstChunk(p)
           b == LastChunk(p)
<1>1. a \in Nat /\ b \in Nat /\ a <= b /\ b < ChunkCount
    BY PartPlace
<1>2. PartBytes(p) = EncryptRange(p, a * ChunkUnits, (b + 1) * ChunkUnits)
    BY DEF PartBytes
<1>3. \A c \in a..b : Cipher(p, c) \in T
    OBVIOUS
<1> HIDE DEF a, b
<1>4. \A u \in (a * ChunkUnits)..((b + 1) * ChunkUnits - 1) : Cipher(p, u \div ChunkUnits) \in T
    BY <1>1, <1>3, PartUnits
<1> DEFINE x == a * ChunkUnits
           y == (b + 1) * ChunkUnits
<1>5. x \in Nat /\ y \in Nat /\ x <= y /\ y <= Size
    BY <1>1, PartUnits
<1>6. \A u \in x..(y - 1) : Cipher(p, u \div ChunkUnits) \in T
    BY <1>4
<1>7. PartBytes(p) = EncryptRange(p, x, y)
    BY <1>2
<1> HIDE DEF x, y
<1> QED  BY <1>5, <1>6, <1>7, RangeTyped

LEMMA SliceTyped ==
    ASSUME NEW p \in Procs, loc[p].off \in 0..Size, NEW n \in 0..(SliceEnd(p) - loc[p].off), NEW T,
           \A c \in (loc[p].off \div ChunkUnits)..((SliceEnd(p) - 1) \div ChunkUnits) :
               Cipher(p, c) \in T
    PROVE  /\ EncryptRange(p, loc[p].off, loc[p].off + n) \in Seq(T)
           /\ Len(EncryptRange(p, loc[p].off, loc[p].off + n)) = n
<1> DEFINE o == loc[p].off
           s == SliceEnd(p)
<1>1. s \in Nat /\ o \in Nat /\ o <= s /\ s <= Size /\ n \in Nat /\ o + n <= s
    BY SlicePlace, Constants
<1>2. \A c \in (o \div ChunkUnits)..((s - 1) \div ChunkUnits) : Cipher(p, c) \in T
    OBVIOUS
<1> HIDE DEF o, s
<1>3. ASSUME NEW u \in o..(o + n - 1) PROVE Cipher(p, u \div ChunkUnits) \in T
    <2>1. u \in Nat /\ s - 1 \in Nat /\ o <= u /\ u <= s - 1
        BY <1>1
    <2>2. o \div ChunkUnits <= u \div ChunkUnits /\ u \div ChunkUnits <= (s - 1) \div ChunkUnits
        BY <1>1, <2>1, UnitOrder
    <2>3. o \div ChunkUnits \in Nat /\ u \div ChunkUnits \in Nat /\ (s - 1) \div ChunkUnits \in Nat
        BY <1>1, <2>1, Quotient, Constants
    <2> QED  BY <1>2, <2>2, <2>3
<1>4. o + n \in Nat /\ o <= o + n /\ o + n <= Size /\ (o + n) - o = n
    BY <1>1, Constants
<1>5. EncryptRange(p, o, o + n) \in Seq(T) /\ Len(EncryptRange(p, o, o + n)) = n
    BY <1>1, <1>3, <1>4, RangeTyped
<1> QED  BY <1>5 DEF o

-----------------------------------------------------------------------------
(* Types. *)

(* Process p, and nobody else, now has y in memory. *)
Moved(p, y) == loc' = [q \in Procs |-> IF q = p THEN y ELSE loc[q]]

(* y is x but for the fields F. *)
Differs(x, y, F) == DOMAIN y = Fields /\ \A a \in Fields \ F : y[a] = x[a]

LEMMA ProcessOK ==
    ASSUME NEW p \in Procs, NEW l \in Waiting, NEW k \in Procs \cup {None},
           NEW r, l = "insert" => k = p
    PROVE  MemoryOK(p, Process(l, k), r) /\ Process(l, k).pc = l
<1> DEFINE x == Process(l, k)
<1>1. /\ DOMAIN x = Fields /\ x.pc = l /\ x.key = k /\ x.id = None /\ x.part = 0
      /\ x.uploaded = NoParts /\ x.etags = NoParts /\ x.url = None /\ x.off = 0 /\ x.cache = {}
    BY DEF Process, Fields
<1> HIDE DEF x
<1>2. MemoryTypes(x)
    BY <1>1, EmptyList, Constants DEF MemoryTypes, PCs, Waiting
<1>3. l \notin {"hash", "send"} /\ l \notin {"head", "patch"} /\ l # "list"
    BY DEF Waiting
<1> QED  BY <1>1, <1>2, <1>3 DEF MemoryOK, x

LEMMA TypesOf ==
    ASSUME Types, NEW p \in Procs
    PROVE  /\ MemoryOK(p, loc[p], row) /\ MemoryTypes(loc[p])
           /\ ServerTypes /\ RowOK(row) /\ row \in Rows
BY DEF Types, MemoryOK, ServerTypes, RowOK

(* The processes after a step of one of them, or of none. *)
LEMMA AllMemory ==
    ASSUME Types, NEW p \in Procs, NEW y, Moved(p, y), MemoryOK(p, y, row'),
           row'.key = row.key, row'.state = "absent" <=> row.state = "absent",
           ServerTypes', NothingYet'
    PROVE  Types'
<1>1. ASSUME NEW q \in Procs, q # p PROVE MemoryOK(q, loc[q], row')
    BY <1>1 DEF Types, MemoryOK
<1>2. ASSUME NEW q \in Procs PROVE MemoryOK(q, loc'[q], row')
    <2>1. loc'[q] = IF q = p THEN y ELSE loc[q]
        BY DEF Moved
    <2> QED  BY <1>1, <2>1
<1>3. loc' \in [Procs -> {loc'[q] : q \in Procs}]
    BY DEF Moved
<1> QED  BY <1>2, <1>3 DEF Types

LEMMA NoMemory ==
    ASSUME Types, loc' = loc, row'.key = row.key, row'.state = "absent" <=> row.state = "absent",
           ServerTypes', NothingYet'
    PROVE  Types'
<1>1. ASSUME NEW q \in Procs PROVE MemoryOK(q, loc[q], row')
    BY DEF Types, MemoryOK
<1> QED  BY <1>1 DEF Types

(* A step that leaves the server alone. *)
LEMMA ServerKept ==
    ASSUME Types, UNCHANGED server, source' = source, faults' \in Nat, torn' \in BOOLEAN
    PROVE  ServerTypes' /\ NothingYet' /\ row' = row
BY DEF Types, ServerTypes, NothingYet, server

LEMMA LoneMemory ==
    ASSUME Types, UNCHANGED server, source' = source, faults' \in Nat, torn' \in BOOLEAN,
           NEW p \in Procs, NEW y, Moved(p, y), MemoryOK(p, y, row)
    PROVE  Types'
BY ServerKept, AllMemory

LEMMA IsFunction == ASSUME Types PROVE loc = [q \in Procs |-> loc[q]]
BY DEF Types

LEMMA GotoMoves ==
    ASSUME Types, NEW p \in Procs, NEW l, Goto(p, l)
    PROVE  \E y : Moved(p, y) /\ Differs(loc[p], y, {"pc"}) /\ y.pc = l
<1> DEFINE y == [loc[p] EXCEPT !.pc = l]
<1>1. DOMAIN loc[p] = Fields
    BY DEF Types, MemoryOK, MemoryTypes
<1>2. Moved(p, y)
    BY IsFunction DEF Goto, Moved
<1>3. Differs(loc[p], y, {"pc"}) /\ y.pc = l
    BY <1>1 DEF Differs, Fields
<1> QED  BY <1>2, <1>3

LEMMA OverMoves ==
    ASSUME Types, NEW p \in Procs, NEW l, Over(p, l)
    PROVE  Moved(p, Process(l, None))
BY IsFunction DEF Over, Moved

(* Moving on with the same memory. *)
LEMMA GotoKeeps ==
    ASSUME NEW p \in Procs, NEW x, NEW y, NEW r, MemoryOK(p, x, r), Differs(x, y, {"pc"}),
           x.pc \notin Waiting, y.pc \in PCs, y.pc \notin Waiting,
           y.pc \in Early => x.part = 0,
           y.pc \in {"hash", "send"} => x.part < PartCount(p),
           y.pc \in {"head", "patch"} => x.url \in Urls
    PROVE  MemoryOK(p, y, r)
<1>1. /\ y.key = x.key /\ y.id = x.id /\ y.part = x.part /\ y.uploaded = x.uploaded
      /\ y.etags = x.etags /\ y.url = x.url /\ y.off = x.off /\ y.cache = x.cache
      /\ DOMAIN y = Fields
    BY DEF Differs, Fields
<1> QED  BY <1>1 DEF MemoryOK, MemoryTypes, Waiting

LEMMA RefusedTypes ==
    ASSUME Types, NEW p \in Procs, Refused(p), source' = source, faults' \in Nat, torn' \in BOOLEAN
    PROVE  Types'
<1>1. MemoryOK(p, Process("idle", None), row)
    BY ProcessOK DEF Waiting
<1> QED  BY <1>1, OverMoves, LoneMemory DEF Refused

LEMMA CalmTypes == ASSUME Types, Calm PROVE source' = source /\ faults' \in Nat /\ torn' \in BOOLEAN
BY DEF Calm, Types, ServerTypes

LEMMA FaultTypes ==
    ASSUME Types, Fault
    PROVE  source' = source /\ faults' \in Nat /\ torn' \in BOOLEAN
BY DEF Fault, Types, ServerTypes

LEMMA StartUploadTypes == ASSUME Types, NEW p \in Procs, StartUpload(p) PROVE Types'
<1>1. MemoryOK(p, Process("insert", p), row)
    BY ProcessOK DEF Waiting
<1>2. Moved(p, Process("insert", p))
    BY IsFunction DEF StartUpload, Moved
<1> QED  BY <1>1, <1>2, CalmTypes, LoneMemory DEF StartUpload

LEMMA InsertTypes == ASSUME Types, NEW p \in Procs, InsertAsset(p) PROVE Types'
<1>0. source' = source /\ faults' \in Nat /\ torn' \in BOOLEAN
    BY CalmTypes DEF InsertAsset
<1>1. CASE row.state # "absent"
    BY <1>0, <1>1, RefusedTypes DEF InsertAsset
<1>2. CASE row.state = "absent"
    <2>1. PICK m \in Methods : Inserted(p, m)
        BY <1>2 DEF InsertAsset
    <2>2. loc[p].pc = "insert" /\ loc[p].key = p
        BY DEF InsertAsset, At, Types, MemoryOK
    <2> DEFINE l == IF m = "tus" THEN "post" ELSE "open"
    <2>3. PICK y : Moved(p, y) /\ Differs(loc[p], y, {"pc"}) /\ y.pc = l
        BY <2>1, GotoMoves DEF Inserted
    <2>4. /\ y.key = p /\ y.id = loc[p].id /\ y.part = loc[p].part /\ y.uploaded = loc[p].uploaded
          /\ y.etags = loc[p].etags /\ y.url = loc[p].url /\ y.off = loc[p].off
          /\ y.cache = loc[p].cache /\ DOMAIN y = Fields
        BY <2>2, <2>3 DEF Differs, Fields
    <2>5. row' = [row EXCEPT !.state = "uploading", !.method = m, !.key = p]
        BY <2>1, <2>2 DEF Inserted
    <2>6. RowOK(row') /\ row'.state = "uploading" /\ row'.key = p
        BY <2>5, TypesOf DEF RowOK, Rows
    <2>7. ServerTypes' /\ NothingYet'
        BY <1>0, <2>1, <2>6 DEF Inserted, Types, ServerTypes, NothingYet
    <2>8. MemoryOK(p, y, row')
        <3>1. MemoryTypes(loc[p]) /\ loc[p].part = 0
            BY <2>2, TypesOf DEF MemoryOK, Early
        <3>2. y.pc \in PCs /\ y.pc \notin {"insert", "hash", "send", "head", "patch"}
            BY <2>3 DEF PCs
        <3> QED  BY <2>4, <2>6, <3>1, <3>2 DEF MemoryOK, MemoryTypes
    <2>9. ASSUME NEW q \in Procs, q # p PROVE MemoryOK(q, loc[q], row')
        <3>1. loc[q].pc \in Waiting
            BY <1>2 DEF Types, MemoryOK
        <3> QED  BY <2>6, <3>1 DEF Types, MemoryOK
    <2>10. ASSUME NEW q \in Procs PROVE MemoryOK(q, loc'[q], row')
        <3>1. loc'[q] = IF q = p THEN y ELSE loc[q]
            BY <2>3 DEF Moved
        <3> QED  BY <2>8, <2>9, <3>1
    <2>11. loc' \in [Procs -> {loc'[q] : q \in Procs}]
        BY <2>3 DEF Moved
    <2> QED  BY <2>7, <2>10, <2>11 DEF Types
<1> QED  BY <1>1, <1>2

(* What the steps of a process do to its memory. *)
LEMMA CreateMoves ==
    ASSUME Types, NEW p \in Procs, CreateMultipartUpload(p)
    PROVE  \E y : Moved(p, y) /\ Differs(loc[p], y, {"id", "pc"}) /\ y.id = p /\ y.pc = "patchId"
<1> DEFINE y == [loc[p] EXCEPT !.id = p, !.pc = "patchId"]
<1>1. DOMAIN loc[p] = Fields
    BY DEF Types, MemoryOK, MemoryTypes
<1>2. Moved(p, y)
    BY IsFunction DEF CreateMultipartUpload, Moved
<1>3. Differs(loc[p], y, {"id", "pc"}) /\ y.id = p /\ y.pc = "patchId"
    BY <1>1 DEF Differs, Fields
<1> QED  BY <1>2, <1>3

LEMMA ResumeMoves ==
    ASSUME Types, NEW p \in Procs, StartResume(p)
    PROVE  \E y : /\ Moved(p, y) /\ DOMAIN y = Fields
                  /\ y.pc = IF row.method # "tus" THEN "list"
                            ELSE IF row.tusUrl = None THEN "post" ELSE "head"
                  /\ y.key = row.key /\ y.id = row.uploadId /\ y.url = row.tusUrl
                  /\ y.part = 0 /\ y.off = 0 /\ y.cache = {}
                  /\ y.uploaded = NoParts /\ y.etags = NoParts
<1> DEFINE l == IF row.method # "tus" THEN "list"
                ELSE IF row.tusUrl = None THEN "post" ELSE "head"
           y == [Process(l, row.key) EXCEPT !.id = row.uploadId, !.url = row.tusUrl]
<1>1. Moved(p, y)
    BY IsFunction DEF StartResume, Moved
<1> HIDE DEF l
<1>2. /\ DOMAIN y = Fields /\ y.pc = l
      /\ y.key = row.key /\ y.id = row.uploadId /\ y.url = row.tusUrl
      /\ y.part = 0 /\ y.off = 0 /\ y.cache = {}
      /\ y.uploaded = NoParts /\ y.etags = NoParts
    BY DEF Process, Fields
<1> QED  BY <1>1, <1>2 DEF l

LEMMA ListMoves ==
    ASSUME Types, NEW p \in Procs, ListParts(p), Open(p)
    PROVE  \E y : /\ Moved(p, y) /\ Differs(loc[p], y, {"uploaded", "pc"})
                  /\ y.uploaded = parts[loc[p].id] /\ y.pc = "hash"
<1> DEFINE y == [loc[p] EXCEPT !.uploaded = parts[loc[p].id], !.pc = "hash"]
<1>1. DOMAIN loc[p] = Fields
    BY DEF Types, MemoryOK, MemoryTypes
<1>2. Moved(p, y)
    BY IsFunction DEF ListParts, Moved
<1>3. Differs(loc[p], y, {"uploaded", "pc"}) /\ y.uploaded = parts[loc[p].id] /\ y.pc = "hash"
    BY <1>1 DEF Differs, Fields
<1> QED  BY <1>2, <1>3

LEMMA NextMoves ==
    ASSUME Types, NEW p \in Procs, NEW E, NextPart(p, E)
    PROVE  \E y : /\ Moved(p, y) /\ Differs(loc[p], y, {"etags", "part", "pc"})
                  /\ y.etags = E /\ y.part = loc[p].part + 1
                  /\ y.pc = IF loc[p].part + 1 < PartCount(p) THEN "hash"
                            ELSE IF \E n \in 1..PartCount(p) : E[n] = <<>> THEN "etags"
                            ELSE "complete"
<1> DEFINE l == IF loc[p].part + 1 < PartCount(p) THEN "hash"
                ELSE IF \E n \in 1..PartCount(p) : E[n] = <<>> THEN "etags" ELSE "complete"
           y == [loc[p] EXCEPT !.etags = E, !.part = @ + 1, !.pc = l]
<1>1. DOMAIN loc[p] = Fields
    BY DEF Types, MemoryOK, MemoryTypes
<1>2. loc' = [loc EXCEPT ![p].etags = E, ![p].part = @ + 1, ![p].pc = l]
    BY DEF NextPart
<1> HIDE DEF l
<1>3. Moved(p, y)
    BY <1>1, <1>2, IsFunction DEF Moved, Fields
<1>4. /\ Differs(loc[p], y, {"etags", "part", "pc"}) /\ y.etags = E
      /\ y.part = loc[p].part + 1 /\ y.pc = l
    BY <1>1 DEF Differs, Fields
<1> QED  BY <1>3, <1>4 DEF l

(* The ETags of p after those it did not see have been listed. *)
Filled(p) == [n \in PartNumbers |->
                 IF loc[p].etags[n] = <<>> THEN parts[loc[p].id][n] ELSE loc[p].etags[n]]

LEMMA FetchMoves ==
    ASSUME Types, NEW p \in Procs, FetchEtags(p)
    PROVE  \/ Refused(p)
           \/ /\ UNCHANGED server /\ Open(p)
              /\ \A n \in 1..PartCount(p) : Filled(p)[n] # <<>>
              /\ \E y : /\ Moved(p, y) /\ Differs(loc[p], y, {"etags", "pc"})
                        /\ y.etags = Filled(p) /\ y.pc = "complete"
<1> SUFFICES ASSUME ~Refused(p)
             PROVE  /\ UNCHANGED server /\ Open(p)
                    /\ \A n \in 1..PartCount(p) : Filled(p)[n] # <<>>
                    /\ \E y : /\ Moved(p, y) /\ Differs(loc[p], y, {"etags", "pc"})
                              /\ y.etags = Filled(p) /\ y.pc = "complete"
    OBVIOUS
<1> DEFINE y == [loc[p] EXCEPT !.etags = Filled(p), !.pc = "complete"]
<1>1. DOMAIN loc[p] = Fields
    BY DEF Types, MemoryOK, MemoryTypes
<1>2. /\ loc' = [loc EXCEPT ![p].etags = Filled(p), ![p].pc = "complete"]
      /\ UNCHANGED server /\ Open(p) /\ \A n \in 1..PartCount(p) : Filled(p)[n] # <<>>
    BY DEF FetchEtags, Filled
<1>3. Moved(p, y)
    BY <1>2, IsFunction DEF Moved
<1>4. Differs(loc[p], y, {"etags", "pc"}) /\ y.etags = Filled(p) /\ y.pc = "complete"
    BY <1>1 DEF Differs, Fields
<1> QED  BY <1>2, <1>3, <1>4

LEMMA PostMoves ==
    ASSUME Types, NEW p \in Procs, NEW u,
           loc' = [loc EXCEPT ![p].url = u, ![p].off = 0, ![p].pc = "patch"]
    PROVE  \E y : /\ Moved(p, y) /\ Differs(loc[p], y, {"url", "off", "pc"})
                  /\ y.url = u /\ y.off = 0 /\ y.pc = "patch"
<1> DEFINE y == [loc[p] EXCEPT !.url = u, !.off = 0, !.pc = "patch"]
<1>1. DOMAIN loc[p] = Fields
    BY DEF Types, MemoryOK, MemoryTypes
<1>2. Moved(p, y)
    BY IsFunction DEF Moved
<1>3. Differs(loc[p], y, {"url", "off", "pc"}) /\ y.url = u /\ y.off = 0 /\ y.pc = "patch"
    BY <1>1 DEF Differs, Fields
<1> QED  BY <1>2, <1>3

OffsetGoes(p, o, l) == loc' = [loc EXCEPT ![p].off = o, ![p].pc = l]

LEMMA OffsetMoves ==
    ASSUME Types, NEW p \in Procs, NEW o, NEW l, OffsetGoes(p, o, l)
    PROVE  \E y : Moved(p, y) /\ Differs(loc[p], y, {"off", "pc"}) /\ y.off = o /\ y.pc = l
<1> DEFINE y == [loc[p] EXCEPT !.off = o, !.pc = l]
<1>1. DOMAIN loc[p] = Fields
    BY DEF Types, MemoryOK, MemoryTypes
<1>2. Moved(p, y)
    BY IsFunction DEF Moved, OffsetGoes
<1>3. Differs(loc[p], y, {"off", "pc"}) /\ y.off = o /\ y.pc = l
    BY <1>1 DEF Differs, Fields
<1> QED  BY <1>2, <1>3

LEMMA CacheMoves ==
    ASSUME Types, NEW p \in Procs, NEW i,
           loc' = [loc EXCEPT ![p].cache = {k \in @ \cup {i} : k >= i - 1}]
    PROVE  \E y : /\ Moved(p, y) /\ Differs(loc[p], y, {"cache"})
                  /\ y.cache \subseteq loc[p].cache \cup {i}
<1> DEFINE y == [loc[p] EXCEPT !.cache = {k \in @ \cup {i} : k >= i - 1}]
<1>1. DOMAIN loc[p] = Fields
    BY DEF Types, MemoryOK, MemoryTypes
<1>2. Moved(p, y)
    BY IsFunction DEF Moved
<1>3. Differs(loc[p], y, {"cache"}) /\ y.cache \subseteq loc[p].cache \cup {i}
    BY <1>1 DEF Differs, Fields
<1> QED  BY <1>2, <1>3

LEMMA CreateTypes == ASSUME Types, NEW p \in Procs, CreateMultipartUpload(p) PROVE Types'
<1>1. PICK y : Moved(p, y) /\ Differs(loc[p], y, {"id", "pc"}) /\ y.id = p /\ y.pc = "patchId"
    BY CreateMoves
<1>2. loc[p].pc = "open"
    BY DEF CreateMultipartUpload, At
<1>3. /\ y.key = loc[p].key /\ y.part = loc[p].part /\ y.uploaded = loc[p].uploaded
      /\ y.etags = loc[p].etags /\ y.url = loc[p].url /\ y.off = loc[p].off
      /\ y.cache = loc[p].cache /\ DOMAIN y = Fields
    BY <1>1 DEF Differs, Fields
<1>4. MemoryOK(p, y, row)
    BY <1>1, <1>2, <1>3, TypesOf DEF MemoryOK, MemoryTypes, Waiting, Early, PCs
<1>5. /\ source' = source /\ faults' \in Nat /\ torn' \in BOOLEAN
      /\ UNCHANGED <<row, hashes, parts, tus, object, patching>>
      /\ mpu' = [mpu EXCEPT ![p] = "open"]
    BY CalmTypes DEF CreateMultipartUpload
<1>6. ServerTypes' /\ NothingYet'
    BY <1>5 DEF Types, ServerTypes, NothingYet
<1> QED  BY <1>1, <1>4, <1>5, <1>6, AllMemory

LEMMA PatchIdTypes == ASSUME Types, NEW p \in Procs, PatchUploadId(p) PROVE Types'
<1>1. PICK y : Moved(p, y) /\ Differs(loc[p], y, {"pc"}) /\ y.pc = "hash"
    BY GotoMoves DEF PatchUploadId
<1>2. loc[p].pc = "patchId" /\ MemoryTypes(loc[p]) /\ row \in Rows /\ RowOK(row)
    BY TypesOf DEF PatchUploadId, At
<1>3. /\ source' = source /\ faults' \in Nat /\ torn' \in BOOLEAN
      /\ UNCHANGED <<hashes, mpu, parts, tus, object, patching>>
      /\ row' = [row EXCEPT !.uploadId = loc[p].id]
    BY CalmTypes DEF PatchUploadId
<1>4. RowOK(row') /\ row'.key = row.key /\ row'.state = row.state
    BY <1>2, <1>3 DEF RowOK, Rows, MemoryTypes
<1>5. ServerTypes' /\ NothingYet'
    BY <1>3, <1>4 DEF Types, ServerTypes, NothingYet
<1>6. MemoryOK(p, loc[p], row')
    BY <1>4, TypesOf DEF MemoryOK
<1>7. loc[p].part < PartCount(p)
    BY <1>2, <1>6, Counted DEF MemoryOK, Early
<1>8. MemoryOK(p, y, row')
    BY <1>1, <1>2, <1>6, <1>7, GotoKeeps DEF Waiting, Early, PCs
<1> QED  BY <1>1, <1>4, <1>5, <1>8, AllMemory

LEMMA ResumeTypes == ASSUME Types, NEW p \in Procs, StartResume(p) PROVE Types'
<1>1. PICK y : /\ Moved(p, y) /\ DOMAIN y = Fields
               /\ y.pc = IF row.method # "tus" THEN "list"
                         ELSE IF row.tusUrl = None THEN "post" ELSE "head"
               /\ y.key = row.key /\ y.id = row.uploadId /\ y.url = row.tusUrl
               /\ y.part = 0 /\ y.off = 0 /\ y.cache = {}
               /\ y.uploaded = NoParts /\ y.etags = NoParts
    BY ResumeMoves
<1>2. row \in Rows /\ row.state # "absent"
    BY TypesOf DEF StartResume
<1>3. /\ row.key \in Procs \cup {None} /\ row.uploadId \in Procs \cup {None}
      /\ row.tusUrl \in Urls \cup {None}
    BY <1>2 DEF Rows
<1>4. y.pc \in {"list", "post", "head"} /\ (y.pc = "head" => row.tusUrl \in Urls)
    BY <1>1, <1>3
<1>5. MemoryTypes(y)
    BY <1>1, <1>3, <1>4, EmptyList, Constants DEF MemoryTypes, PCs
<1>6. MemoryOK(p, y, row)
    BY <1>1, <1>2, <1>4, <1>5 DEF MemoryOK, Waiting, Early
<1> QED  BY <1>1, <1>6, CalmTypes, LoneMemory DEF StartResume

LEMMA ListTypes == ASSUME Types, NEW p \in Procs, ListParts(p) PROVE Types'
<1>1. CASE ~Open(p)
    BY <1>1, CalmTypes, RefusedTypes DEF ListParts
<1>2. CASE Open(p)
    <2>1. PICK y : /\ Moved(p, y) /\ Differs(loc[p], y, {"uploaded", "pc"})
                   /\ y.uploaded = parts[loc[p].id] /\ y.pc = "hash"
        BY <1>2, ListMoves
    <2>2. loc[p].pc = "list" /\ MemoryOK(p, loc[p], row) /\ MemoryTypes(loc[p])
        BY TypesOf DEF ListParts, At
    <2>3. parts[loc[p].id] \in PartLists
        BY <1>2, <2>2 DEF Open, MemoryTypes, Types, ServerTypes
    <2>4. /\ y.key = loc[p].key /\ y.id = loc[p].id /\ y.part = loc[p].part
          /\ y.etags = loc[p].etags /\ y.url = loc[p].url /\ y.off = loc[p].off
          /\ y.cache = loc[p].cache /\ DOMAIN y = Fields
        BY <2>1 DEF Differs, Fields
    <2>5. row.state # "absent" /\ loc[p].key = row.key /\ loc[p].part = 0
        BY <2>2 DEF MemoryOK, Waiting, Early
    <2>6. loc[p].part < PartCount(p)
        BY <2>5, Counted
    <2>7. MemoryTypes(y)
        BY <2>1, <2>2, <2>3, <2>4 DEF MemoryTypes, PCs
    <2>8. MemoryOK(p, y, row)
        BY <2>1, <2>4, <2>5, <2>6, <2>7 DEF MemoryOK, Early
    <2> QED  BY <1>2, <2>1, <2>8, CalmTypes, LoneMemory DEF ListParts
<1> QED  BY <1>1, <1>2

(* After the part it is at, with ETags E. *)
LEMMA NextOK ==
    ASSUME Types, NEW p \in Procs, loc[p].pc \in {"hash", "send"}, NEW E \in PartLists, NEW y,
           Differs(loc[p], y, {"etags", "part", "pc"}), y.etags = E, y.part = loc[p].part + 1,
           y.pc = IF loc[p].part + 1 < PartCount(p) THEN "hash"
                  ELSE IF \E n \in 1..PartCount(p) : E[n] = <<>> THEN "etags" ELSE "complete"
    PROVE  MemoryOK(p, y, row)
<1>1. MemoryOK(p, loc[p], row) /\ MemoryTypes(loc[p])
    BY TypesOf
<1>2. /\ y.key = loc[p].key /\ y.id = loc[p].id /\ y.uploaded = loc[p].uploaded
      /\ y.url = loc[p].url /\ y.off = loc[p].off
      /\ y.cache = loc[p].cache /\ DOMAIN y = Fields
    BY DEF Differs, Fields
<1>3. loc[p].part < PartCount(p) /\ row.state # "absent" /\ loc[p].key = row.key
    BY <1>1 DEF MemoryOK, Waiting
<1>4. y.part \in 0..ChunkCount
    BY <1>1, <1>3, Counted, Constants DEF MemoryTypes
<1>5. y.pc \in {"hash", "etags", "complete"} /\ (y.pc = "hash" => y.part < PartCount(p))
    OBVIOUS
<1>6. MemoryTypes(y)
    BY <1>1, <1>2, <1>4, <1>5 DEF MemoryTypes, PCs
<1> QED  BY <1>2, <1>3, <1>5, <1>6 DEF MemoryOK, Early

(* Rows of asset_chunks. *)
LEMMA UpsertTyped ==
    ASSUME Types, NEW p \in Procs, loc[p].pc \notin Waiting, NEW cs, UpsertChunks(p, cs)
    PROVE  hashes' \in [Chunks -> Ciphers \cup {None}]
<1>1. loc[p].key \in Procs /\ source \in Sources
    BY DEF Types, MemoryOK, ServerTypes, RowOK
<1>2. hashes \in [Chunks -> Ciphers \cup {None}]
    BY DEF Types, ServerTypes
<1>3. \A c \in Chunks : Cipher(p, c) \in Ciphers
    BY <1>1, CipherTyped
<1> QED  BY <1>2, <1>3 DEF UpsertChunks

LEMMA HashTypes == ASSUME Types, NEW p \in Procs, HashPart(p) PROVE Types'
<1> DEFINE n == loc[p].part + 1
<1>1. /\ loc[p].pc = "hash" /\ MemoryOK(p, loc[p], row) /\ MemoryTypes(loc[p])
      /\ loc[p].part < PartCount(p)
    BY TypesOf DEF HashPart, At, MemoryOK
<1>2. n \in PartNumbers
    BY <1>1, PartPlace DEF MemoryTypes
<1>3. /\ source' = source /\ faults' \in Nat /\ torn' \in BOOLEAN
      /\ UNCHANGED <<row, mpu, parts, tus, object, patching>>
    BY CalmTypes DEF HashPart
<1>4. ServerTypes' /\ NothingYet'
    <2>1. hashes' \in [Chunks -> Ciphers \cup {None}]
        BY <1>1, UpsertTyped DEF HashPart, Waiting
    <2> QED  BY <1>3, <2>1 DEF Types, ServerTypes, NothingYet
<1>5. CASE loc[p].uploaded[n] # <<>>
    <2> DEFINE E == [loc[p].etags EXCEPT ![n] = loc[p].uploaded[n]]
    <2>1. NextPart(p, E)
        BY <1>5 DEF HashPart
    <2>2. E \in PartLists
        BY <1>1, <1>2 DEF MemoryTypes, PartLists
    <2> HIDE DEF E
    <2>3. PICK y : Moved(p, y) /\ MemoryOK(p, y, row)
        BY <1>1, <2>1, <2>2, NextMoves, NextOK
    <2> QED  BY <1>3, <1>4, <2>3, AllMemory
<1>6. CASE loc[p].uploaded[n] = <<>>
    <2>1. PICK y : Moved(p, y) /\ Differs(loc[p], y, {"pc"}) /\ y.pc = "send"
        BY <1>6, GotoMoves DEF HashPart
    <2>2. MemoryOK(p, y, row)
        BY <1>1, <2>1, GotoKeeps DEF Waiting, Early, PCs
    <2> QED  BY <1>3, <1>4, <2>1, <2>2, AllMemory
<1> QED  BY <1>5, <1>6

LEMMA PartTypes == ASSUME Types, NEW p \in Procs, UploadPart(p) PROVE Types'
<1> DEFINE n == loc[p].part + 1
<1>0. source' = source /\ faults' \in Nat /\ torn' \in BOOLEAN
    BY CalmTypes DEF UploadPart
<1>1. CASE ~Open(p)
    BY <1>0, <1>1, RefusedTypes DEF UploadPart
<1>2. CASE Open(p)
    <2>1. /\ loc[p].pc = "send" /\ MemoryOK(p, loc[p], row) /\ MemoryTypes(loc[p])
          /\ loc[p].part < PartCount(p) /\ row.state # "absent"
        BY TypesOf DEF UploadPart, At, MemoryOK, Waiting
    <2>2. n \in PartNumbers /\ loc[p].id \in Procs
        BY <1>2, <2>1, PartPlace DEF MemoryTypes, Open
    <2>3. PartBytes(p) \in Bytes
        <3>1. loc[p].key \in Procs /\ source \in Sources
            BY <2>1 DEF Types, MemoryOK, ServerTypes, RowOK, Waiting
        <3>2. \A c \in FirstChunk(p)..LastChunk(p) : Cipher(p, c) \in Ciphers
            BY <2>1, <3>1, PartPlace, CipherTyped, Constants DEF Chunks, MemoryTypes
        <3> QED  BY <2>1, <3>2, PartTyped DEF Bytes, MemoryTypes
    <2>4. PICK b \in {PartBytes(p), <<>>} : NextPart(p, [loc[p].etags EXCEPT ![n] = b])
        BY <1>2 DEF UploadPart
    <2> DEFINE E == [loc[p].etags EXCEPT ![n] = b]
    <2>5. b \in Bytes
        <3>1. <<>> \in Bytes
            BY DEF Bytes
        <3> QED  BY <2>3, <3>1
    <2>6. E \in PartLists
        BY <2>1, <2>2, <2>5 DEF MemoryTypes, PartLists
    <2> HIDE DEF E
    <2>7. PICK y : Moved(p, y) /\ MemoryOK(p, y, row)
        BY <2>1, <2>4, <2>6, NextMoves, NextOK DEF E
    <2>8. /\ parts' = [parts EXCEPT ![loc[p].id][n] = PartBytes(p)]
          /\ UNCHANGED <<row, hashes, mpu, tus, object, patching>>
        BY <1>2 DEF UploadPart
    <2>9. parts' \in [Procs -> PartLists]
        BY <2>2, <2>3, <2>8 DEF Types, ServerTypes, PartLists
    <2>10. ServerTypes' /\ NothingYet'
        BY <1>0, <2>1, <2>8, <2>9 DEF Types, ServerTypes, NothingYet
    <2> QED  BY <2>7, <2>8, <2>10, AllMemory
<1> QED  BY <1>1, <1>2

LEMMA FetchTypes == ASSUME Types, NEW p \in Procs, FetchEtags(p) PROVE Types'
<1>0. source' = source /\ faults' \in Nat /\ torn' \in BOOLEAN
    BY CalmTypes DEF FetchEtags
<1>1. CASE Refused(p)
    BY <1>0, <1>1, RefusedTypes
<1>2. CASE ~Refused(p)
    <2>1. UNCHANGED server /\ Open(p)
        BY <1>2, FetchMoves
    <2>2. PICK y : /\ Moved(p, y) /\ Differs(loc[p], y, {"etags", "pc"})
                   /\ y.etags = Filled(p) /\ y.pc = "complete"
        BY <1>2, FetchMoves
    <2>3. loc[p].pc = "etags" /\ MemoryOK(p, loc[p], row) /\ MemoryTypes(loc[p])
        BY TypesOf DEF FetchEtags, At
    <2>4. parts[loc[p].id] \in PartLists
        BY <2>1, <2>3 DEF Open, MemoryTypes, Types, ServerTypes
    <2>5. Filled(p) \in PartLists
        BY <2>3, <2>4 DEF Filled, PartLists, MemoryTypes
    <2>6. /\ y.key = loc[p].key /\ y.id = loc[p].id /\ y.part = loc[p].part
          /\ y.uploaded = loc[p].uploaded /\ y.url = loc[p].url /\ y.off = loc[p].off
          /\ y.cache = loc[p].cache /\ DOMAIN y = Fields
        BY <2>2 DEF Differs, Fields
    <2>7. MemoryTypes(y)
        BY <2>2, <2>3, <2>5, <2>6 DEF MemoryTypes, PCs
    <2>8. MemoryOK(p, y, row)
        BY <2>2, <2>3, <2>6, <2>7 DEF MemoryOK, Waiting, Early
    <2> QED  BY <1>0, <2>1, <2>2, <2>8, LoneMemory
<1> QED  BY <1>1, <1>2

LEMMA AssembledTyped ==
    ASSUME NEW p \in Procs, NEW T, \A n \in PartNumbers : loc[p].etags[n] \in Seq(T)
    PROVE  Assembled(p) \in Seq(T)
<1> DEFINE s == [n \in 1..ChunkCount |-> loc[p].etags[n]]
<1>1. s \in [1..ChunkCount -> Seq(T)]
    BY DEF PartNumbers
<1>2. Assembled(p) = FlattenSeq(s)
    BY DEF Assembled, PartNumbers
<1> HIDE DEF s
<1> QED  BY <1>1, <1>2, FlattenTyped, Constants

LEMMA CompleteTypes == ASSUME Types, NEW p \in Procs, CompleteMultipartUpload(p) PROVE Types'
<1>0. source' = source /\ faults' \in Nat /\ torn' \in BOOLEAN
    BY CalmTypes DEF CompleteMultipartUpload
<1>1. CASE ~Completable(p)
    BY <1>0, <1>1, RefusedTypes DEF CompleteMultipartUpload
<1>2. CASE Completable(p)
    <2>1. PICK y : Moved(p, y) /\ Differs(loc[p], y, {"pc"}) /\ y.pc = "finish"
        BY <1>2, GotoMoves DEF CompleteMultipartUpload
    <2>2. loc[p].pc = "complete" /\ MemoryOK(p, loc[p], row) /\ MemoryTypes(loc[p])
        BY TypesOf DEF CompleteMultipartUpload, At
    <2>3. MemoryOK(p, y, row)
        BY <2>1, <2>2, GotoKeeps DEF Waiting, Early, PCs
    <2>4. /\ object' = Assembled(p) /\ mpu' = [mpu EXCEPT ![loc[p].id] = "done"]
          /\ UNCHANGED <<row, hashes, parts, tus, patching>>
        BY <1>2 DEF CompleteMultipartUpload
    <2>5. Assembled(p) \in Bytes
        BY <2>2, AssembledTyped DEF MemoryTypes, PartLists, Bytes
    <2>6. row.state # "absent"
        BY <2>2 DEF MemoryOK, Waiting
    <2>7. ServerTypes' /\ NothingYet'
        BY <1>0, <2>4, <2>5, <2>6 DEF Types, ServerTypes, NothingYet
    <2> QED  BY <2>1, <2>3, <2>4, <2>7, AllMemory
<1> QED  BY <1>1, <1>2

LEMMA UnusedUrl == ASSUME Unused # {} PROVE NewUrl \in Unused /\ NewUrl \in Urls
<1>1. Unused \subseteq Nat
    BY TusAssumption DEF Unused
<1>2. \E n \in Unused : \A m \in Unused : n <= m
    BY <1>1, Least
<1>3. Min(Unused) \in Unused
    BY <1>2 DEF Min
<1> QED  BY <1>3 DEF NewUrl, Unused

LEMMA PostTypes == ASSUME Types, NEW p \in Procs, TusPost(p) PROVE Types'
<1>1. CASE object # <<>>
    BY <1>1, CalmTypes, RefusedTypes DEF TusPost
<1>2. CASE object = <<>>
    <2> DEFINE u == NewUrl
    <2>1. u \in Urls
        BY <1>2, UnusedUrl DEF TusPost
    <2>2. /\ tus' = [tus EXCEPT ![u].state = "open"]
          /\ UNCHANGED <<row, hashes, mpu, parts, object>>
        BY <1>2 DEF TusPost
    <2>3. loc[p].pc = "post" /\ MemoryOK(p, loc[p], row) /\ MemoryTypes(loc[p])
        BY TypesOf DEF TusPost, At
    <2>4. row.state # "absent" /\ loc[p].key = row.key
        BY <2>3 DEF MemoryOK, Waiting
    <2>5. /\ tus' \in [Urls -> TusUploads]
          /\ \A v \in Urls : tus'[v].bytes = tus[v].bytes
        BY <2>1, <2>2 DEF Types, ServerTypes, TusUploads
    <2>6. \A v \in Urls : Len(tus'[v].bytes) <= Size
        BY <2>5 DEF Types, ServerTypes
    <2>7. CASE UNCHANGED <<loc, patching>> /\ Fault
        <3>1. ServerTypes' /\ NothingYet'
            BY <2>2, <2>4, <2>5, <2>6, <2>7, FaultTypes DEF Types, ServerTypes, NothingYet
        <3> QED  BY <2>2, <2>7, <3>1, NoMemory
    <2>8. CASE /\ loc' = [loc EXCEPT ![p].url = u, ![p].off = 0, ![p].pc = "patch"]
               /\ patching' = patching \cup {u}
               /\ Calm
        <3>1. PICK y : /\ Moved(p, y) /\ Differs(loc[p], y, {"url", "off", "pc"})
                       /\ y.url = u /\ y.off = 0 /\ y.pc = "patch"
            BY <2>8, PostMoves
        <3>2. /\ y.key = loc[p].key /\ y.id = loc[p].id /\ y.part = loc[p].part
              /\ y.uploaded = loc[p].uploaded /\ y.etags = loc[p].etags
              /\ y.cache = loc[p].cache /\ DOMAIN y = Fields
            BY <3>1 DEF Differs, Fields
        <3>3. MemoryTypes(y)
            BY <2>1, <2>3, <3>1, <3>2, Constants DEF MemoryTypes, PCs
        <3>4. MemoryOK(p, y, row)
            BY <2>1, <2>4, <3>1, <3>2, <3>3 DEF MemoryOK, Waiting, Early
        <3>5. ServerTypes' /\ NothingYet'
            <4>1. patching' \subseteq Urls
                BY <2>1, <2>8 DEF Types, ServerTypes
            <4> QED  BY <2>2, <2>4, <2>5, <2>6, <2>8, <4>1, CalmTypes DEF Types, ServerTypes, NothingYet
        <3> QED  BY <2>2, <3>1, <3>4, <3>5, AllMemory
    <2> QED  BY <1>2, <2>7, <2>8 DEF TusPost
<1> QED  BY <1>1, <1>2

LEMMA SaveTypes == ASSUME Types, NEW u \in Urls, SaveUrl(u) PROVE Types'
<1>1. patching' \subseteq Urls /\ UNCHANGED <<hashes, mpu, parts, tus, object, loc>>
    BY DEF SaveUrl, Types, ServerTypes
<1>2. source' = source /\ faults' \in Nat /\ torn' \in BOOLEAN
    BY CalmTypes, FaultTypes DEF SaveUrl
<1>3. row' = row \/ row' = [row EXCEPT !.tusUrl = u]
    BY DEF SaveUrl
<1>4. RowOK(row) /\ row \in Rows
    BY DEF Types, ServerTypes, RowOK
<1>5. RowOK(row') /\ row'.key = row.key /\ row'.state = row.state
    BY <1>3, <1>4 DEF RowOK, Rows
<1>6. ServerTypes' /\ NothingYet'
    BY <1>1, <1>2, <1>5 DEF Types, ServerTypes, NothingYet
<1> QED  BY <1>1, <1>5, <1>6, NoMemory

(* A new offset, inside the upload. *)
LEMMA OffsetKeeps ==
    ASSUME NEW p \in Procs, NEW x, NEW y, NEW r, MemoryOK(p, x, r), Differs(x, y, {"off", "pc"}),
           x.pc \in {"head", "patch"}, y.pc \in {"post", "finish", "patch"}, y.off \in 0..Size
    PROVE  MemoryOK(p, y, r)
<1>1. /\ y.key = x.key /\ y.id = x.id /\ y.part = x.part /\ y.uploaded = x.uploaded
      /\ y.etags = x.etags /\ y.url = x.url /\ y.cache = x.cache /\ DOMAIN y = Fields
    BY DEF Differs, Fields
<1>2. x.url \in Urls /\ r.state # "absent" /\ x.key = r.key /\ MemoryTypes(x)
    BY DEF MemoryOK, Waiting
<1>3. MemoryTypes(y)
    BY <1>1, <1>2 DEF MemoryTypes, PCs
<1> QED  BY <1>1, <1>2, <1>3 DEF MemoryOK, Waiting, Early

LEMMA HeadTypes == ASSUME Types, NEW p \in Procs, TusHead(p) PROVE Types'
<1> DEFINE u == tus[loc[p].url]
           l == IF u.state = "gone" THEN "post" ELSE IF u.state = "done" THEN "finish" ELSE "patch"
           o == Len(u.bytes)
<1>0. OffsetGoes(p, o, l)
    BY DEF TusHead, OffsetGoes
<1>2. l \in {"post", "finish", "patch"}
    OBVIOUS
<1>3. loc[p].pc = "head" /\ MemoryOK(p, loc[p], row) /\ loc[p].url \in Urls
    BY TypesOf DEF TusHead, At, MemoryOK
<1>4. o \in 0..Size
    BY <1>3, Constants DEF Types, ServerTypes, TusUploads, Bytes
<1> HIDE DEF u, l, o
<1>1. PICK y : Moved(p, y) /\ Differs(loc[p], y, {"off", "pc"}) /\ y.off = o /\ y.pc = l
    BY <1>0, OffsetMoves
<1>5. MemoryOK(p, y, row)
    BY <1>1, <1>2, <1>3, <1>4, OffsetKeeps
<1> QED  BY <1>1, <1>5, CalmTypes, LoneMemory DEF TusHead

LEMMA UncachedLeast ==
    ASSUME NEW p \in Procs, loc[p].off \in 0..Size, Uncached(p) # {}
    PROVE  Min(Uncached(p)) \in Uncached(p) /\ Min(Uncached(p)) \in Chunks
<1>1. Uncached(p) \subseteq Chunks
    BY SlicePlace
<1>2. Uncached(p) \subseteq Nat
    BY <1>1 DEF Chunks
<1>3. \E n \in Uncached(p) : \A m \in Uncached(p) : n <= m
    BY <1>2, Least
<1>4. Min(Uncached(p)) \in Uncached(p)
    BY <1>3 DEF Min
<1> QED  BY <1>1, <1>4

LEMMA TusHashTypes == ASSUME Types, NEW p \in Procs, TusHash(p) PROVE Types'
<1> DEFINE i == Min(Uncached(p))
<1>1. /\ loc[p].pc = "patch" /\ MemoryOK(p, loc[p], row) /\ MemoryTypes(loc[p])
      /\ loc[p].off \in 0..Size
    BY TypesOf DEF TusHash, At, MemoryTypes
<1>2. i \in Chunks
    BY <1>1, UncachedLeast DEF TusHash
<1>3. /\ UpsertChunks(p, {i}) /\ UNCHANGED <<row, mpu, parts, tus, object, patching>>
      /\ source' = source /\ faults' \in Nat /\ torn' \in BOOLEAN
    BY CalmTypes DEF TusHash
<1>4. PICK y : Moved(p, y) /\ Differs(loc[p], y, {"cache"}) /\ y.cache \subseteq loc[p].cache \cup {i}
    BY CacheMoves DEF TusHash
<1> HIDE DEF i
<1>5. /\ y.key = loc[p].key /\ y.id = loc[p].id /\ y.part = loc[p].part /\ y.pc = loc[p].pc
      /\ y.uploaded = loc[p].uploaded /\ y.etags = loc[p].etags /\ y.url = loc[p].url
      /\ y.off = loc[p].off /\ DOMAIN y = Fields
    BY <1>4 DEF Differs, Fields
<1>6. row.state # "absent"
    BY <1>1 DEF MemoryOK, Waiting
<1>7. MemoryTypes(y)
    BY <1>1, <1>2, <1>4, <1>5 DEF MemoryTypes
<1>8. MemoryOK(p, y, row)
    BY <1>1, <1>5, <1>6, <1>7 DEF MemoryOK
<1>9. ServerTypes' /\ NothingYet'
    <2>1. hashes' \in [Chunks -> Ciphers \cup {None}]
        BY <1>1, <1>3, UpsertTyped DEF Waiting
    <2> QED  BY <1>3, <2>1 DEF Types, ServerTypes, NothingYet
<1> QED  BY <1>3, <1>4, <1>8, <1>9, AllMemory

(* The bytes of the upload after n units of p's slice. *)
Grown(p, n) == tus[loc[p].url].bytes \o EncryptRange(p, loc[p].off, loc[p].off + n)

LEMMA GrownTyped ==
    ASSUME NEW p \in Procs, loc[p].off \in 0..Size, NEW n \in 0..(SliceEnd(p) - loc[p].off), NEW T,
           \A c \in (loc[p].off \div ChunkUnits)..((SliceEnd(p) - 1) \div ChunkUnits) :
               Cipher(p, c) \in T,
           tus[loc[p].url].bytes \in Seq(T), loc[p].off = Len(tus[loc[p].url].bytes)
    PROVE  /\ Grown(p, n) \in Seq(T) /\ Len(Grown(p, n)) = loc[p].off + n
           /\ loc[p].off + n \in 0..Size
<1> DEFINE e == EncryptRange(p, loc[p].off, loc[p].off + n)
           t == tus[loc[p].url].bytes
<1>1. e \in Seq(T) /\ Len(e) = n
    BY SliceTyped
<1>2. Grown(p, n) = t \o e
    BY DEF Grown
<1>3. t \in Seq(T) /\ Len(t) = loc[p].off
    OBVIOUS
<1> HIDE DEF e, t
<1>4. Grown(p, n) \in Seq(T) /\ Len(Grown(p, n)) = Len(t) + Len(e)
    BY <1>1, <1>2, <1>3, ConcatProperties
<1>5. loc[p].off + n \in 0..Size
    BY SlicePlace, Constants
<1> QED  BY <1>1, <1>3, <1>4, <1>5

LEMMA SliceCiphers ==
    ASSUME Types, NEW p \in Procs, loc[p].pc = "patch"
    PROVE  /\ loc[p].off \in 0..Size /\ loc[p].url \in Urls
           /\ \A c \in (loc[p].off \div ChunkUnits)..((SliceEnd(p) - 1) \div ChunkUnits) :
                  c \in Chunks /\ Cipher(p, c) \in Ciphers
<1>1. MemoryOK(p, loc[p], row) /\ MemoryTypes(loc[p])
    BY TypesOf
<1>2. loc[p].off \in 0..Size /\ loc[p].url \in Urls /\ loc[p].cache \subseteq Chunks
    BY <1>1 DEF MemoryOK, MemoryTypes
<1>3. loc[p].key \in Procs /\ source \in Sources
    BY <1>1 DEF Types, MemoryOK, ServerTypes, RowOK, Waiting
<1>4. \A c \in (loc[p].off \div ChunkUnits)..((SliceEnd(p) - 1) \div ChunkUnits) : c \in Chunks
    BY <1>2, SlicePlace
<1> QED  BY <1>2, <1>3, <1>4, CipherTyped

LEMMA StoredEffect ==
    ASSUME Types, NEW p \in Procs, loc[p].url \in Urls, NEW n, Stored(p, n)
    PROVE  /\ \A u \in Urls \ {loc[p].url} : tus'[u] = tus[u]
           /\ tus' = [tus EXCEPT ![loc[p].url] = tus'[loc[p].url]]
           /\ tus'[loc[p].url] =
                 [state |-> IF Len(Grown(p, n)) = Size THEN "done" ELSE "open",
                  bytes |-> Grown(p, n)]
           /\ object' = IF Len(Grown(p, n)) = Size THEN Grown(p, n) ELSE object
           /\ UNCHANGED <<row, hashes, mpu, parts, patching>>
<1>1. tus \in [Urls -> TusUploads]
    BY DEF Types, ServerTypes
<1> QED  BY <1>1 DEF Stored, Grown

LEMMA StoredTypes ==
    ASSUME Types, NEW p \in Procs, loc[p].pc = "patch", loc[p].off = Len(tus[loc[p].url].bytes),
           NEW n \in 0..(SliceEnd(p) - loc[p].off), Stored(p, n),
           source' = source, faults' \in Nat, torn' \in BOOLEAN
    PROVE  ServerTypes' /\ NothingYet' /\ row' = row
<1> DEFINE v == loc[p].url
           g == Grown(p, n)
<1>1. v \in Urls
    BY SliceCiphers
<1>2. tus \in [Urls -> TusUploads] /\ \A u \in Urls : Len(tus[u].bytes) <= Size
    BY DEF Types, ServerTypes
<1>3. g \in Bytes /\ Len(g) <= Size
    <2>1. tus[v].bytes \in Bytes
        BY <1>1, <1>2 DEF TusUploads
    <2>2. g \in Seq(Ciphers) /\ Len(g) = loc[p].off + n /\ loc[p].off + n \in 0..Size
        BY <2>1, SliceCiphers, GrownTyped DEF Bytes
    <2> QED  BY <2>2 DEF Bytes
<1>4. /\ \A u \in Urls \ {v} : tus'[u] = tus[u]
      /\ tus' = [tus EXCEPT ![v] = tus'[v]]
      /\ tus'[v] = [state |-> IF Len(g) = Size THEN "done" ELSE "open", bytes |-> g]
      /\ object' = IF Len(g) = Size THEN g ELSE object
      /\ UNCHANGED <<row, hashes, mpu, parts, patching>>
    BY <1>1, StoredEffect
<1> HIDE DEF v, g
<1>5. tus'[v] \in TusUploads /\ tus'[v].bytes = g
    BY <1>3, <1>4 DEF TusUploads
<1>6. tus' \in [Urls -> TusUploads]
    BY <1>1, <1>2, <1>4, <1>5
<1>7. ASSUME NEW u \in Urls PROVE Len(tus'[u].bytes) <= Size
    BY <1>2, <1>3, <1>4, <1>5
<1>8. object' \in Bytes
    BY <1>3, <1>4 DEF Types, ServerTypes
<1>9. row.state # "absent"
    BY TypesOf DEF MemoryOK, Waiting
<1> QED  BY <1>4, <1>6, <1>7, <1>8, <1>9 DEF Types, ServerTypes, NothingYet

(* What a PATCH comes to. *)
LEMMA PatchCases ==
    ASSUME NEW p \in Procs, TusPatch(p)
    PROVE  /\ loc[p].pc = "patch" /\ Uncached(p) = {}
           /\ \/ Refused(p) /\ Calm
              \/ Goto(p, "head") /\ UNCHANGED server /\ Calm
              \/ /\ loc[p].off = Len(tus[loc[p].url].bytes)
                 /\ tus[loc[p].url].state \notin {"gone", "done"}
                 /\ tus[loc[p].url].state = "open" /\ SliceEnd(p) = Size => object = <<>>
                 /\ \/ /\ Stored(p, SliceEnd(p) - loc[p].off)
                       /\ OffsetGoes(p, SliceEnd(p),
                                     IF SliceEnd(p) = Size THEN "finish" ELSE "patch")
                       /\ Calm
                    \/ \E k \in 0..(SliceEnd(p) - loc[p].off) :
                          Stored(p, k) /\ Goto(p, "head") /\ Fault
BY DEF TusPatch, At, OffsetGoes

LEMMA PatchTypes == ASSUME Types, NEW p \in Procs, TusPatch(p) PROVE Types'
<1> DEFINE s == SliceEnd(p)
           o == loc[p].off
<1>1. /\ loc[p].pc = "patch" /\ MemoryOK(p, loc[p], row) /\ loc[p].url \in Urls /\ o \in 0..Size
    BY PatchCases, TypesOf, SliceCiphers
<1>2. s \in 0..Size /\ s - o \in 0..(s - o)
    BY <1>1, SlicePlace, Constants
<1>3. CASE Refused(p) /\ Calm
    BY <1>3, CalmTypes, RefusedTypes
<1>4. CASE Goto(p, "head") /\ UNCHANGED server /\ Calm
    <2>1. PICK y : Moved(p, y) /\ Differs(loc[p], y, {"pc"}) /\ y.pc = "head"
        BY <1>4, GotoMoves
    <2>2. MemoryOK(p, y, row)
        BY <1>1, <2>1, GotoKeeps DEF Waiting, Early, PCs
    <2> QED  BY <1>4, <2>1, <2>2, CalmTypes, LoneMemory
<1>5. CASE /\ o = Len(tus[loc[p].url].bytes) /\ Stored(p, s - o) /\ Calm
           /\ OffsetGoes(p, s, IF s = Size THEN "finish" ELSE "patch")
    <2> DEFINE l == IF s = Size THEN "finish" ELSE "patch"
    <2>1. l \in {"post", "finish", "patch"} /\ OffsetGoes(p, s, l)
        BY <1>5
    <2>2. ServerTypes' /\ NothingYet' /\ row' = row
        BY <1>1, <1>2, <1>5, CalmTypes, StoredTypes
    <2> HIDE DEF l, s
    <2>3. PICK y : Moved(p, y) /\ Differs(loc[p], y, {"off", "pc"}) /\ y.off = s /\ y.pc = l
        BY <2>1, OffsetMoves
    <2>4. MemoryOK(p, y, row)
        BY <1>1, <1>2, <2>1, <2>3, OffsetKeeps
    <2> QED  BY <2>2, <2>3, <2>4, AllMemory
<1>6. ASSUME NEW k \in 0..(s - o), o = Len(tus[loc[p].url].bytes), Stored(p, k), Goto(p, "head"), Fault
      PROVE  Types'
    <2>1. PICK y : Moved(p, y) /\ Differs(loc[p], y, {"pc"}) /\ y.pc = "head"
        BY <1>6, GotoMoves
    <2>2. MemoryOK(p, y, row)
        BY <1>1, <2>1, GotoKeeps DEF Waiting, Early, PCs
    <2>3. ServerTypes' /\ NothingYet' /\ row' = row
        BY <1>1, <1>6, FaultTypes, StoredTypes
    <2> QED  BY <2>1, <2>2, <2>3, AllMemory
<1> QED  BY <1>3, <1>4, <1>5, <1>6, PatchCases

LEMMA FinishTypes == ASSUME Types, NEW p \in Procs, Finish(p) PROVE Types'
<1>1. /\ source' = source /\ faults' \in Nat /\ torn' \in BOOLEAN
      /\ UNCHANGED <<hashes, mpu, parts, tus, object, patching>>
      /\ row' = [row EXCEPT !.state = "complete", !.sha = source[p]]
    BY CalmTypes DEF Finish
<1>2. source[p] \in Contents
    BY DEF Types, ServerTypes, Contents
<1>3. row \in Rows /\ RowOK(row) /\ row.state # "absent"
    <2>1. MemoryOK(p, loc[p], row) /\ loc[p].pc = "finish"
        BY TypesOf DEF Finish, At
    <2> QED  BY <2>1, TypesOf DEF MemoryOK, Waiting
<1>4. RowOK(row') /\ row'.key = row.key /\ row'.state = "complete"
    BY <1>1, <1>2, <1>3 DEF RowOK, Rows
<1>5. Moved(p, Process("done", None)) /\ MemoryOK(p, Process("done", None), row')
    BY OverMoves, ProcessOK DEF Finish, Waiting
<1>6. ServerTypes' /\ NothingYet'
    BY <1>1, <1>4 DEF Types, ServerTypes, NothingYet
<1> QED  BY <1>3, <1>4, <1>5, <1>6, AllMemory

LEMMA StopTypes == ASSUME Types, NEW p \in Procs, Stop(p) PROVE Types'
<1>1. source' = source /\ faults' \in Nat /\ torn' \in BOOLEAN
    BY DEF Stop, Types, ServerTypes, Tears
<1> QED  BY <1>1, RefusedTypes DEF Stop

LEMMA ExpireTypes == ASSUME Types, NEW u \in Urls, TusExpire(u) PROVE Types'
<1>1. /\ source' = source /\ faults' \in Nat /\ torn' \in BOOLEAN
      /\ UNCHANGED <<row, hashes, mpu, parts, object, patching, loc>>
      /\ tus' = [tus EXCEPT ![u] = [state |-> "gone", bytes |-> <<>>]]
    BY FaultTypes DEF TusExpire
<1>2. [state |-> "gone", bytes |-> <<>>] \in TusUploads /\ Len(<<>>) <= Size
    BY Constants DEF TusUploads, Bytes
<1>3. tus' \in [Urls -> TusUploads]
    BY <1>1, <1>2 DEF Types, ServerTypes
<1>4. \A v \in Urls : tus'[v].bytes = tus[v].bytes \/ tus'[v].bytes = <<>>
    BY <1>1 DEF Types, ServerTypes
<1>5. \A v \in Urls : Len(tus'[v].bytes) <= Size
    BY <1>2, <1>4 DEF Types, ServerTypes
<1>6. ServerTypes' /\ NothingYet'
    BY <1>1, <1>3, <1>4, <1>5 DEF Types, ServerTypes, NothingYet
<1> QED  BY <1>1, <1>6, NoMemory

LEMMA InitTypes == ASSUME Init PROVE Types
<1>1. RowOK(row) /\ row.state = "absent"
    BY DEF Init, RowOK, Rows
<1>2. /\ tus \in [Urls -> TusUploads]
      /\ \A u \in Urls : tus[u].bytes = <<>> /\ Len(tus[u].bytes) <= Size
    BY Constants DEF Init, TusUploads, Bytes
<1>3. hashes \in [Chunks -> Ciphers \cup {None}] /\ mpu \in [Procs -> {"none", "open", "done"}]
    BY DEF Init
<1>4. parts \in [Procs -> PartLists]
    BY EmptyList DEF Init
<1>5. object \in Bytes /\ patching \subseteq Urls /\ faults \in Nat
    BY DEF Init, Bytes
<1>6. torn \in BOOLEAN
    BY Zenon DEF Init
<1>7. ServerTypes /\ NothingYet
    BY <1>1, <1>2, <1>3, <1>4, <1>5, <1>6 DEF ServerTypes, NothingYet, Init
<1>8. ASSUME NEW p \in Procs PROVE MemoryOK(p, loc[p], row)
    <2>1. loc[p] = Process("fresh", None)
        BY DEF Init
    <2> QED  BY <2>1, ProcessOK DEF Waiting
<1>9. loc \in [Procs -> {loc[p] : p \in Procs}]
    BY DEF Init
<1> QED  BY <1>7, <1>8, <1>9 DEF Types

LEMMA TypesStep == ASSUME Types, [Next]_vars PROVE Types'
<1>1. ASSUME UNCHANGED vars PROVE Types'
    <2>1. UNCHANGED <<source, row, hashes, mpu, parts, tus, object, patching, loc, faults, torn>>
        BY <1>1 DEF vars, server
    <2> QED  BY <2>1, NoMemory DEF Types, ServerTypes, NothingYet
<1>2. ASSUME NEW p \in Procs, ProcStep(p) PROVE Types'
    BY <1>2, StartUploadTypes, InsertTypes, CreateTypes, PatchIdTypes, ResumeTypes, ListTypes,
       HashTypes, PartTypes, FetchTypes, CompleteTypes, PostTypes, HeadTypes, TusHashTypes,
       PatchTypes, FinishTypes DEF ProcStep
<1> QED  BY <1>1, <1>2, StopTypes, SaveTypes, ExpireTypes DEF Next, Quiet

(* Type correctness, for any number of processes and TUS uploads: every     *)
(* offset is inside the object, every part number and chunk exists.         *)
THEOREM TypeCorrect == Spec => []TypeOK
<1>1. Types => TypeOK
    <2> SUFFICES ASSUME Types PROVE TypeOK
        OBVIOUS
    <2>1. source \in Sources /\ row \in Rows /\ object \in Bytes /\ patching \subseteq Urls
        BY DEF Types, ServerTypes, RowOK
    <2>2. \A c \in Chunks : hashes[c] = None \/ hashes[c] \in Ciphers
        BY DEF Types, ServerTypes
    <2>3. \A p \in Procs : \A n \in PartNumbers : parts[p][n] \in Bytes
        BY DEF Types, ServerTypes, PartLists
    <2>4. \A u \in Urls : /\ tus[u].state \in {"none", "open", "done", "gone"}
                          /\ tus[u].bytes \in Bytes /\ Len(tus[u].bytes) <= Size
        BY DEF Types, ServerTypes, TusUploads
    <2>5. \A p \in Procs : MemoryTypes(loc[p])
        BY TypesOf
    <2> QED  BY <2>1, <2>2, <2>3, <2>4, <2>5 DEF TypeOK, MemoryTypes, Types, ServerTypes, Rows
<1> QED  BY <1>1, InitTypes, TypesStep, PTL DEF Spec

-----------------------------------------------------------------------------
(* Hashes. *)

LEMMA OneFile ==
    ASSUME OneSource, NEW p \in Procs
    PROVE  source[p] = File
BY DEF OneSource, File

LEMMA CipherIs ==
    ASSUME Types, OneSource, NEW p \in Procs, loc[p].pc \notin Waiting, NEW c
    PROVE  Cipher(p, c) = Ref(row.key, File, c)
<1>1. loc[p].key = row.key
    BY TypesOf DEF MemoryOK
<1> QED  BY <1>1, OneFile DEF Cipher, Ref

LEMMA DescribedGrows ==
    ASSUME NEW k, NEW f, NEW h, NEW g, Known(k, f, h) \subseteq Known(k, f, g)
    PROVE  Described(k, f, h) \subseteq Described(k, f, g)
BY DEF Described

LEMMA MemoryGrows ==
    ASSUME NEW q, NEW x, NEW K, NEW D, NEW J, NEW E, K \subseteq J, D \subseteq E,
           MemoryHashed(q, x, K, D)
    PROVE  MemoryHashed(q, x, J, E)
<1>1. \A n \in PartNumbers : x.uploaded[n] \in Seq(E) /\ x.etags[n] \in Seq(E)
    BY SeqLarger DEF MemoryHashed
<1> QED  BY <1>1 DEF MemoryHashed

(* After a step of process p that took nothing out of asset_chunks. *)
LEMMA HashedAfter ==
    ASSUME Types, Hashed, source' = source, row'.key = row.key,
           KnownNow \subseteq Known(row.key, File, hashes'),
           NEW p \in Procs, NEW y, Moved(p, y),
           MemoryHashed(p, y, Known(row.key, File, hashes'), Described(row.key, File, hashes')),
           \A q \in Procs, n \in PartNumbers : parts'[q][n] \in Seq(Described(row.key, File, hashes')),
           \A u \in Urls : tus'[u].bytes \in Seq(Described(row.key, File, hashes')),
           object' \in Seq(Described(row.key, File, hashes'))
    PROVE  Hashed'
<1> DEFINE K == Known(row.key, File, hashes')
           D == Described(row.key, File, hashes')
<1>1. KnownNow' = K /\ DescribedNow' = D
    BY DEF KnownNow, DescribedNow, File
<1>2. KnownNow \subseteq K /\ DescribedNow \subseteq D
    BY DescribedGrows DEF KnownNow, DescribedNow
<1> HIDE DEF K, D
<1>3. ASSUME NEW q \in Procs PROVE MemoryHashed(q, loc'[q], K, D)
    <2>1. loc'[q] = IF q = p THEN y ELSE loc[q]
        BY DEF Moved
    <2>2. MemoryHashed(q, loc[q], K, D)
        BY <1>2, MemoryGrows DEF Hashed
    <2> QED  BY <2>1, <2>2 DEF K, D
<1> QED  BY <1>1, <1>3 DEF Hashed, K, D

(* After a step that leaves asset_chunks and storage alone. *)
LEMMA HashedSame ==
    ASSUME Types, Hashed, source' = source, row'.key = row.key,
           UNCHANGED <<hashes, parts, object>>,
           \A u \in Urls : tus'[u].bytes \in {tus[u].bytes, <<>>},
           NEW p \in Procs, NEW y, Moved(p, y), MemoryHashed(p, y, KnownNow, DescribedNow)
    PROVE  Hashed'
<1>1. /\ Known(row.key, File, hashes') = KnownNow
      /\ Described(row.key, File, hashes') = DescribedNow
    BY DEF KnownNow, DescribedNow
<1>2. /\ \A q \in Procs, n \in PartNumbers : parts'[q][n] \in Seq(DescribedNow)
      /\ object' \in Seq(DescribedNow)
    BY DEF Hashed
<1>3. ASSUME NEW u \in Urls PROVE tus'[u].bytes \in Seq(DescribedNow)
    <2>1. tus[u].bytes \in Seq(DescribedNow) /\ <<>> \in Seq(DescribedNow)
        BY DEF Hashed
    <2> QED  BY <2>1
<1> QED  BY <1>1, <1>2, <1>3, HashedAfter

LEMMA HashedAlone ==
    ASSUME Types, Hashed, source' = source, row'.key = row.key,
           UNCHANGED <<hashes, parts, object, loc>>,
           \A u \in Urls : tus'[u].bytes \in {tus[u].bytes, <<>>}
    PROVE  Hashed'
<1>1. KnownNow' = KnownNow /\ DescribedNow' = DescribedNow
    BY DEF KnownNow, DescribedNow, File
<1>2. ASSUME NEW u \in Urls PROVE tus'[u].bytes \in Seq(DescribedNow)
    <2>1. tus[u].bytes \in Seq(DescribedNow) /\ <<>> \in Seq(DescribedNow)
        BY DEF Hashed
    <2> QED  BY <2>1
<1> QED  BY <1>1, <1>2 DEF Hashed

LEMMA NothingHashed ==
    ASSUME NEW p, NEW x, x.uploaded = NoParts, x.etags = NoParts, x.cache = {}, x.pc # "send",
           NEW K, NEW D
    PROVE  MemoryHashed(p, x, K, D)
<1>1. <<>> \in Seq(D)
    OBVIOUS
<1> QED  BY <1>1, EmptyList DEF MemoryHashed

LEMMA FreshHashed ==
    ASSUME NEW p, NEW l, l # "send", NEW k, NEW K, NEW D
    PROVE  MemoryHashed(p, Process(l, k), K, D)
<1> DEFINE x == Process(l, k)
<1>1. x.pc = l /\ x.uploaded = NoParts /\ x.etags = NoParts /\ x.cache = {}
    BY DEF Process
<1> HIDE DEF x
<1>2. MemoryHashed(p, x, K, D)
    BY <1>1, NothingHashed
<1> QED  BY <1>2 DEF x

(* Moving on with the same parts and chunks in memory. *)
LEMMA HashedKept ==
    ASSUME NEW p, NEW x, NEW y, NEW K, NEW D, MemoryHashed(p, x, K, D),
           y.uploaded = x.uploaded, y.etags = x.etags, y.cache = x.cache, y.pc # "send"
    PROVE  MemoryHashed(p, y, K, D)
BY DEF MemoryHashed

LEMMA RefusedHashed ==
    ASSUME Types, Hashed, NEW p \in Procs, Refused(p), source' = source
    PROVE  Hashed'
<1>1. UNCHANGED <<row, hashes, parts, tus, object>>
    BY DEF Refused, server
<1>2. MemoryHashed(p, Process("idle", None), KnownNow, DescribedNow)
    BY FreshHashed
<1> QED  BY <1>1, <1>2, OverMoves, HashedSame DEF Refused

LEMMA UpsertKnown ==
    ASSUME Types, OneSource, NEW p \in Procs, loc[p].pc \notin Waiting,
           NEW cs, cs \subseteq Chunks, UpsertChunks(p, cs)
    PROVE  /\ KnownNow \subseteq Known(row.key, File, hashes')
           /\ cs \subseteq Known(row.key, File, hashes')
<1>1. \A c \in Chunks : hashes'[c] = IF c \in cs THEN Ref(row.key, File, c) ELSE hashes[c]
    BY CipherIs DEF UpsertChunks
<1> QED  BY <1>1 DEF KnownNow, Known

(* Storage after chunks were hashed is described too. *)
LEMMA StorageGrows ==
    ASSUME Hashed, KnownNow \subseteq Known(row.key, File, hashes'), UNCHANGED <<parts, tus, object>>
    PROVE  /\ \A q \in Procs, n \in PartNumbers :
                  parts'[q][n] \in Seq(Described(row.key, File, hashes'))
           /\ \A u \in Urls : tus'[u].bytes \in Seq(Described(row.key, File, hashes'))
           /\ object' \in Seq(Described(row.key, File, hashes'))
<1> DEFINE D == Described(row.key, File, hashes')
<1>1. DescribedNow \subseteq D
    BY DescribedGrows DEF KnownNow, DescribedNow
<1> HIDE DEF D
<1>2. \A s \in Seq(DescribedNow) : s \in Seq(D)
    BY <1>1, SeqLarger
<1>3. /\ \A q \in Procs, n \in PartNumbers : parts'[q][n] \in Seq(D)
      /\ \A u \in Urls : tus'[u].bytes \in Seq(D)
      /\ object' \in Seq(D)
    BY <1>2 DEF Hashed
<1> QED  BY <1>3 DEF D

LEMMA InsertHashed == ASSUME Types, NEW p \in Procs, InsertAsset(p), OneSource, Hashed PROVE Hashed'
<1>0. source' = source
    BY CalmTypes DEF InsertAsset
<1>1. CASE row.state # "absent"
    BY <1>0, <1>1, RefusedHashed DEF InsertAsset
<1>2. CASE row.state = "absent"
    <2>1. PICK m \in Methods : Inserted(p, m)
        BY <1>2 DEF InsertAsset
    <2>2. /\ UNCHANGED <<parts, tus, object>>
          /\ Goto(p, IF m = "tus" THEN "post" ELSE "open")
        BY <2>1 DEF Inserted
    <2> DEFINE l == IF m = "tus" THEN "post" ELSE "open"
    <2>3. PICK y : Moved(p, y) /\ Differs(loc[p], y, {"pc"}) /\ y.pc = l
        BY <2>2, GotoMoves
    <2>4. /\ y.uploaded = loc[p].uploaded /\ y.etags = loc[p].etags /\ y.cache = loc[p].cache
          /\ y.pc # "send"
        BY <2>3 DEF Differs, Fields
    <2> DEFINE D == DescribedNow'
               K == KnownNow'
    <2> HIDE DEF D, K
    <2>5. <<>> \in Seq(D)
        OBVIOUS
    <2>6. \A q \in Procs, n \in PartNumbers : parts[q][n] = <<>>
        BY <1>2, EmptyList DEF Types, NothingYet
    <2>7. (\A u \in Urls : tus[u].bytes = <<>>) /\ object = <<>>
        BY <1>2 DEF Types, NothingYet
    <2>8. ASSUME NEW q \in Procs PROVE MemoryHashed(q, loc'[q], K, D)
        <3>1. loc'[q] = IF q = p THEN y ELSE loc[q]
            BY <2>3 DEF Moved
        <3>2. /\ loc[q].uploaded = NoParts /\ loc[q].etags = NoParts /\ loc[q].cache = {}
              /\ loc[q].pc # "send"
            BY <1>2, TypesOf DEF MemoryOK, Waiting
        <3>3. /\ loc'[q].uploaded = NoParts /\ loc'[q].etags = NoParts /\ loc'[q].cache = {}
              /\ loc'[q].pc # "send"
            BY <2>4, <3>1, <3>2
        <3> QED  BY <3>3, NothingHashed
    <2> QED  BY <2>2, <2>5, <2>6, <2>7, <2>8 DEF Hashed, D, K
<1> QED  BY <1>1, <1>2

LEMMA HashedOf ==
    ASSUME Hashed, NEW p \in Procs
    PROVE  /\ MemoryHashed(p, loc[p], KnownNow, DescribedNow)
           /\ \A n \in PartNumbers : /\ loc[p].uploaded[n] \in Seq(DescribedNow)
                                     /\ loc[p].etags[n] \in Seq(DescribedNow)
           /\ loc[p].cache \subseteq KnownNow
BY DEF Hashed, MemoryHashed

(* Steps that change nothing but the place and what was read of the row. *)
LEMMA LightHashed ==
    ASSUME Types, Hashed, NEW p \in Procs,
           \/ StartUpload(p) \/ CreateMultipartUpload(p) \/ PatchUploadId(p) \/ StartResume(p)
           \/ TusHead(p) \/ Finish(p) \/ Stop(p)
    PROVE  Hashed'
<1>1. CASE StartUpload(p)
    <2>1. source' = source /\ UNCHANGED <<row, hashes, parts, tus, object>>
        BY <1>1 DEF StartUpload, server, Calm
    <2>2. Moved(p, Process("insert", p))
        BY <1>1, IsFunction DEF StartUpload, Moved
    <2> QED  BY <2>1, <2>2, FreshHashed, HashedSame
<1>2. CASE CreateMultipartUpload(p)
    <2>1. source' = source /\ UNCHANGED <<row, hashes, parts, tus, object>>
        BY <1>2 DEF CreateMultipartUpload, Calm
    <2>2. PICK y : Moved(p, y) /\ Differs(loc[p], y, {"id", "pc"}) /\ y.id = p /\ y.pc = "patchId"
        BY <1>2, CreateMoves
    <2>3. y.uploaded = loc[p].uploaded /\ y.etags = loc[p].etags /\ y.cache = loc[p].cache
        BY <2>2 DEF Differs, Fields
    <2> QED  BY <2>1, <2>2, <2>3, HashedOf, HashedKept, HashedSame
<1>3. CASE PatchUploadId(p)
    <2>1. source' = source /\ UNCHANGED <<hashes, parts, tus, object>>
        BY <1>3 DEF PatchUploadId, Calm
    <2>2. row'.key = row.key
        BY <1>3, TypesOf DEF PatchUploadId, Rows
    <2>3. PICK y : Moved(p, y) /\ Differs(loc[p], y, {"pc"}) /\ y.pc = "hash"
        BY <1>3, GotoMoves DEF PatchUploadId
    <2>4. y.uploaded = loc[p].uploaded /\ y.etags = loc[p].etags /\ y.cache = loc[p].cache
        BY <2>3 DEF Differs, Fields
    <2> QED  BY <2>1, <2>2, <2>3, <2>4, HashedOf, HashedKept, HashedSame
<1>4. CASE StartResume(p)
    <2>1. source' = source /\ UNCHANGED <<row, hashes, parts, tus, object>>
        BY <1>4 DEF StartResume, server, Calm
    <2>2. PICK y : /\ Moved(p, y) /\ y.cache = {} /\ y.uploaded = NoParts /\ y.etags = NoParts
                   /\ y.pc # "send"
        BY <1>4, ResumeMoves
    <2> QED  BY <2>1, <2>2, NothingHashed, HashedSame
<1>5. CASE TusHead(p)
    <2>1. source' = source /\ UNCHANGED <<row, hashes, parts, tus, object>>
        BY <1>5 DEF TusHead, server, Calm
    <2> DEFINE u == tus[loc[p].url]
               o == Len(u.bytes)
               l == IF u.state = "gone" THEN "post" ELSE IF u.state = "done" THEN "finish" ELSE "patch"
    <2>2. OffsetGoes(p, o, l) /\ l # "send"
        BY <1>5 DEF TusHead, OffsetGoes
    <2> HIDE DEF o, l, u
    <2>3. PICK y : Moved(p, y) /\ Differs(loc[p], y, {"off", "pc"}) /\ y.off = o /\ y.pc = l
        BY <2>2, OffsetMoves
    <2>4. y.uploaded = loc[p].uploaded /\ y.etags = loc[p].etags /\ y.cache = loc[p].cache
        BY <2>3 DEF Differs, Fields
    <2> QED  BY <2>1, <2>2, <2>3, <2>4, HashedOf, HashedKept, HashedSame
<1>6. CASE Finish(p)
    <2>1. source' = source /\ UNCHANGED <<hashes, parts, tus, object>>
        BY <1>6 DEF Finish, Calm
    <2>2. row'.key = row.key
        BY <1>6, TypesOf DEF Finish, Rows
    <2>3. Moved(p, Process("done", None))
        BY <1>6, OverMoves DEF Finish
    <2> QED  BY <2>1, <2>2, <2>3, FreshHashed, HashedSame
<1>7. CASE Stop(p)
    BY <1>7, RefusedHashed DEF Stop
<1> QED  BY <1>1, <1>2, <1>3, <1>4, <1>5, <1>6, <1>7

LEMMA ListHashed == ASSUME Types, NEW p \in Procs, ListParts(p), Hashed PROVE Hashed'
<1>1. CASE ~Open(p)
    BY <1>1, CalmTypes, RefusedHashed DEF ListParts
<1>2. CASE Open(p)
    <2>1. source' = source /\ UNCHANGED <<row, hashes, parts, tus, object>>
        BY <1>2 DEF ListParts, server, Calm
    <2>2. PICK y : /\ Moved(p, y) /\ Differs(loc[p], y, {"uploaded", "pc"})
                   /\ y.uploaded = parts[loc[p].id] /\ y.pc = "hash"
        BY <1>2, ListMoves
    <2>3. y.etags = loc[p].etags /\ y.cache = loc[p].cache
        BY <2>2 DEF Differs, Fields
    <2>4. loc[p].id \in Procs
        BY <1>2, TypesOf DEF Open, MemoryTypes
    <2>5. \A n \in PartNumbers : y.uploaded[n] \in Seq(DescribedNow)
        BY <2>2, <2>4 DEF Hashed
    <2>6. MemoryHashed(p, y, KnownNow, DescribedNow)
        BY <2>2, <2>3, <2>5, HashedOf DEF MemoryHashed
    <2> QED  BY <2>1, <2>2, <2>6, HashedSame
<1> QED  BY <1>1, <1>2

(* On to the next part with ETags E. *)
LEMMA NextHashed ==
    ASSUME Types, NEW p \in Procs, NEW E, NextPart(p, E), NEW K, NEW D,
           MemoryHashed(p, loc[p], K, D), \A n \in PartNumbers : E[n] \in Seq(D)
    PROVE  \E y : Moved(p, y) /\ MemoryHashed(p, y, K, D)
<1>1. PICK y : /\ Moved(p, y) /\ Differs(loc[p], y, {"etags", "part", "pc"})
               /\ y.etags = E /\ y.pc # "send"
    BY NextMoves
<1>2. y.uploaded = loc[p].uploaded /\ y.cache = loc[p].cache
    BY <1>1 DEF Differs, Fields
<1>3. MemoryHashed(p, y, K, D)
    BY <1>1, <1>2 DEF MemoryHashed
<1> QED  BY <1>1, <1>3

LEMMA HashHashed == ASSUME Types, NEW p \in Procs, HashPart(p), OneSource, Hashed PROVE Hashed'
<1> DEFINE n == loc[p].part + 1
           K == Known(row.key, File, hashes')
           D == Described(row.key, File, hashes')
           cs == FirstChunk(p)..LastChunk(p)
<1>1. /\ loc[p].pc = "hash" /\ MemoryOK(p, loc[p], row) /\ MemoryTypes(loc[p])
      /\ loc[p].part < PartCount(p) /\ loc[p].part \in Nat
    BY TypesOf, Constants DEF HashPart, At, MemoryOK, MemoryTypes
<1>2. n \in PartNumbers /\ cs \subseteq Chunks
    BY <1>1, PartPlace, Constants DEF Chunks
<1>3. source' = source /\ UNCHANGED <<row, parts, tus, object>>
    BY DEF HashPart, Calm
<1>4. KnownNow \subseteq K /\ cs \subseteq K
    BY <1>1, <1>2, UpsertKnown DEF HashPart, Waiting
<1>5. DescribedNow \subseteq D
    BY <1>4, DescribedGrows DEF KnownNow, DescribedNow
<1>6. MemoryHashed(p, loc[p], K, D)
    BY <1>4, <1>5, HashedOf, MemoryGrows
<1>7. /\ \A q \in Procs, m \in PartNumbers : parts'[q][m] \in Seq(D)
      /\ \A u \in Urls : tus'[u].bytes \in Seq(D)
      /\ object' \in Seq(D)
    BY <1>3, <1>4, StorageGrows
<1>8. \E y : Moved(p, y) /\ MemoryHashed(p, y, K, D)
    <2>1. CASE loc[p].uploaded[n] # <<>>
        <3> DEFINE E == [loc[p].etags EXCEPT ![n] = loc[p].uploaded[n]]
        <3>1. NextPart(p, E)
            BY <2>1 DEF HashPart
        <3> HIDE DEF K, D
        <3>2. \A m \in PartNumbers : E[m] \in Seq(D)
            BY <1>1, <1>2, <1>6 DEF MemoryHashed, MemoryTypes, PartLists
        <3> HIDE DEF E
        <3> QED  BY <1>6, <3>1, <3>2, NextHashed
    <2>2. CASE loc[p].uploaded[n] = <<>>
        <3>1. PICK y : Moved(p, y) /\ Differs(loc[p], y, {"pc"}) /\ y.pc = "send"
            BY <2>2, GotoMoves DEF HashPart
        <3>2. /\ y.uploaded = loc[p].uploaded /\ y.etags = loc[p].etags /\ y.cache = loc[p].cache
              /\ y.part = loc[p].part
            BY <3>1 DEF Differs, Fields
        <3> HIDE DEF K, D
        <3>3. ASSUME NEW c \in Chunks, y.part * PartChunks[p] <= c,
                     c < y.part * PartChunks[p] + PartChunks[p]
              PROVE  c \in K
            <4>1. FirstChunk(p) <= c /\ c < FirstChunk(p) + PartChunks[p]
                BY <3>2, <3>3 DEF FirstChunk
            <4> QED  BY <1>1, <1>4, <4>1, PartPlace
        <3>4. MemoryHashed(p, y, K, D)
            BY <1>6, <3>2, <3>3 DEF MemoryHashed
        <3> QED  BY <3>1, <3>4
    <2> QED  BY <2>1, <2>2
<1>9. PICK y : Moved(p, y) /\ MemoryHashed(p, y, K, D)
    BY <1>8
<1> QED  BY <1>3, <1>4, <1>7, <1>9, HashedAfter

LEMMA PartHashed == ASSUME Types, NEW p \in Procs, UploadPart(p), OneSource, Hashed PROVE Hashed'
<1> DEFINE n == loc[p].part + 1
<1>0. source' = source
    BY DEF UploadPart, Calm
<1>1. CASE ~Open(p)
    BY <1>0, <1>1, RefusedHashed DEF UploadPart
<1>2. CASE Open(p)
    <2>1. /\ loc[p].pc = "send" /\ MemoryTypes(loc[p])
          /\ loc[p].part < PartCount(p) /\ loc[p].part \in Nat
        BY TypesOf, Constants DEF UploadPart, At, MemoryOK, MemoryTypes
    <2>2. n \in PartNumbers /\ loc[p].id \in Procs
        BY <1>2, <2>1, PartPlace DEF MemoryTypes, Open
    <2>3. PartBytes(p) \in Seq(DescribedNow)
        <3>1. ASSUME NEW c \in FirstChunk(p)..LastChunk(p) PROVE Cipher(p, c) \in DescribedNow
            <4>1. c \in Chunks
                BY <2>1, PartPlace, Constants DEF Chunks
            <4>2. loc[p].part * PartChunks[p] <= c /\ c < loc[p].part * PartChunks[p] + PartChunks[p]
                BY <2>1, <4>1, PartPlace DEF FirstChunk
            <4>3. c \in KnownNow
                BY <2>1, <4>1, <4>2, HashedOf DEF MemoryHashed
            <4>4. Cipher(p, c) = Ref(row.key, File, c)
                BY <2>1, CipherIs DEF Waiting
            <4> QED  BY <4>3, <4>4 DEF DescribedNow, KnownNow, Described
        <3> QED  BY <2>1, <3>1, PartTyped
    <2>4. PICK b \in {PartBytes(p), <<>>} : NextPart(p, [loc[p].etags EXCEPT ![n] = b])
        BY <1>2 DEF UploadPart
    <2>5. b \in Seq(DescribedNow)
        <3>1. <<>> \in Seq(DescribedNow)
            OBVIOUS
        <3> QED  BY <2>3, <3>1
    <2> DEFINE E == [loc[p].etags EXCEPT ![n] = b]
    <2>6. \A m \in PartNumbers : E[m] \in Seq(DescribedNow)
        BY <2>1, <2>2, <2>5, HashedOf DEF MemoryTypes, PartLists
    <2> HIDE DEF E
    <2>7. PICK y : Moved(p, y) /\ MemoryHashed(p, y, KnownNow, DescribedNow)
        BY <2>4, <2>6, HashedOf, NextHashed DEF E
    <2>8. /\ parts' = [parts EXCEPT ![loc[p].id][n] = PartBytes(p)]
          /\ UNCHANGED <<row, hashes, tus, object>>
        BY <1>2 DEF UploadPart
    <2>9. \A q \in Procs, m \in PartNumbers : parts'[q][m] \in Seq(DescribedNow)
        BY <2>2, <2>3, <2>8 DEF Hashed, Types, ServerTypes, PartLists
    <2>10. /\ Known(row.key, File, hashes') = KnownNow
           /\ Described(row.key, File, hashes') = DescribedNow
        BY <2>8 DEF KnownNow, DescribedNow
    <2>11. (\A u \in Urls : tus'[u].bytes \in Seq(DescribedNow)) /\ object' \in Seq(DescribedNow)
        BY <2>8 DEF Hashed
    <2> QED  BY <1>0, <2>7, <2>8, <2>9, <2>10, <2>11, HashedAfter
<1> QED  BY <1>1, <1>2

LEMMA FetchHashed == ASSUME Types, NEW p \in Procs, FetchEtags(p), Hashed PROVE Hashed'
<1>0. source' = source
    BY DEF FetchEtags, Calm
<1>1. CASE Refused(p)
    BY <1>0, <1>1, RefusedHashed
<1>2. CASE ~Refused(p)
    <2>1. UNCHANGED <<row, hashes, parts, tus, object>> /\ Open(p)
        BY <1>2, FetchMoves DEF server
    <2>2. PICK y : /\ Moved(p, y) /\ Differs(loc[p], y, {"etags", "pc"})
                   /\ y.etags = Filled(p) /\ y.pc = "complete"
        BY <1>2, FetchMoves
    <2>3. y.uploaded = loc[p].uploaded /\ y.cache = loc[p].cache
        BY <2>2 DEF Differs, Fields
    <2>4. loc[p].id \in Procs
        BY <2>1, TypesOf DEF Open, MemoryTypes
    <2>5. ASSUME NEW n \in PartNumbers PROVE y.etags[n] \in Seq(DescribedNow)
        <3>1. parts[loc[p].id][n] \in Seq(DescribedNow) /\ loc[p].etags[n] \in Seq(DescribedNow)
            BY <2>4, HashedOf DEF Hashed
        <3> QED  BY <2>2, <3>1 DEF Filled
    <2>6. MemoryHashed(p, y, KnownNow, DescribedNow)
        BY <2>2, <2>3, <2>5, HashedOf DEF MemoryHashed
    <2> QED  BY <1>0, <2>1, <2>2, <2>6, HashedSame
<1> QED  BY <1>1, <1>2

(* A new object, or a longer TUS upload, of described bytes. *)
LEMMA HashedStored ==
    ASSUME Types, Hashed, UNCHANGED <<source, hashes, parts>>, row'.key = row.key,
           \A u \in Urls : tus'[u].bytes \in Seq(DescribedNow), object' \in Seq(DescribedNow),
           NEW p \in Procs, NEW y, Moved(p, y), MemoryHashed(p, y, KnownNow, DescribedNow)
    PROVE  Hashed'
<1>1. /\ Known(row.key, File, hashes') = KnownNow
      /\ Described(row.key, File, hashes') = DescribedNow
    BY DEF KnownNow, DescribedNow
<1>2. \A q \in Procs, n \in PartNumbers : parts'[q][n] \in Seq(DescribedNow)
    BY DEF Hashed
<1> QED  BY <1>1, <1>2, HashedAfter

LEMMA CompleteHashed == ASSUME Types, NEW p \in Procs, CompleteMultipartUpload(p), Hashed PROVE Hashed'
<1>0. source' = source
    BY DEF CompleteMultipartUpload, Calm
<1>1. CASE ~Completable(p)
    BY <1>0, <1>1, RefusedHashed DEF CompleteMultipartUpload
<1>2. CASE Completable(p)
    <2>1. PICK y : Moved(p, y) /\ Differs(loc[p], y, {"pc"}) /\ y.pc = "finish"
        BY <1>2, GotoMoves DEF CompleteMultipartUpload
    <2>2. y.uploaded = loc[p].uploaded /\ y.etags = loc[p].etags /\ y.cache = loc[p].cache
        BY <2>1 DEF Differs, Fields
    <2>3. MemoryHashed(p, y, KnownNow, DescribedNow)
        BY <2>1, <2>2, HashedOf, HashedKept
    <2>4. object' = Assembled(p) /\ UNCHANGED <<row, hashes, parts, tus>>
        BY <1>2 DEF CompleteMultipartUpload
    <2>5. object' \in Seq(DescribedNow)
        BY <2>4, HashedOf, AssembledTyped
    <2>6. \A u \in Urls : tus'[u].bytes \in Seq(DescribedNow)
        BY <2>4 DEF Hashed
    <2> QED  BY <1>0, <2>1, <2>3, <2>4, <2>5, <2>6, HashedStored
<1> QED  BY <1>1, <1>2

LEMMA PostHashed == ASSUME Types, NEW p \in Procs, TusPost(p), Hashed PROVE Hashed'
<1>1. CASE object # <<>>
    BY <1>1, RefusedHashed DEF TusPost, Calm
<1>2. CASE object = <<>>
    <2>1. NewUrl \in Urls
        BY <1>2, UnusedUrl DEF TusPost
    <2>2. /\ tus' = [tus EXCEPT ![NewUrl].state = "open"]
          /\ UNCHANGED <<row, hashes, mpu, parts, object>>
        BY <1>2 DEF TusPost
    <2>3. \A v \in Urls : tus'[v].bytes = tus[v].bytes
        BY <2>1, <2>2 DEF Types, ServerTypes, TusUploads
    <2>4. CASE UNCHANGED <<loc, patching>> /\ Fault
        BY <2>2, <2>3, <2>4, HashedAlone DEF Fault
    <2>5. CASE /\ loc' = [loc EXCEPT ![p].url = NewUrl, ![p].off = 0, ![p].pc = "patch"]
               /\ Calm
        <3>1. PICK y : Moved(p, y) /\ Differs(loc[p], y, {"url", "off", "pc"}) /\ y.pc = "patch"
            BY <2>5, PostMoves
        <3>2. y.uploaded = loc[p].uploaded /\ y.etags = loc[p].etags /\ y.cache = loc[p].cache
            BY <3>1 DEF Differs, Fields
        <3>3. MemoryHashed(p, y, KnownNow, DescribedNow)
            BY <3>1, <3>2, HashedOf, HashedKept
        <3> QED  BY <2>2, <2>3, <2>5, <3>1, <3>3, HashedSame DEF Calm
    <2> QED  BY <1>2, <2>4, <2>5 DEF TusPost
<1> QED  BY <1>1, <1>2

LEMMA TusHashHashed == ASSUME Types, NEW p \in Procs, TusHash(p), OneSource, Hashed PROVE Hashed'
<1> DEFINE i == Min(Uncached(p))
           K == Known(row.key, File, hashes')
           D == Described(row.key, File, hashes')
<1>1. loc[p].pc = "patch" /\ loc[p].off \in 0..Size
    BY TypesOf DEF TusHash, At, MemoryTypes
<1>2. i \in Chunks
    BY <1>1, UncachedLeast DEF TusHash
<1>3. UpsertChunks(p, {i}) /\ source' = source /\ UNCHANGED <<row, parts, tus, object>>
    BY DEF TusHash, Calm
<1>4. PICK y : Moved(p, y) /\ Differs(loc[p], y, {"cache"}) /\ y.cache \subseteq loc[p].cache \cup {i}
    BY CacheMoves DEF TusHash
<1> HIDE DEF i
<1>5. KnownNow \subseteq K /\ {i} \subseteq K
    BY <1>1, <1>2, <1>3, UpsertKnown DEF Waiting
<1>6. DescribedNow \subseteq D
    BY <1>5, DescribedGrows DEF KnownNow, DescribedNow
<1>7. MemoryHashed(p, loc[p], K, D)
    BY <1>5, <1>6, HashedOf, MemoryGrows
<1>8. /\ \A q \in Procs, m \in PartNumbers : parts'[q][m] \in Seq(D)
      /\ \A u \in Urls : tus'[u].bytes \in Seq(D)
      /\ object' \in Seq(D)
    BY <1>3, <1>5, StorageGrows
<1>9. y.uploaded = loc[p].uploaded /\ y.etags = loc[p].etags /\ y.pc = loc[p].pc
    BY <1>4 DEF Differs, Fields
<1>10. MemoryHashed(p, y, K, D)
    <2> HIDE DEF K, D
    <2> QED  BY <1>1, <1>4, <1>5, <1>7, <1>9 DEF MemoryHashed
<1> QED  BY <1>3, <1>4, <1>5, <1>8, <1>10, HashedAfter

(* Every chunk of a slice that is sent has been hashed. *)
LEMMA SliceHashed ==
    ASSUME Types, NEW p \in Procs, loc[p].pc = "patch", Uncached(p) = {}, OneSource, Hashed
    PROVE  \A c \in (loc[p].off \div ChunkUnits)..((SliceEnd(p) - 1) \div ChunkUnits) :
               Cipher(p, c) \in DescribedNow
<1> SUFFICES ASSUME NEW c \in (loc[p].off \div ChunkUnits)..((SliceEnd(p) - 1) \div ChunkUnits)
             PROVE  Cipher(p, c) \in DescribedNow
    OBVIOUS
<1>1. c \in KnownNow
    BY SliceCiphers, SlicePlace, HashedOf
<1>2. Cipher(p, c) = Ref(row.key, File, c)
    BY CipherIs DEF Waiting
<1> QED  BY <1>1, <1>2 DEF DescribedNow, KnownNow, Described

LEMMA StoredHashed ==
    ASSUME Types, NEW p \in Procs, loc[p].pc = "patch", Uncached(p) = {}, OneSource, Hashed,
           loc[p].off = Len(tus[loc[p].url].bytes),
           NEW n \in 0..(SliceEnd(p) - loc[p].off), Stored(p, n)
    PROVE  (\A u \in Urls : tus'[u].bytes \in Seq(DescribedNow)) /\ object' \in Seq(DescribedNow)
<1> DEFINE v == loc[p].url
           g == Grown(p, n)
<1>1. v \in Urls /\ loc[p].off \in 0..Size
    BY SliceCiphers
<1>2. g \in Seq(DescribedNow)
    <2>1. tus[v].bytes \in Seq(DescribedNow)
        BY <1>1 DEF Hashed
    <2> QED  BY <1>1, <2>1, SliceHashed, GrownTyped
<1>3. /\ \A u \in Urls \ {v} : tus'[u] = tus[u]
      /\ tus'[v] = [state |-> IF Len(g) = Size THEN "done" ELSE "open", bytes |-> g]
      /\ object' = IF Len(g) = Size THEN g ELSE object
    BY <1>1, StoredEffect
<1> HIDE DEF v, g
<1>4. tus'[v].bytes = g
    BY <1>3
<1> QED  BY <1>1, <1>2, <1>3, <1>4 DEF Hashed

LEMMA PatchHashed == ASSUME Types, NEW p \in Procs, TusPatch(p), OneSource, Hashed PROVE Hashed'
<1> DEFINE s == SliceEnd(p)
           o == loc[p].off
<1>1. loc[p].pc = "patch" /\ Uncached(p) = {} /\ loc[p].url \in Urls /\ o \in 0..Size
    BY PatchCases, SliceCiphers
<1>2. s \in 0..Size /\ s - o \in 0..(s - o)
    BY <1>1, SlicePlace, Constants
<1>3. CASE Refused(p) /\ Calm
    BY <1>3, RefusedHashed DEF Calm
<1>4. CASE Goto(p, "head") /\ UNCHANGED server /\ Calm
    <2>1. source' = source /\ UNCHANGED <<row, hashes, parts, tus, object>>
        BY <1>4 DEF server, Calm
    <2>2. PICK y : Moved(p, y) /\ Differs(loc[p], y, {"pc"}) /\ y.pc = "head"
        BY <1>4, GotoMoves
    <2>3. y.uploaded = loc[p].uploaded /\ y.etags = loc[p].etags /\ y.cache = loc[p].cache
        BY <2>2 DEF Differs, Fields
    <2> QED  BY <2>1, <2>2, <2>3, HashedOf, HashedKept, HashedSame
<1>5. ASSUME NEW k \in 0..(s - o), o = Len(tus[loc[p].url].bytes), Stored(p, k), source' = source,
             NEW y, Moved(p, y), Differs(loc[p], y, {"off", "pc"}), y.pc # "send"
      PROVE  Hashed'
    <2>1. UNCHANGED <<row, hashes, parts>>
        BY <1>5 DEF Stored
    <2>2. y.uploaded = loc[p].uploaded /\ y.etags = loc[p].etags /\ y.cache = loc[p].cache
        BY <1>5 DEF Differs, Fields
    <2>3. MemoryHashed(p, y, KnownNow, DescribedNow)
        BY <1>5, <2>2, HashedOf, HashedKept
    <2>4. (\A u \in Urls : tus'[u].bytes \in Seq(DescribedNow)) /\ object' \in Seq(DescribedNow)
        BY <1>1, <1>5, StoredHashed
    <2> QED  BY <1>5, <2>1, <2>3, <2>4, HashedStored
<1>6. CASE /\ o = Len(tus[loc[p].url].bytes) /\ Stored(p, s - o) /\ Calm
           /\ OffsetGoes(p, s, IF s = Size THEN "finish" ELSE "patch")
    <2> DEFINE l == IF s = Size THEN "finish" ELSE "patch"
    <2>1. l # "send" /\ OffsetGoes(p, s, l) /\ source' = source
        BY <1>6 DEF Calm
    <2> HIDE DEF l
    <2>2. PICK y : Moved(p, y) /\ Differs(loc[p], y, {"off", "pc"}) /\ y.off = s /\ y.pc = l
        BY <2>1, OffsetMoves
    <2> QED  BY <1>2, <1>5, <1>6, <2>1, <2>2
<1>7. ASSUME NEW k \in 0..(s - o), o = Len(tus[loc[p].url].bytes), Stored(p, k), Goto(p, "head"), Fault
      PROVE  Hashed'
    <2>1. PICK y : Moved(p, y) /\ Differs(loc[p], y, {"pc"}) /\ y.pc = "head"
        BY <1>7, GotoMoves
    <2>2. Differs(loc[p], y, {"off", "pc"})
        BY <2>1 DEF Differs
    <2> QED  BY <1>5, <1>7, <2>1, <2>2 DEF Fault
<1> QED  BY <1>3, <1>4, <1>6, <1>7, PatchCases

LEMMA ServerHashed ==
    ASSUME Types, NEW u \in Urls, SaveUrl(u) \/ TusExpire(u), Hashed
    PROVE  Hashed'
<1>1. CASE SaveUrl(u)
    <2>1. source' = source /\ UNCHANGED <<hashes, parts, object, loc, tus>>
        BY <1>1 DEF SaveUrl, Calm, Fault
    <2>2. row'.key = row.key
        <3>1. row' = row \/ row' = [row EXCEPT !.tusUrl = u]
            BY <1>1 DEF SaveUrl
        <3> QED  BY <3>1 DEF Types, ServerTypes, RowOK, Rows
    <2> QED  BY <2>1, <2>2, HashedAlone
<1>2. CASE TusExpire(u)
    <2>1. source' = source /\ UNCHANGED <<row, hashes, parts, object, loc>>
        BY <1>2 DEF TusExpire, Fault
    <2>2. \A v \in Urls : tus'[v].bytes \in {tus[v].bytes, <<>>}
        BY <1>2 DEF TusExpire, Types, ServerTypes
    <2> QED  BY <2>1, <2>2, HashedAlone
<1> QED  BY <1>1, <1>2

LEMMA HashedInit == ASSUME Init PROVE Hashed
<1>1. /\ \A q \in Procs, n \in PartNumbers : parts[q][n] = <<>>
      /\ \A u \in Urls : tus[u].bytes = <<>>
      /\ object = <<>>
    BY EmptyList DEF Init
<1>2. <<>> \in Seq(DescribedNow)
    OBVIOUS
<1>3. ASSUME NEW p \in Procs PROVE MemoryHashed(p, loc[p], KnownNow, DescribedNow)
    <2>1. loc[p] = Process("fresh", None)
        BY DEF Init
    <2> QED  BY <2>1, FreshHashed
<1> QED  BY <1>1, <1>2, <1>3 DEF Hashed

LEMMA HashedStep == ASSUME Types, [Next]_vars, OneSource, Hashed PROVE Hashed'
<1>1. ASSUME UNCHANGED vars PROVE Hashed'
    BY <1>1, HashedAlone DEF vars, server
<1>2. ASSUME NEW p \in Procs, ProcStep(p) PROVE Hashed'
    BY <1>2, LightHashed, InsertHashed, ListHashed, HashHashed, PartHashed, FetchHashed,
       CompleteHashed, PostHashed, TusHashHashed, PatchHashed DEF ProcStep
<1> QED  BY <1>1, <1>2, LightHashed, ServerHashed DEF Next, Quiet

LEMMA SourceStays == ASSUME [Next]_vars PROVE source' = source
BY DEF Next, vars, Quiet, ProcStep, StartUpload, InsertAsset, CreateMultipartUpload, PatchUploadId,
       StartResume, ListParts, HashPart, UploadPart, FetchEtags, CompleteMultipartUpload, TusPost,
       TusHead, TusHash, TusPatch, Finish, Stop, SaveUrl, TusExpire, Calm, Fault

(* "Any byte on the server has a hash in the catalogue", for any number of  *)
(* processes, chunks, TUS uploads and faults, however the uploads and       *)
(* resumptions interleave, and whatever partChunks each process uses.       *)
THEOREM BytesHashed == Spec => []StoredBytesHashed
<1> DEFINE HInv == Types /\ (OneSource => Hashed)
<1>1. Init => HInv
    BY InitTypes, HashedInit
<1>2. HInv /\ [Next]_vars => HInv'
    <2>1. [Next]_vars => (OneSource' <=> OneSource)
        BY SourceStays DEF OneSource
    <2> QED  BY <2>1, TypesStep, HashedStep
<1>3. HInv => StoredBytesHashed
    <2> SUFFICES ASSUME HInv, OneSource,
                        NEW b \in {parts[p][n] : p \in Procs, n \in PartNumbers}
                                    \cup {tus[u].bytes : u \in Urls} \cup {object},
                        NEW i \in 1..Len(b)
                 PROVE  hashes[b[i].idx] = b[i]
        BY DEF StoredBytesHashed
    <2>1. b \in Seq(DescribedNow)
        BY DEF Hashed
    <2>2. b[i] \in DescribedNow
        BY <2>1
    <2>3. PICK c \in KnownNow : b[i] = Ref(row.key, File, c)
        BY <2>2 DEF DescribedNow, KnownNow, Described
    <2>4. hashes[c] = b[i] /\ Ref(row.key, File, c).idx = c
        BY <2>3 DEF KnownNow, Known, Ref
    <2> QED  BY <2>3, <2>4
<1> HIDE DEF HInv
<1> QED  BY <1>1, <1>2, <1>3, PTL DEF Spec

-----------------------------------------------------------------------------
(* Places. *)

LEMMA EmptyStretch == ASSUME NEW f, NEW a \in Nat PROVE Stretch(f, a, a) = <<>>
<1>0. a <= a /\ a - a = 0
    OBVIOUS
<1>1. Len(Stretch(f, a, a)) = 0 /\ Stretch(f, a, a) \in Seq(Values(f))
    BY <1>0, StretchLen
<1> QED  BY <1>1, EmptySeq

LEMMA CutPlace ==
    ASSUME NEW m \in Nat \ {0}, NEW n \in Nat
    PROVE  /\ n * m \in Nat /\ Cut(m, n) \in Nat /\ Cut(m, n) <= Size
           /\ n * m >= ChunkCount => Cut(m, n) = Size
           /\ Cut(m, n) <= Cut(m, n + 1)
           /\ Cut(m, 0) = 0 /\ Cut(m, ChunkCount) = Size
<1> DEFINE L(i) == IF i * m <= ChunkCount THEN i * m ELSE ChunkCount
<1>1. \A i \in Nat : i * m \in Nat /\ L(i) \in Nat /\ L(i) <= ChunkCount
    BY Constants
<1>2. \A i \in Nat : Cut(m, i) = ChunkUnits * L(i)
    BY DEF Cut
<1>3. Size = ChunkUnits * ChunkCount
    BY Constants DEF Size
<1>4. ASSUME NEW a \in Nat, NEW b \in Nat, a <= b
      PROVE  ChunkUnits * a \in Nat /\ ChunkUnits * a <= ChunkUnits * b
    BY <1>4, Times, Constants
<1>5. (n + 1) * m = n * m + m
    OBVIOUS
<1>6. L(n) <= L(n + 1)
    <2>1. n + 1 \in Nat /\ n * m <= (n + 1) * m /\ n * m \in Nat /\ (n + 1) * m \in Nat
        BY <1>1, <1>5
    <2> QED  BY <2>1, Constants
<1>7. L(0) = 0
    BY Constants
<1>8. L(ChunkCount) = ChunkCount
    <2>1. ChunkCount * 1 <= ChunkCount * m
        BY Constants
    <2> QED  BY <2>1, Constants
<1>9. n * m >= ChunkCount => L(n) = ChunkCount
    BY <1>1, Constants
<1> HIDE DEF L
<1> QED  BY <1>1, <1>2, <1>3, <1>4, <1>6, <1>7, <1>8, <1>9, Constants

LEMMA RangeIs ==
    ASSUME Types, OneSource, NEW p \in Procs, loc[p].pc \notin Waiting, NEW a \in Nat, NEW b \in Nat
    PROVE  EncryptRange(p, a, b) = Stretch(Stream(row.key, File), a, b)
<1>1. ASSUME NEW i \in 1..(b - a)
      PROVE  Cipher(p, (a + i - 1) \div ChunkUnits) = Stream(row.key, File)[a + i - 1]
    <2>1. a + i - 1 \in Nat
        OBVIOUS
    <2> QED  BY <2>1, CipherIs DEF Stream
<1> QED  BY <1>1 DEF EncryptRange, Stretch

LEMMA PartAfter ==
    ASSUME NEW k, NEW f, NEW m, NEW n \in Nat
    PROVE  Part(k, f, m, n + 1) = Stretch(Stream(k, f), Cut(m, n), Cut(m, n + 1))
<1>1. (n + 1) - 1 = n
    OBVIOUS
<1> DEFINE j == n + 1
<1>2. Part(k, f, m, j) = Stretch(Stream(k, f), Cut(m, n), Cut(m, j))
    <2>1. j - 1 = n
        BY <1>1
    <2> HIDE DEF j
    <2> QED  BY <2>1 DEF Part
<1> QED  BY <1>2

(* A part is cut where it should be. *)
LEMMA PartIs ==
    ASSUME Types, OneSource, NEW p \in Procs, loc[p].pc \notin Waiting,
           loc[p].part \in Nat, loc[p].part < PartCount(p)
    PROVE  PartBytes(p) = Part(row.key, File, PartChunks[p], loc[p].part + 1)
<1> DEFINE m == PartChunks[p]
           i == loc[p].part
           a == FirstChunk(p) * ChunkUnits
           b == (LastChunk(p) + 1) * ChunkUnits
<1>1. m \in Nat \ {0} /\ i \in Nat /\ i * m \in Nat /\ i * m < ChunkCount
    BY Counted, Constants
<1>2. FirstChunk(p) = i * m
    BY DEF FirstChunk
<1>3. LastChunk(p) + 1 = IF i * m + m <= ChunkCount THEN i * m + m ELSE ChunkCount
    BY <1>2, PartPlace
<1>4. a \in Nat /\ b \in Nat
    BY PartPlace, Constants
<1>5. a = Cut(m, i)
    BY <1>1, <1>2, Constants DEF Cut
<1>6. b = Cut(m, i + 1)
    <2>1. (i + 1) * m = i * m + m
        BY <1>1
    <2> DEFINE t == LastChunk(p) + 1
    <2>2. t = (IF (i + 1) * m <= ChunkCount THEN (i + 1) * m ELSE ChunkCount) /\ t \in Nat
        BY <1>3, <2>1, PartPlace
    <2>3. b = ChunkUnits * t
        BY <2>2, Constants
    <2> QED  BY <2>2, <2>3 DEF Cut
<1>7. PartBytes(p) = Stretch(Stream(row.key, File), a, b)
    BY <1>4, RangeIs DEF PartBytes
<1> HIDE DEF a, b, i, m
<1>8. PartBytes(p) = Part(row.key, File, m, i + 1)
    BY <1>1, <1>5, <1>6, <1>7, PartAfter
<1> QED  BY <1>8 DEF i, m

(* Behind the last part there is nothing. *)
LEMMA PartBeyond ==
    ASSUME NEW p \in Procs, NEW n \in PartNumbers, n > PartCount(p), NEW k, NEW f
    PROVE  Part(k, f, PartChunks[p], n) = <<>>
<1> DEFINE m == PartChunks[p]
           i == n - 1
<1>1. n \in Nat /\ i \in Nat /\ m \in Nat \ {0} /\ PartCount(p) \in Nat
    BY Counted, Constants DEF PartNumbers
<1>2. ~(i < PartCount(p)) /\ ~(n < PartCount(p))
    BY <1>1
<1>3. i * m >= ChunkCount /\ n * m >= ChunkCount
    <2>1. ~(i * m < ChunkCount) /\ ~(n * m < ChunkCount) /\ i * m \in Nat /\ n * m \in Nat
        BY <1>1, <1>2, Counted
    <2> QED  BY <2>1, Constants
<1>4. Cut(m, i) = Size /\ Cut(m, n) = Size
    BY <1>1, <1>3, CutPlace
<1> QED  BY <1>4, EmptyStretch, Constants DEF Part

(* All parts in order are the whole. *)
LEMMA AssembledIs ==
    ASSUME Types, NEW p \in Procs, NEW k, NEW f, Shaped(k, f, PartChunks[p], loc[p].etags),
           \A n \in 1..PartCount(p) : loc[p].etags[n] # <<>>
    PROVE  Assembled(p) = Whole(k, f)
<1> DEFINE m == PartChunks[p]
           s == [n \in 1..ChunkCount |-> loc[p].etags[n]]
           cut == [n \in 0..ChunkCount |-> Cut(m, n)]
<1>1. m \in Nat \ {0} /\ ChunkCount \in Nat \ {0}
    BY Constants
<1>2. ASSUME NEW n \in 1..ChunkCount PROVE loc[p].etags[n] = Part(k, f, m, n)
    <2>1. n \in PartNumbers /\ n \in Nat /\ PartCount(p) \in Nat
        BY <1>1, Counted DEF PartNumbers
    <2>2. loc[p].etags[n] \in {<<>>, Part(k, f, m, n)}
        BY <2>1 DEF Shaped
    <2>3. CASE n <= PartCount(p)
        <3>1. n \in 1..PartCount(p)
            BY <2>1, <2>3
        <3> QED  BY <2>2, <3>1
    <2>4. CASE n > PartCount(p)
        <3>1. Part(k, f, m, n) = <<>>
            BY <2>1, <2>4, PartBeyond
        <3> QED  BY <2>2, <3>1
    <2> QED  BY <2>1, <2>3, <2>4
<1>3. ASSUME NEW n \in 0..ChunkCount PROVE cut[n] \in Nat
    <2>1. n \in Nat
        BY <1>1
    <2> QED  BY <1>1, <2>1, CutPlace
<1>4. ASSUME NEW n \in 1..ChunkCount
      PROVE  cut[n - 1] <= cut[n] /\ Part(k, f, m, n) = Stretch(Stream(k, f), cut[n - 1], cut[n])
    <2>1. n - 1 \in Nat /\ n - 1 \in 0..ChunkCount /\ n \in 0..ChunkCount /\ (n - 1) + 1 = n
        BY <1>1
    <2>2. Cut(m, n - 1) <= Cut(m, (n - 1) + 1)
        BY <1>1, <2>1, CutPlace
    <2> QED  BY <2>1, <2>2 DEF Part
<1>5. s = [n \in 1..ChunkCount |-> Stretch(Stream(k, f), cut[n - 1], cut[n])]
    BY <1>2, <1>4
<1>6. cut[0] = 0 /\ cut[ChunkCount] = Size /\ cut \in [0..ChunkCount -> Nat]
    <2>1. Cut(m, 0) = 0 /\ Cut(m, ChunkCount) = Size
        BY <1>1, CutPlace
    <2>2. 0 \in 0..ChunkCount /\ ChunkCount \in 0..ChunkCount
        BY <1>1
    <2>3. cut \in [0..ChunkCount -> Nat]
        BY <1>3
    <2> QED  BY <2>1, <2>2, <2>3
<1>7. Assembled(p) = FlattenSeq(s)
    BY DEF Assembled, PartNumbers
<1> HIDE DEF s, cut
<1>8. Pieces(Stream(k, f), cut, ChunkCount, s)
    BY <1>4, <1>5, <1>6 DEF Pieces
<1>9. FlattenSeq(s) = Stretch(Stream(k, f), cut[0], cut[ChunkCount])
    BY <1>1, <1>8, StretchFlatten
<1> QED  BY <1>6, <1>7, <1>9 DEF Whole

LEMMA WholeIs ==
    ASSUME NEW k, NEW f
    PROVE  /\ Whole(k, f) # <<>> /\ Len(Whole(k, f)) = Size
           /\ Whole(k, f) = [i \in 1..Size |-> Ref(k, f, (i - 1) \div ChunkUnits)]
<1>0. 0 <= Size /\ Size \in Nat /\ Size - 0 = Size
    BY Constants
<1>1. Len(Whole(k, f)) = Size
    BY <1>0, StretchLen DEF Whole
<1>2. Whole(k, f) # <<>>
    BY <1>1, Constants
<1>3. \A i \in 1..Size : 0 + i - 1 = i - 1 /\ i - 1 \in Nat
    BY Constants
<1>4. Size - 0 = Size
    BY Constants
<1> QED  BY <1>1, <1>2, <1>3, <1>4 DEF Whole, Stretch, Stream

(* After a step of process p. *)
LEMMA InPlaceAfter ==
    ASSUME Types, InPlace, source' = source, row'.key = row.key, RowShaped(row', File, object'),
           \A a, q \in Procs : Shaped(row.key, File, PartChunks[a], parts'[q]),
           \A u \in Urls : TusShaped(tus'[u], row.key, File, object'),
           object' \in {<<>>, Whole(row.key, File)}, object # <<>> => object' # <<>>,
           NEW p \in Procs, NEW y, Moved(p, y), MemoryShaped(p, y, row.key, File, object')
    PROVE  InPlace'
<1>1. File' = File
    BY DEF File
<1>2. ASSUME NEW q \in Procs PROVE MemoryShaped(q, loc'[q], row.key, File, object')
    <2>1. loc'[q] = IF q = p THEN y ELSE loc[q]
        BY DEF Moved
    <2>2. MemoryShaped(q, loc[q], row.key, File, object')
        BY DEF InPlace, MemoryShaped
    <2> QED  BY <2>1, <2>2
<1> QED  BY <1>1, <1>2 DEF InPlace

(* After a step of process p that leaves storage alone, and of no process. *)
LEMMA InPlaceSame ==
    ASSUME Types, InPlace, source' = source, UNCHANGED <<parts, tus, object>>,
           row'.key = row.key, row'.state = row.state, row'.sha = row.sha,
           NEW p \in Procs, NEW y, Moved(p, y), MemoryShaped(p, y, row.key, File, object)
    PROVE  InPlace'
<1>1. RowShaped(row', File, object')
    BY DEF InPlace, RowShaped
<1>2. /\ \A a, q \in Procs : Shaped(row.key, File, PartChunks[a], parts'[q])
      /\ \A u \in Urls : TusShaped(tus'[u], row.key, File, object')
      /\ object' \in {<<>>, Whole(row.key, File)} /\ (object # <<>> => object' # <<>>)
    BY DEF InPlace
<1> QED  BY <1>1, <1>2, InPlaceAfter

LEMMA InPlaceAlone ==
    ASSUME Types, InPlace, source' = source, UNCHANGED <<parts, object, loc>>,
           row'.key = row.key, row'.state = row.state, row'.sha = row.sha,
           \A u \in Urls : TusShaped(tus'[u], row.key, File, object)
    PROVE  InPlace'
<1>1. File' = File
    BY DEF File
<1> QED  BY <1>1 DEF InPlace, RowShaped

LEMMA FreshShaped ==
    ASSUME NEW p, NEW x, x.uploaded = NoParts, x.etags = NoParts,
           x.pc \notin {"complete", "finish"}, NEW k, NEW f, NEW o
    PROVE  MemoryShaped(p, x, k, f, o)
BY EmptyList DEF MemoryShaped, Shaped

LEMMA ProcessShaped ==
    ASSUME NEW p, NEW l, l \notin {"complete", "finish"}, NEW d, NEW k, NEW f, NEW o
    PROVE  MemoryShaped(p, Process(l, d), k, f, o)
<1> DEFINE x == Process(l, d)
<1>1. x.pc = l /\ x.uploaded = NoParts /\ x.etags = NoParts
    BY DEF Process
<1> HIDE DEF x
<1>2. MemoryShaped(p, x, k, f, o)
    BY <1>1, FreshShaped
<1> QED  BY <1>2 DEF x

LEMMA ShapedKept ==
    ASSUME NEW p, NEW x, NEW y, NEW k, NEW f, NEW o, MemoryShaped(p, x, k, f, o),
           y.uploaded = x.uploaded, y.etags = x.etags, y.pc # "complete",
           NEW b, y.pc = "finish" => b # <<>>
    PROVE  MemoryShaped(p, y, k, f, b)
BY DEF MemoryShaped

LEMMA ShapedOf ==
    ASSUME InPlace, NEW p \in Procs
    PROVE  /\ MemoryShaped(p, loc[p], row.key, File, object)
           /\ Shaped(row.key, File, PartChunks[p], loc[p].uploaded)
           /\ Shaped(row.key, File, PartChunks[p], loc[p].etags)
BY DEF InPlace, MemoryShaped

LEMMA RefusedInPlace ==
    ASSUME Types, InPlace, NEW p \in Procs, Refused(p), source' = source
    PROVE  InPlace'
<1>1. UNCHANGED <<row, parts, tus, object>>
    BY DEF Refused, server
<1> QED  BY <1>1, OverMoves, ProcessShaped, InPlaceSame DEF Refused

LEMMA LightInPlace ==
    ASSUME Types, InPlace, NEW p \in Procs,
           \/ StartUpload(p) \/ CreateMultipartUpload(p) \/ PatchUploadId(p) \/ StartResume(p)
           \/ TusHead(p) \/ TusHash(p) \/ Stop(p)
    PROVE  InPlace'
<1>1. CASE StartUpload(p)
    <2>1. source' = source /\ UNCHANGED <<row, parts, tus, object>>
        BY <1>1 DEF StartUpload, server, Calm
    <2>2. Moved(p, Process("insert", p))
        BY <1>1, IsFunction DEF StartUpload, Moved
    <2> QED  BY <2>1, <2>2, ProcessShaped, InPlaceSame
<1>2. CASE CreateMultipartUpload(p)
    <2>1. source' = source /\ UNCHANGED <<row, parts, tus, object>>
        BY <1>2 DEF CreateMultipartUpload, Calm
    <2>2. PICK y : Moved(p, y) /\ Differs(loc[p], y, {"id", "pc"}) /\ y.id = p /\ y.pc = "patchId"
        BY <1>2, CreateMoves
    <2>3. y.uploaded = loc[p].uploaded /\ y.etags = loc[p].etags
        BY <2>2 DEF Differs, Fields
    <2> QED  BY <2>1, <2>2, <2>3, ShapedOf, ShapedKept, InPlaceSame
<1>3. CASE PatchUploadId(p)
    <2>1. source' = source /\ UNCHANGED <<parts, tus, object>>
        BY <1>3 DEF PatchUploadId, Calm
    <2>2. row'.key = row.key /\ row'.state = row.state /\ row'.sha = row.sha
        BY <1>3, TypesOf DEF PatchUploadId, Rows
    <2>3. PICK y : Moved(p, y) /\ Differs(loc[p], y, {"pc"}) /\ y.pc = "hash"
        BY <1>3, GotoMoves DEF PatchUploadId
    <2>4. y.uploaded = loc[p].uploaded /\ y.etags = loc[p].etags
        BY <2>3 DEF Differs, Fields
    <2> QED  BY <2>1, <2>2, <2>3, <2>4, ShapedOf, ShapedKept, InPlaceSame
<1>4. CASE StartResume(p)
    <2>1. source' = source /\ UNCHANGED <<row, parts, tus, object>>
        BY <1>4 DEF StartResume, server, Calm
    <2>2. PICK y : /\ Moved(p, y) /\ y.uploaded = NoParts /\ y.etags = NoParts
                   /\ y.pc \notin {"complete", "finish"}
        BY <1>4, ResumeMoves
    <2> QED  BY <2>1, <2>2, FreshShaped, InPlaceSame
<1>5. CASE TusHead(p)
    <2>1. source' = source /\ UNCHANGED <<row, parts, tus, object>>
        BY <1>5 DEF TusHead, server, Calm
    <2> DEFINE u == tus[loc[p].url]
               o == Len(u.bytes)
               l == IF u.state = "gone" THEN "post" ELSE IF u.state = "done" THEN "finish" ELSE "patch"
    <2>2. OffsetGoes(p, o, l) /\ l # "complete"
        BY <1>5 DEF TusHead, OffsetGoes
    <2>3. l = "finish" => object # <<>>
        <3>1. loc[p].url \in Urls
            BY <1>5, TypesOf DEF TusHead, At, MemoryOK
        <3> QED  BY <3>1 DEF InPlace, TusShaped
    <2> HIDE DEF o, l, u
    <2>4. PICK y : Moved(p, y) /\ Differs(loc[p], y, {"off", "pc"}) /\ y.off = o /\ y.pc = l
        BY <2>2, OffsetMoves
    <2>5. y.uploaded = loc[p].uploaded /\ y.etags = loc[p].etags
        BY <2>4 DEF Differs, Fields
    <2> QED  BY <2>1, <2>2, <2>3, <2>4, <2>5, ShapedOf, ShapedKept, InPlaceSame
<1>6. CASE TusHash(p)
    <2>1. source' = source /\ UNCHANGED <<row, parts, tus, object>> /\ loc[p].pc = "patch"
        BY <1>6 DEF TusHash, Calm, At
    <2>2. PICK y : Moved(p, y) /\ Differs(loc[p], y, {"cache"})
        BY <1>6, CacheMoves DEF TusHash
    <2>3. y.uploaded = loc[p].uploaded /\ y.etags = loc[p].etags /\ y.pc = loc[p].pc
        BY <2>2 DEF Differs, Fields
    <2> QED  BY <2>1, <2>2, <2>3, ShapedOf, ShapedKept, InPlaceSame
<1>7. CASE Stop(p)
    BY <1>7, RefusedInPlace DEF Stop
<1> QED  BY <1>1, <1>2, <1>3, <1>4, <1>5, <1>6, <1>7

LEMMA InsertInPlace == ASSUME Types, NEW p \in Procs, InsertAsset(p), InPlace PROVE InPlace'
<1>0. source' = source
    BY DEF InsertAsset, Calm
<1>1. CASE row.state # "absent"
    BY <1>0, <1>1, RefusedInPlace DEF InsertAsset
<1>2. CASE row.state = "absent"
    <2>1. PICK m \in Methods : Inserted(p, m)
        BY <1>2 DEF InsertAsset
    <2>2. /\ UNCHANGED <<parts, tus, object>>
          /\ row' = [row EXCEPT !.state = "uploading", !.method = m, !.key = loc[p].key]
          /\ Goto(p, IF m = "tus" THEN "post" ELSE "open")
        BY <2>1 DEF Inserted
    <2> DEFINE l == IF m = "tus" THEN "post" ELSE "open"
    <2>3. PICK y : Moved(p, y) /\ Differs(loc[p], y, {"pc"}) /\ y.pc = l
        BY <2>2, GotoMoves
    <2>4. /\ y.uploaded = loc[p].uploaded /\ y.etags = loc[p].etags
          /\ y.pc \notin {"complete", "finish"}
        BY <2>3 DEF Differs, Fields
    <2>5. \A q \in Procs, n \in PartNumbers : parts[q][n] = <<>>
        BY <1>2, EmptyList DEF Types, NothingYet
    <2>6. \A k, f : \A a, q \in Procs : Shaped(k, f, PartChunks[a], parts'[q])
        BY <2>2, <2>5 DEF Shaped
    <2>7. object = <<>> /\ object' = <<>>
        BY <1>2, <2>2 DEF Types, NothingYet
    <2>8. ASSUME NEW u \in Urls, NEW k, NEW f PROVE TusShaped(tus'[u], k, f, object')
        <3>1. tus'[u] = tus[u] /\ tus[u].bytes = <<>> /\ tus[u].state # "done"
            BY <1>2, <2>2, <2>7 DEF Types, NothingYet, InPlace, TusShaped
        <3>2. Len(<<>>) = 0 /\ Stretch(Stream(k, f), 0, 0) = <<>>
            BY EmptyStretch
        <3> QED  BY <3>1, <3>2 DEF TusShaped
    <2>9. ASSUME NEW q \in Procs, NEW k, NEW f PROVE MemoryShaped(q, loc'[q], k, f, object')
        <3>1. MemoryOK(q, loc[q], row)
            BY TypesOf
        <3>2. /\ loc[q].uploaded = NoParts /\ loc[q].etags = NoParts
              /\ loc[q].pc \notin {"complete", "finish"}
            BY <1>2, <3>1 DEF MemoryOK, Waiting
        <3>3. loc'[q] = IF q = p THEN y ELSE loc[q]
            BY <2>3 DEF Moved
        <3>4. /\ loc'[q].uploaded = NoParts /\ loc'[q].etags = NoParts
              /\ loc'[q].pc \notin {"complete", "finish"}
            BY <2>4, <3>2, <3>3
        <3> QED  BY <3>4, FreshShaped
    <2>10. row'.state = "uploading"
        BY <2>2, TypesOf DEF Rows
    <2>11. \A k, f : /\ \A u \in Urls : TusShaped(tus'[u], k, f, object')
                    /\ \A q \in Procs : MemoryShaped(q, loc'[q], k, f, object')
                    /\ RowShaped(row', f, object')
        BY <2>8, <2>9, <2>10 DEF RowShaped
    <2> QED  BY <2>6, <2>7, <2>11 DEF InPlace
<1> QED  BY <1>1, <1>2

LEMMA ListInPlace == ASSUME Types, NEW p \in Procs, ListParts(p), InPlace PROVE InPlace'
<1>0. source' = source
    BY DEF ListParts, Calm
<1>1. CASE ~Open(p)
    BY <1>0, <1>1, RefusedInPlace DEF ListParts
<1>2. CASE Open(p)
    <2>1. UNCHANGED <<row, parts, tus, object>>
        BY <1>2 DEF ListParts, server
    <2>2. PICK y : /\ Moved(p, y) /\ Differs(loc[p], y, {"uploaded", "pc"})
                   /\ y.uploaded = parts[loc[p].id] /\ y.pc = "hash"
        BY <1>2, ListMoves
    <2>3. y.etags = loc[p].etags
        BY <2>2 DEF Differs, Fields
    <2>4. loc[p].id \in Procs
        BY <1>2, TypesOf DEF Open, MemoryTypes
    <2>5. Shaped(row.key, File, PartChunks[p], y.uploaded)
        BY <2>2, <2>4 DEF InPlace
    <2>6. MemoryShaped(p, y, row.key, File, object)
        BY <2>2, <2>3, <2>5, ShapedOf DEF MemoryShaped
    <2> QED  BY <1>0, <2>1, <2>2, <2>6, InPlaceSame
<1> QED  BY <1>1, <1>2

LEMMA NextShaped ==
    ASSUME Types, InPlace, NEW p \in Procs, NEW E, NextPart(p, E),
           Shaped(row.key, File, PartChunks[p], E), NEW o
    PROVE  \E y : Moved(p, y) /\ MemoryShaped(p, y, row.key, File, o)
<1>1. PICK y : /\ Moved(p, y) /\ Differs(loc[p], y, {"etags", "part", "pc"}) /\ y.etags = E
               /\ y.pc = IF loc[p].part + 1 < PartCount(p) THEN "hash"
                         ELSE IF \E n \in 1..PartCount(p) : E[n] = <<>> THEN "etags" ELSE "complete"
    BY NextMoves
<1>2. y.uploaded = loc[p].uploaded
    BY <1>1 DEF Differs, Fields
<1>3. y.pc # "finish" /\ (y.pc = "complete" => \A n \in 1..PartCount(p) : E[n] # <<>>)
    BY <1>1
<1>4. MemoryShaped(p, y, row.key, File, o)
    BY <1>1, <1>2, <1>3, ShapedOf DEF MemoryShaped
<1> QED  BY <1>1, <1>4

(* One more part in its place. *)
LEMMA ShapedMore ==
    ASSUME NEW k, NEW f, NEW m, NEW l \in PartLists, Shaped(k, f, m, l), NEW n \in PartNumbers,
           NEW b, b \in {<<>>, Part(k, f, m, n)}
    PROVE  Shaped(k, f, m, [l EXCEPT ![n] = b])
BY DEF Shaped, PartLists

LEMMA HashInPlace == ASSUME Types, NEW p \in Procs, HashPart(p), InPlace PROVE InPlace'
<1> DEFINE n == loc[p].part + 1
<1>1. /\ loc[p].pc = "hash" /\ MemoryTypes(loc[p]) /\ loc[p].part < PartCount(p)
      /\ loc[p].part \in Nat
    BY TypesOf, Constants DEF HashPart, At, MemoryOK, MemoryTypes
<1>2. n \in PartNumbers
    BY <1>1, PartPlace
<1>3. source' = source /\ UNCHANGED <<row, parts, tus, object>>
    BY DEF HashPart, Calm
<1>4. CASE loc[p].uploaded[n] # <<>>
    <2> DEFINE E == [loc[p].etags EXCEPT ![n] = loc[p].uploaded[n]]
    <2>1. NextPart(p, E)
        BY <1>4 DEF HashPart
    <2>2. loc[p].uploaded[n] \in {<<>>, Part(row.key, File, PartChunks[p], n)}
        BY <1>2, ShapedOf DEF Shaped
    <2>3. loc[p].etags \in PartLists
        BY <1>1 DEF MemoryTypes
    <2> HIDE DEF n
    <2>4. Shaped(row.key, File, PartChunks[p], E)
        BY <1>2, <2>2, <2>3, ShapedOf, ShapedMore
    <2> HIDE DEF E
    <2>5. PICK y : Moved(p, y) /\ MemoryShaped(p, y, row.key, File, object)
        BY <2>1, <2>4, NextShaped
    <2> QED  BY <1>3, <2>5, InPlaceSame
<1>5. CASE loc[p].uploaded[n] = <<>>
    <2>1. PICK y : Moved(p, y) /\ Differs(loc[p], y, {"pc"}) /\ y.pc = "send"
        BY <1>5, GotoMoves DEF HashPart
    <2>2. y.uploaded = loc[p].uploaded /\ y.etags = loc[p].etags
        BY <2>1 DEF Differs, Fields
    <2> QED  BY <1>3, <2>1, <2>2, ShapedOf, ShapedKept, InPlaceSame
<1> QED  BY <1>4, <1>5

LEMMA PartInPlace ==
    ASSUME Types, NEW p \in Procs, UploadPart(p), OneSource, OneLayout, InPlace
    PROVE  InPlace'
<1>0. source' = source
    BY DEF UploadPart, Calm
<1>1. CASE ~Open(p)
    BY <1>0, <1>1, RefusedInPlace DEF UploadPart
<1>2. CASE Open(p)
    <2> DEFINE n == loc[p].part + 1
               b == PartBytes(p)
               d == loc[p].id
    <2>1. /\ loc[p].pc = "send" /\ MemoryTypes(loc[p]) /\ loc[p].part < PartCount(p)
          /\ loc[p].part \in Nat
        BY TypesOf, Constants DEF UploadPart, At, MemoryOK, MemoryTypes
    <2>2. n \in PartNumbers /\ d \in Procs /\ loc[p].etags \in PartLists
        BY <1>2, <2>1, PartPlace DEF Open, MemoryTypes
    <2>3. b = Part(row.key, File, PartChunks[p], n)
        BY <2>1, PartIs DEF Waiting
    <2>4. PICK seen \in {b, <<>>} : NextPart(p, [loc[p].etags EXCEPT ![n] = seen])
        BY <1>2 DEF UploadPart
    <2>5. parts' = [parts EXCEPT ![d][n] = b] /\ UNCHANGED <<row, tus, object>>
        BY <1>2 DEF UploadPart
    <2> HIDE DEF n, b, d
    <2> DEFINE E == [loc[p].etags EXCEPT ![n] = seen]
    <2>6. Shaped(row.key, File, PartChunks[p], E)
        BY <2>2, <2>3, ShapedOf, ShapedMore
    <2>7. NextPart(p, E)
        BY <2>4
    <2> HIDE DEF E
    <2>8. PICK y : Moved(p, y) /\ MemoryShaped(p, y, row.key, File, object)
        BY <2>6, <2>7, NextShaped
    <2>9. ASSUME NEW a \in Procs, NEW q \in Procs
          PROVE  Shaped(row.key, File, PartChunks[a], parts'[q])
        <3>1. parts[q] \in PartLists /\ parts \in [Procs -> PartLists]
            BY DEF Types, ServerTypes
        <3>2. PartChunks[a] = PartChunks[p] /\ Shaped(row.key, File, PartChunks[a], parts[q])
            BY DEF OneLayout, InPlace
        <3>3. parts'[q] = IF q = d THEN [parts[q] EXCEPT ![n] = b] ELSE parts[q]
            BY <2>2, <2>5, <3>1
        <3>4. Shaped(row.key, File, PartChunks[a], [parts[q] EXCEPT ![n] = b])
            BY <2>2, <2>3, <3>1, <3>2, ShapedMore
        <3> QED  BY <3>2, <3>3, <3>4
    <2>10. /\ RowShaped(row', File, object')
           /\ \A u \in Urls : TusShaped(tus'[u], row.key, File, object')
           /\ object' \in {<<>>, Whole(row.key, File)} /\ row'.key = row.key
           /\ object' = object
        BY <2>5 DEF InPlace
    <2> QED  BY <1>0, <2>8, <2>9, <2>10, InPlaceAfter
<1> QED  BY <1>1, <1>2

LEMMA FetchInPlace == ASSUME Types, NEW p \in Procs, FetchEtags(p), InPlace PROVE InPlace'
<1>0. source' = source
    BY DEF FetchEtags, Calm
<1>1. CASE Refused(p)
    BY <1>0, <1>1, RefusedInPlace
<1>2. CASE ~Refused(p)
    <2>1. /\ UNCHANGED <<row, parts, tus, object>> /\ Open(p)
          /\ \A n \in 1..PartCount(p) : Filled(p)[n] # <<>>
        BY <1>2, FetchMoves DEF server
    <2>2. PICK y : /\ Moved(p, y) /\ Differs(loc[p], y, {"etags", "pc"})
                   /\ y.etags = Filled(p) /\ y.pc = "complete"
        BY <1>2, FetchMoves
    <2>3. y.uploaded = loc[p].uploaded
        BY <2>2 DEF Differs, Fields
    <2>4. loc[p].id \in Procs
        BY <2>1, TypesOf DEF Open, MemoryTypes
    <2>5. Shaped(row.key, File, PartChunks[p], Filled(p))
        <3>1. /\ Shaped(row.key, File, PartChunks[p], parts[loc[p].id])
              /\ Shaped(row.key, File, PartChunks[p], loc[p].etags)
            BY <2>4, ShapedOf DEF InPlace
        <3> QED  BY <3>1 DEF Shaped, Filled
    <2>6. MemoryShaped(p, y, row.key, File, object)
        BY <2>1, <2>2, <2>3, <2>5, ShapedOf DEF MemoryShaped
    <2> QED  BY <1>0, <2>1, <2>2, <2>6, InPlaceSame
<1> QED  BY <1>1, <1>2

(* A new object: every other claim about storage is about there being one. *)
LEMMA InPlaceStored ==
    ASSUME Types, InPlace, UNCHANGED <<source, row, parts>>,
           \A u \in Urls : TusShaped(tus'[u], row.key, File, object'),
           object' \in {<<>>, Whole(row.key, File)}, object # <<>> => object' # <<>>,
           NEW p \in Procs, NEW y, Moved(p, y), MemoryShaped(p, y, row.key, File, object')
    PROVE  InPlace'
<1>1. RowShaped(row', File, object') /\ row'.key = row.key
    BY DEF InPlace, RowShaped
<1>2. \A a, q \in Procs : Shaped(row.key, File, PartChunks[a], parts'[q])
    BY DEF InPlace
<1> QED  BY <1>1, <1>2, InPlaceAfter

LEMMA CompleteInPlace ==
    ASSUME Types, NEW p \in Procs, CompleteMultipartUpload(p), InPlace
    PROVE  InPlace'
<1>0. source' = source
    BY DEF CompleteMultipartUpload, Calm
<1>1. CASE ~Completable(p)
    BY <1>0, <1>1, RefusedInPlace DEF CompleteMultipartUpload
<1>2. CASE Completable(p)
    <2>1. PICK y : Moved(p, y) /\ Differs(loc[p], y, {"pc"}) /\ y.pc = "finish"
        BY <1>2, GotoMoves DEF CompleteMultipartUpload
    <2>2. y.uploaded = loc[p].uploaded /\ y.etags = loc[p].etags
        BY <2>1 DEF Differs, Fields
    <2>3. object' = Assembled(p) /\ UNCHANGED <<row, parts, tus>> /\ loc[p].pc = "complete"
        BY <1>2 DEF CompleteMultipartUpload, At
    <2>4. object' = Whole(row.key, File) /\ object' # <<>>
        <3>1. \A n \in 1..PartCount(p) : loc[p].etags[n] # <<>>
            BY <2>3, ShapedOf DEF MemoryShaped
        <3> QED  BY <2>3, <3>1, ShapedOf, AssembledIs, WholeIs
    <2>5. MemoryShaped(p, y, row.key, File, object')
        BY <2>1, <2>2, <2>4, ShapedOf, ShapedKept
    <2>6. \A u \in Urls : TusShaped(tus'[u], row.key, File, object')
        BY <2>3, <2>4 DEF InPlace, TusShaped
    <2> QED  BY <1>0, <2>1, <2>3, <2>4, <2>5, <2>6, InPlaceStored
<1> QED  BY <1>1, <1>2

LEMMA PostInPlace == ASSUME Types, NEW p \in Procs, TusPost(p), InPlace PROVE InPlace'
<1>1. CASE object # <<>>
    BY <1>1, RefusedInPlace DEF TusPost, Calm
<1>2. CASE object = <<>>
    <2>1. NewUrl \in Urls
        BY <1>2, UnusedUrl DEF TusPost
    <2>2. /\ tus' = [tus EXCEPT ![NewUrl].state = "open"]
          /\ UNCHANGED <<row, parts, object>>
        BY <1>2 DEF TusPost
    <2>3. ASSUME NEW v \in Urls PROVE TusShaped(tus'[v], row.key, File, object)
        <3>1. tus'[v].bytes = tus[v].bytes /\ tus'[v].state \in {"open", tus[v].state}
            BY <2>1, <2>2 DEF Types, ServerTypes, TusUploads
        <3> QED  BY <3>1 DEF InPlace, TusShaped
    <2>4. CASE UNCHANGED <<loc, patching>> /\ Fault
        BY <2>2, <2>3, <2>4, InPlaceAlone DEF Fault
    <2>5. CASE /\ loc' = [loc EXCEPT ![p].url = NewUrl, ![p].off = 0, ![p].pc = "patch"]
               /\ Calm
        <3>1. PICK y : Moved(p, y) /\ Differs(loc[p], y, {"url", "off", "pc"}) /\ y.pc = "patch"
            BY <2>5, PostMoves
        <3>2. y.uploaded = loc[p].uploaded /\ y.etags = loc[p].etags
            BY <3>1 DEF Differs, Fields
        <3>3. MemoryShaped(p, y, row.key, File, object')
            BY <3>1, <3>2, ShapedOf, ShapedKept
        <3>4. object' \in {<<>>, Whole(row.key, File)} /\ object' = object /\ source' = source
            BY <2>2, <2>5 DEF InPlace, Calm
        <3> QED  BY <2>2, <2>3, <3>1, <3>3, <3>4, InPlaceStored
    <2> QED  BY <1>2, <2>4, <2>5 DEF TusPost
<1> QED  BY <1>1, <1>2

(* A TUS upload grows along the ciphertext. *)
LEMMA GrownIs ==
    ASSUME Types, InPlace, OneSource, NEW p \in Procs, loc[p].pc = "patch",
           loc[p].off = Len(tus[loc[p].url].bytes), NEW n \in 0..(SliceEnd(p) - loc[p].off)
    PROVE  /\ Grown(p, n) = Stretch(Stream(row.key, File), 0, loc[p].off + n)
           /\ Len(Grown(p, n)) = loc[p].off + n
<1> DEFINE o == loc[p].off
           e == o + n
           S == Stream(row.key, File)
<1>1. o \in Nat /\ e \in Nat /\ 0 <= o /\ o <= e /\ 0 <= e /\ loc[p].url \in Urls /\ e - 0 = e
    <2>1. o \in 0..Size /\ loc[p].url \in Urls
        BY SliceCiphers
    <2>2. SliceEnd(p) \in Nat
        BY <2>1, SlicePlace
    <2>3. o \in Nat /\ n \in Nat
        BY <2>1, <2>2, Constants
    <2> HIDE DEF o
    <2>4. o + n \in Nat /\ 0 <= o /\ o <= o + n /\ 0 <= o + n
        BY <2>3
    <2> HIDE DEF e
    <2>5. e \in Nat /\ o <= e /\ 0 <= e
        BY <2>4 DEF e
    <2> QED  BY <2>1, <2>3, <2>4, <2>5
<1>2. EncryptRange(p, o, e) = Stretch(S, o, e)
    BY <1>1, RangeIs DEF Waiting
<1>3. tus[loc[p].url].bytes = Stretch(S, 0, o)
    BY <1>1 DEF InPlace, TusShaped
<1>4. Grown(p, n) = tus[loc[p].url].bytes \o EncryptRange(p, o, e)
    BY DEF Grown
<1> HIDE DEF o, e, S
<1>5. Stretch(S, 0, o) \o Stretch(S, o, e) = Stretch(S, 0, e)
    BY <1>1, StretchGlue
<1>6. Len(Stretch(S, 0, e)) = e
    BY <1>1, StretchLen
<1>7. Grown(p, n) = Stretch(S, 0, e)
    BY <1>2, <1>3, <1>4, <1>5
<1> QED  BY <1>6, <1>7 DEF o, e, S

(* What a PATCH stores is in its place, and makes the object if it is whole. *)
LEMMA StoredInPlace ==
    ASSUME Types, NEW p \in Procs, loc[p].pc = "patch", OneSource, InPlace,
           loc[p].off = Len(tus[loc[p].url].bytes),
           NEW n \in 0..(SliceEnd(p) - loc[p].off), Stored(p, n)
    PROVE  /\ \A u \in Urls : TusShaped(tus'[u], row.key, File, object')
           /\ object' \in {<<>>, Whole(row.key, File)}
           /\ (object # <<>> \/ loc[p].off + n = Size) => object' # <<>>
<1> DEFINE v == loc[p].url
           g == Grown(p, n)
           e == loc[p].off + n
<1>1. v \in Urls
    BY SliceCiphers
<1>2. g = Stretch(Stream(row.key, File), 0, e) /\ Len(g) = e
    BY GrownIs
<1>3. /\ \A u \in Urls \ {v} : tus'[u] = tus[u]
      /\ tus'[v] = [state |-> IF Len(g) = Size THEN "done" ELSE "open", bytes |-> g]
      /\ object' = IF Len(g) = Size THEN g ELSE object
    BY <1>1, StoredEffect
<1> HIDE DEF v, g, e
<1>4. e = Size => g = Whole(row.key, File) /\ g # <<>>
    BY <1>2, WholeIs DEF Whole
<1>5. tus'[v].bytes = g /\ (tus'[v].state = "done" => e = Size)
    BY <1>2, <1>3
<1>6. /\ object' \in {<<>>, Whole(row.key, File)}
      /\ (object # <<>> \/ e = Size) => object' # <<>>
    BY <1>2, <1>3, <1>4 DEF InPlace
<1>7. TusShaped(tus'[v], row.key, File, object')
    BY <1>2, <1>5, <1>6 DEF TusShaped
<1>8. \A u \in Urls \ {v} : TusShaped(tus'[u], row.key, File, object')
    BY <1>3, <1>6 DEF InPlace, TusShaped
<1> QED  BY <1>6, <1>7, <1>8 DEF e

LEMMA PatchInPlace == ASSUME Types, NEW p \in Procs, TusPatch(p), OneSource, InPlace PROVE InPlace'
<1> DEFINE s == SliceEnd(p)
           o == loc[p].off
<1>1. loc[p].pc = "patch" /\ loc[p].url \in Urls /\ o \in 0..Size
    BY PatchCases, SliceCiphers
<1>2. s \in 0..Size /\ s - o \in 0..(s - o) /\ o + (s - o) = s
    BY <1>1, SlicePlace, Constants
<1>3. CASE Refused(p) /\ Calm
    BY <1>3, RefusedInPlace DEF Calm
<1>4. CASE Goto(p, "head") /\ UNCHANGED server /\ Calm
    <2>1. source' = source /\ UNCHANGED <<row, parts, tus, object>>
        BY <1>4 DEF server, Calm
    <2>2. PICK y : Moved(p, y) /\ Differs(loc[p], y, {"pc"}) /\ y.pc = "head"
        BY <1>4, GotoMoves
    <2>3. y.uploaded = loc[p].uploaded /\ y.etags = loc[p].etags
        BY <2>2 DEF Differs, Fields
    <2> QED  BY <2>1, <2>2, <2>3, ShapedOf, ShapedKept, InPlaceSame
<1>5. ASSUME NEW k \in 0..(s - o), o = Len(tus[loc[p].url].bytes), Stored(p, k), source' = source,
             NEW y, Moved(p, y), Differs(loc[p], y, {"off", "pc"}), y.pc # "complete",
             y.pc = "finish" => o + k = Size
      PROVE  InPlace'
    <2>1. UNCHANGED <<row, parts>>
        BY <1>5 DEF Stored
    <2>2. y.uploaded = loc[p].uploaded /\ y.etags = loc[p].etags
        BY <1>5 DEF Differs, Fields
    <2>3. /\ \A u \in Urls : TusShaped(tus'[u], row.key, File, object')
          /\ object' \in {<<>>, Whole(row.key, File)}
          /\ (object # <<>> \/ o + k = Size) => object' # <<>>
        BY <1>1, <1>5, StoredInPlace
    <2>4. MemoryShaped(p, y, row.key, File, object')
        BY <1>5, <2>2, <2>3, ShapedOf, ShapedKept
    <2> QED  BY <1>5, <2>1, <2>3, <2>4, InPlaceStored
<1>6. CASE /\ o = Len(tus[loc[p].url].bytes) /\ Stored(p, s - o) /\ Calm
           /\ OffsetGoes(p, s, IF s = Size THEN "finish" ELSE "patch")
    <2> DEFINE l == IF s = Size THEN "finish" ELSE "patch"
    <2>1. l # "complete" /\ (l = "finish" => o + (s - o) = Size) /\ OffsetGoes(p, s, l)
        BY <1>2, <1>6
    <2>2. source' = source
        BY <1>6 DEF Calm
    <2> HIDE DEF l
    <2>3. PICK y : Moved(p, y) /\ Differs(loc[p], y, {"off", "pc"}) /\ y.off = s /\ y.pc = l
        BY <2>1, OffsetMoves
    <2> QED  BY <1>2, <1>5, <1>6, <2>1, <2>2, <2>3
<1>7. ASSUME NEW k \in 0..(s - o), o = Len(tus[loc[p].url].bytes), Stored(p, k), Goto(p, "head"), Fault
      PROVE  InPlace'
    <2>1. PICK y : Moved(p, y) /\ Differs(loc[p], y, {"pc"}) /\ y.pc = "head"
        BY <1>7, GotoMoves
    <2>2. Differs(loc[p], y, {"off", "pc"})
        BY <2>1 DEF Differs
    <2> QED  BY <1>5, <1>7, <2>1, <2>2 DEF Fault
<1> QED  BY <1>3, <1>4, <1>6, <1>7, PatchCases

LEMMA FinishInPlace == ASSUME Types, NEW p \in Procs, Finish(p), OneSource, InPlace PROVE InPlace'
<1>1. /\ source' = source /\ UNCHANGED <<parts, tus, object>> /\ loc[p].pc = "finish"
      /\ row' = [row EXCEPT !.state = "complete", !.sha = source[p]]
    BY DEF Finish, Calm, At
<1>2. row'.key = row.key /\ row'.sha = source[p]
    BY <1>1, TypesOf DEF Rows
<1>3. RowShaped(row', File, object')
    BY <1>1, <1>2, OneFile, ShapedOf DEF MemoryShaped, RowShaped
<1>4. Moved(p, Process("done", None)) /\ MemoryShaped(p, Process("done", None), row.key, File, object')
    BY OverMoves, ProcessShaped DEF Finish
<1>5. /\ \A a, q \in Procs : Shaped(row.key, File, PartChunks[a], parts'[q])
      /\ \A u \in Urls : TusShaped(tus'[u], row.key, File, object')
      /\ object' \in {<<>>, Whole(row.key, File)} /\ object' = object
    BY <1>1 DEF InPlace
<1> QED  BY <1>1, <1>2, <1>3, <1>4, <1>5, InPlaceAfter

LEMMA ServerInPlace ==
    ASSUME Types, NEW u \in Urls, SaveUrl(u) \/ TusExpire(u), InPlace
    PROVE  InPlace'
<1>1. CASE SaveUrl(u)
    <2>1. source' = source /\ UNCHANGED <<parts, object, loc, tus>>
        BY <1>1 DEF SaveUrl, Calm, Fault
    <2>2. row'.key = row.key /\ row'.state = row.state /\ row'.sha = row.sha
        <3>1. row' = row \/ row' = [row EXCEPT !.tusUrl = u]
            BY <1>1 DEF SaveUrl
        <3> QED  BY <3>1 DEF Types, ServerTypes, RowOK, Rows
    <2>3. \A v \in Urls : TusShaped(tus'[v], row.key, File, object)
        BY <2>1 DEF InPlace
    <2> QED  BY <2>1, <2>2, <2>3, InPlaceAlone
<1>2. CASE TusExpire(u)
    <2>1. source' = source /\ UNCHANGED <<row, parts, object, loc>>
        BY <1>2 DEF TusExpire, Fault
    <2>2. ASSUME NEW v \in Urls PROVE TusShaped(tus'[v], row.key, File, object)
        <3>1. tus'[v] = tus[v] \/ (tus'[v].bytes = <<>> /\ tus'[v].state = "gone")
            BY <1>2 DEF TusExpire, Types, ServerTypes
        <3>2. Len(<<>>) = 0 /\ Stretch(Stream(row.key, File), 0, 0) = <<>>
            BY EmptyStretch
        <3> QED  BY <3>1, <3>2 DEF InPlace, TusShaped
    <2> QED  BY <2>1, <2>2, InPlaceAlone
<1> QED  BY <1>1, <1>2

LEMMA InPlaceInit == ASSUME Init PROVE InPlace
<1>1. /\ \A q \in Procs, n \in PartNumbers : parts[q][n] = <<>>
      /\ \A u \in Urls : tus[u].bytes = <<>> /\ tus[u].state = "none"
      /\ object = <<>> /\ row.state = "absent"
    BY EmptyList DEF Init
<1>2. \A a, q \in Procs : Shaped(row.key, File, PartChunks[a], parts[q])
    BY <1>1 DEF Shaped
<1>3. \A u \in Urls : TusShaped(tus[u], row.key, File, object)
    <2>1. Len(<<>>) = 0 /\ Stretch(Stream(row.key, File), 0, 0) = <<>>
        BY EmptyStretch
    <2> QED  BY <1>1, <2>1 DEF TusShaped
<1>4. ASSUME NEW p \in Procs PROVE MemoryShaped(p, loc[p], row.key, File, object)
    <2>1. loc[p] = Process("fresh", None)
        BY DEF Init
    <2> QED  BY <2>1, ProcessShaped
<1> QED  BY <1>1, <1>2, <1>3, <1>4 DEF InPlace, RowShaped

LEMMA InPlaceStep ==
    ASSUME Types, [Next]_vars, OneSource, OneLayout, InPlace
    PROVE  InPlace'
<1>1. ASSUME UNCHANGED vars PROVE InPlace'
    <2>1. UNCHANGED <<source, row, parts, tus, object, loc>>
        BY <1>1 DEF vars, server
    <2> QED  BY <2>1, InPlaceAlone DEF InPlace
<1>2. ASSUME NEW p \in Procs, ProcStep(p) PROVE InPlace'
    BY <1>2, LightInPlace, InsertInPlace, ListInPlace, HashInPlace, PartInPlace, FetchInPlace,
       CompleteInPlace, PostInPlace, PatchInPlace, FinishInPlace DEF ProcStep
<1> QED  BY <1>1, <1>2, LightInPlace, ServerInPlace DEF Next, Quiet

-----------------------------------------------------------------------------
(* The refinement. *)

LEMMA IInvInit == ASSUME Init PROVE IInv
BY InitTypes, HashedInit, InPlaceInit DEF IInv

LEMMA IInvStep == ASSUME IInv, [Next]_vars PROVE IInv'
<1>1. OneSource' <=> OneSource
    BY SourceStays DEF OneSource
<1>2. OneLayout' <=> OneLayout
    BY DEF OneLayout
<1> QED  BY <1>1, <1>2, TypesStep, HashedStep, InPlaceStep DEF IInv

(* The first unit of a chunk is of that chunk. *)
LEMMA FirstUnit ==
    ASSUME NEW c \in Chunks, NEW i, i = c * ChunkUnits + 1
    PROVE  i \in 1..Size /\ (i - 1) \div ChunkUnits = c
<1> DEFINE u == c * ChunkUnits
           q == u \div ChunkUnits
<1>1. c \in Nat /\ c + 1 <= ChunkCount /\ u \in Nat
    BY Constants DEF Chunks
<1>2. (c + 1) * ChunkUnits = u + ChunkUnits
    BY <1>1, Constants
<1>3. (c + 1) * ChunkUnits <= Size
    BY <1>1, Times, Constants DEF Size
<1>4. q \in Nat /\ q * ChunkUnits <= u /\ u < q * ChunkUnits + ChunkUnits
    BY <1>1, Quotient, Constants
<1> HIDE DEF q
<1>5. q * ChunkUnits \in Nat
    BY <1>4, Constants
<1>6. ASSUME q + 1 <= c PROVE FALSE
    <2>1. (q + 1) * ChunkUnits <= u
        BY <1>1, <1>4, <1>6, Times, Constants
    <2>2. (q + 1) * ChunkUnits = q * ChunkUnits + ChunkUnits
        BY <1>4, Constants
    <2> QED  BY <1>1, <1>4, <1>5, <2>1, <2>2, Constants
<1>7. ASSUME c + 1 <= q PROVE FALSE
    <2>1. (c + 1) * ChunkUnits <= q * ChunkUnits
        BY <1>1, <1>4, <1>7, Times, Constants
    <2> QED  BY <1>1, <1>2, <1>4, <1>5, <2>1, Constants
<1>8. q = c
    BY <1>1, <1>4, <1>6, <1>7
<1>9. i - 1 = u
    BY <1>1
<1>10. i \in 1..Size
    BY <1>1, <1>2, <1>3, Constants
<1> QED  BY <1>8, <1>9, <1>10 DEF q

(* What a reader gets of an asset all of whose processes had one file. *)
LEMMA ReadableIs ==
    ASSUME Hashed, InPlace, row.state = "complete"
    PROVE  Readable = File
<1>1. row.sha = File /\ object = Whole(row.key, File)
    BY DEF InPlace, RowShaped
<1>2. object = [i \in 1..Size |-> Ref(row.key, File, (i - 1) \div ChunkUnits)]
    BY <1>1, WholeIs
<1>3. ASSUME NEW c \in Chunks PROVE hashes[c] = object[c * ChunkUnits + 1]
    <2> DEFINE i == c * ChunkUnits + 1
    <2>0. i = c * ChunkUnits + 1
        OBVIOUS
    <2> HIDE DEF i
    <2>1. i \in 1..Size /\ (i - 1) \div ChunkUnits = c
        BY <2>0, FirstUnit
    <2>2. object[i] = Ref(row.key, File, c)
        BY <1>2, <2>1
    <2>3. object[i] \in DescribedNow
        <3>1. object \in Seq(DescribedNow) /\ Len(object) = Size
            BY <1>1, WholeIs DEF Hashed
        <3> QED  BY <2>1, <3>1
    <2>4. PICK d \in KnownNow : object[i] = Ref(row.key, File, d)
        BY <2>3 DEF DescribedNow, KnownNow, Described
    <2>5. Ref(row.key, File, c).idx = c /\ Ref(row.key, File, d).idx = d
        BY DEF Ref
    <2>6. c = d /\ hashes[d] = Ref(row.key, File, d)
        BY <2>2, <2>4, <2>5 DEF KnownNow, Known
    <2>7. hashes[c] = object[i]
        BY <2>4, <2>6
    <2> QED  BY <2>7 DEF i
<1>4. object = [i \in 1..Size |-> [key |-> row.key, content |-> row.sha,
                                   idx |-> (i - 1) \div ChunkUnits]]
    BY <1>1, <1>2 DEF Ref
<1> QED  BY <1>1, <1>3, <1>4 DEF Readable

(* What the row's state promises. *)
RowPromise == IF row.state # "complete" THEN "nothing"
              ELSE IF OneSource THEN File ELSE "unspecified"

PromiseKept == Promised = RowPromise

LEMMA PromisedIs == IInv /\ OneLayout => PromiseKept
<1> SUFFICES ASSUME IInv, OneLayout PROVE Promised = RowPromise
    BY DEF PromiseKept
<1>1. CASE row.state # "complete"
    BY <1>1 DEF Promised, Readable, RowPromise
<1>2. CASE row.state = "complete" /\ ~OneSource
    BY <1>2 DEF Promised, RowPromise
<1>3. CASE row.state = "complete" /\ OneSource
    BY <1>3, ReadableIs DEF IInv, Promised, RowPromise
<1> QED  BY <1>1, <1>2, <1>3

LEMMA FileGiven == ASSUME Types, Procs # {} PROVE File \in Contents
<1> DEFINE p == CHOOSE p \in Procs : TRUE
<1>1. p \in Procs /\ File = source[p] /\ source \in Sources
    BY DEF Types, ServerTypes, File
<1> HIDE DEF p
<1> QED  BY <1>1 DEF Contents

(* The row moves forward, one state at a time. *)
LEMMA RowMoves ==
    ASSUME Types, [Next]_vars
    PROVE  \/ row'.state = row.state
           \/ row.state = "absent" /\ row'.state = "uploading"
           \/ row.state = "uploading" /\ row'.state = "complete" /\ Procs # {}
<1>1. row \in Rows
    BY DEF Types, ServerTypes, RowOK
<1>2. ASSUME NEW p \in Procs, Finish(p)
      PROVE  row'.state = "complete" /\ row.state \in {"uploading", "complete"}
    <2>1. MemoryOK(p, loc[p], row) /\ loc[p].pc = "finish"
        BY <1>2, TypesOf DEF Finish, At
    <2> QED  BY <1>1, <1>2, <2>1 DEF Finish, MemoryOK, Waiting, Rows
<1>3. ASSUME NEW p \in Procs, InsertAsset(p), row.state = "absent" PROVE row'.state = "uploading"
    <2>1. PICK m \in Methods : Inserted(p, m)
        BY <1>3 DEF InsertAsset
    <2> QED  BY <1>1, <2>1 DEF Inserted, Rows
<1>4. ASSUME NEW p \in Procs, InsertAsset(p), row.state # "absent" PROVE row' = row
    BY <1>4 DEF InsertAsset, Refused, server
<1>5. ASSUME NEW p \in Procs, PatchUploadId(p) PROVE row'.state = row.state
    BY <1>1, <1>5 DEF PatchUploadId, Rows
<1>6. ASSUME NEW u \in Urls, SaveUrl(u) PROVE row'.state = row.state
    BY <1>1, <1>6 DEF SaveUrl, Rows
<1>7. ASSUME NEW p \in Procs, ProcStep(p), ~Finish(p), ~InsertAsset(p), ~PatchUploadId(p)
      PROVE  row' = row
    BY <1>7 DEF ProcStep, StartUpload, CreateMultipartUpload, StartResume, ListParts, HashPart,
                UploadPart, FetchEtags, CompleteMultipartUpload, TusPost, TusHead, TusHash,
                TusPatch, Stored, Refused, server
<1>8. ASSUME NEW p \in Procs, Stop(p) PROVE row' = row
    BY <1>8 DEF Stop, Refused, server
<1>9. ASSUME NEW u \in Urls, TusExpire(u) PROVE row' = row
    BY <1>9 DEF TusExpire
<1>10. ASSUME UNCHANGED vars PROVE row' = row
    BY <1>10 DEF vars, server
<1> QED  BY <1>2, <1>3, <1>4, <1>5, <1>6, <1>7, <1>8, <1>9, <1>10 DEF Next, Quiet

(* An upload implements Asset, for any number of processes and faults: it   *)
(* becomes complete once, what its readers then get is the file that was    *)
(* given to the processes, decrypted from chunks that are all in place and  *)
(* all described, and no process still at work changes it.  The processes   *)
(* cut parts of one size: resume() takes parts it did not cut for its own.  *)
THEOREM Implements == ASSUME OneLayout PROVE Spec => AssetSpec
<1>1. Init => A!Init
    <2> SUFFICES ASSUME Init PROVE row.state = "absent" /\ Promised = "nothing"
        BY DEF A!Init
    <2>1. row.state = "absent"
        BY DEF Init
    <2> QED  BY <2>1 DEF Promised, Readable
<1>2. IInv /\ PromiseKept /\ PromiseKept' /\ [Next]_vars => [A!Next]_<<row.state, Promised>>
    <2> SUFFICES ASSUME IInv, PromiseKept, PromiseKept', [Next]_vars
                 PROVE  [A!Next]_<<row.state, Promised>>
        OBVIOUS
    <2>1. Types
        BY DEF IInv
    <2>2. (OneSource' <=> OneSource) /\ File' = File
        BY SourceStays DEF OneSource, File
    <2>3. Promised = RowPromise /\ Promised' = RowPromise'
        BY DEF PromiseKept
    <2>4. CASE row'.state = row.state
        BY <2>2, <2>3, <2>4 DEF RowPromise
    <2>5. CASE row.state = "absent" /\ row'.state = "uploading"
        BY <2>3, <2>5 DEF RowPromise, A!Next, A!Begin
    <2>6. CASE row.state = "uploading" /\ row'.state = "complete" /\ Procs # {}
        <3>1. Promised' \in Contents \cup {"unspecified"}
            BY <2>1, <2>2, <2>3, <2>6, FileGiven DEF RowPromise
        <3>2. A!Publish(Promised')
            BY <2>6 DEF A!Publish
        <3> QED  BY <3>1, <3>2 DEF A!Next
    <2> QED  BY <2>1, <2>4, <2>5, <2>6, RowMoves
<1> QED  BY <1>1, <1>2, IInvInit, IInvStep, PromisedIs, PTL DEF Spec, AssetSpec, A!Spec
=============================================================================
