-------------------------------- MODULE Read ---------------------------------
(***************************************************************************)
(* Reading an encrypted asset in client-keyed-objects: readRange() and     *)
(* readAll() of client/src/read.ts with the arithmetic of envelope.ts, the *)
(* caches of rows and keys (read.ts, keys.ts), the key service             *)
(* (keysvc/server.ts) and the policies of the catalogue.                   *)
(*                                                                         *)
(* Lengths are in units: a plaintext unit is its asset and its place, a    *)
(* unit of a ciphertext chunk says of which asset, chunk and chunk count   *)
(* it is and its place: the tag check compares these.  The object in       *)
(* storage may be any of a set of damaged ones, an answer may come short   *)
(* or be the whole object, calls may fail, and the caller may lose its     *)
(* membership at any time.  The CDN in front of the authenticated path     *)
(* answers what it has without asking the policy again, as measured by     *)
(* residency-facts (RUNLOG.md, R05c).  Reads of one process meet in the    *)
(* caches only: one is followed step by step, the others fill them.        *)
(***************************************************************************)
EXTENDS Integers, Sequences, SequencesExt, FiniteSetsExt

CONSTANTS
    Sizes,          \* plaintext_size of the asset, one of these
    Chunk,          \* chunk_size
    Tag,            \* TAG
    Windows,        \* windowChunks of readAll, one of these
    None

ASSUME ChunkAssumption == Chunk \in Nat \ {0} /\ Tag \in Nat \ {0}
ASSUME SizesAssumption == Sizes \subseteq Nat /\ Windows \subseteq Nat \ {0}

(* The units of a ciphertext. *)
Units == [asset: {"ours", "other"}, idx: Nat, count: Nat, pos: Nat, flip: BOOLEAN]

ASSUME NoneAssumption == None \notin {"integrity", "other"} /\ None \notin Seq(Units)

VARIABLES
    size,           \* plaintext_size
    object,         \* the stored bytes
    hashes,         \* app.asset_chunks: the bytes each hash is of
    complete,       \* upload_state of the row
    member,         \* the caller is a member of the tenant
    row,            \* assets: the process has cached the row
    dek,            \* ck.deks: the process has cached the key
    edge,           \* the CDN has the object as it was given to this caller
    read            \* the read

world == <<size, object, hashes, complete, member>>
caches == <<row, dek, edge>>
vars  == <<world, caches, read>>

-----------------------------------------------------------------------------
(* envelope.ts *)

ChunkCount == Max({1, (size + Chunk - 1) \div Chunk})
CipherSize == size + ChunkCount * Tag
CipherOffset(i) == i * (Chunk + Tag)
PlainLen(i) == Max({0, Min({Chunk, size - i * Chunk})})

(* Last ciphertext byte of chunk i (mutant: the last chunk is a whole one). *)
ChunkEndWhole(i) == CipherOffset(i) + Chunk + Tag - 1
ChunkEnd(i) == CipherOffset(i) + PlainLen(i) + Tag - 1

(* Plaintext [a, b): covering chunks and ciphertext bytes, both inclusive. *)
Span(a, b) ==
    LET first == a \div Chunk
        last  == (b - 1) \div Chunk
    IN  [first |-> first, last |-> last, cStart |-> CipherOffset(first), cEnd |-> ChunkEnd(last)]

(* encryptChunk; the tag is its last units. *)
EncryptChunk(asset, i, n, len) ==
    [k \in 1..(len + Tag) |-> [asset |-> asset, idx |-> i, count |-> n, pos |-> k, flip |-> FALSE]]

(* Mutant: the AAD and the nonce do not bind the chunk's index. *)
AuthenticAnywhere(i, ct) ==
    \E k \in 0..(ChunkCount - 1) : ct = EncryptChunk("ours", k, ChunkCount, PlainLen(i))

(* decryptChunk: the tag check of key, nonce, asset, index and count. *)
Authentic(i, ct) == ct = EncryptChunk("ours", i, ChunkCount, PlainLen(i))

Decrypt(ct) ==
    [k \in 1..(Len(ct) - Tag) |-> [asset |-> ct[k].asset, at |-> ct[k].idx * Chunk + ct[k].pos - 1]]

(* Units a to b, counted from 0, as far as there are any. *)
Slice(s, a, b) == SubSeq(s, a + 1, Min({b + 1, Len(s)}))

-----------------------------------------------------------------------------
(* What may be in storage: the asset's own bytes, or a damaged object. *)

Whole(asset) == FlattenSeq([c \in 1..ChunkCount |-> EncryptChunk(asset, c - 1, ChunkCount, PlainLen(c - 1))])
Intact == Whole("ours")

Swapped ==
    IF ChunkCount < 2 THEN Intact
    ELSE EncryptChunk("ours", 1, ChunkCount, PlainLen(1)) \o EncryptChunk("ours", 0, ChunkCount, PlainLen(0))
            \o Slice(Intact, CipherOffset(2), CipherSize)

Objects ==
    {Intact, Swapped, Whole("other"), Append(Intact, Intact[1]),
     SubSeq(Intact, 1, CipherSize - 1), SubSeq(Intact, 1, CipherOffset(ChunkCount - 1)),
     [Intact EXCEPT ![1].flip = TRUE]}

(* The hashes of the chunks of s; a chunk s does not have has no hash. *)
HashesOf(s) == [i \in 0..(ChunkCount - 1) |-> Slice(s, CipherOffset(i), ChunkEnd(i))]

-----------------------------------------------------------------------------
(* The authenticated path goes through the CDN; "s3" stands for it and for  *)
(* the signed paths, for whose signature a membership is needed each time.  *)
Paths == {"s3", "authenticated"}

(* A read: kind, path, range, verifyHashes, log, window size; where it is, start *)
(* of the window, the answers, the plaintext so far, how it ended, whether the *)
(* row readAll has holds the plaintext's hash, whether it began after the   *)
(* membership was lost and whether it got a bad answer.                     *)
NoRead == [pc |-> "free", kind |-> None, path |-> "s3", from |-> 0, to |-> 0, verify |-> FALSE, step |-> 0,
          at |-> 0, got |-> None, want |-> None, plain |-> <<>>, error |-> None,
          log |-> TRUE, sha |-> FALSE, late |-> FALSE, unlucky |-> FALSE]

Init ==
    /\ size \in Sizes
    /\ object \in Objects
    /\ hashes \in {HashesOf(Intact), HashesOf(object)}
    /\ complete \in BOOLEAN /\ member = TRUE
    /\ row = FALSE /\ dek = FALSE /\ edge = FALSE
    /\ read = NoRead

At(l) == read.pc = l
Goto(l) == read' = [read EXCEPT !.pc = l]
Ends(e) == read' = [read EXCEPT !.pc = "done", !.error = e, !.got = None, !.want = None]

(* A call that fails: unreachable, a timeout, a 5xx. *)
CallFails ==
    /\ read.pc \in {"asset", "row", "key", "fetch", "log"}
    /\ Ends("other")
    /\ UNCHANGED <<world, caches>>

(* readRange(start, endExcl), for ranges span() does not throw for; the     *)
(* process may have read before.                                            *)
StartRange ==
    /\ read.pc \in {"free", "done"}
    /\ \E a, b \in 0..size, p \in Paths, v, l \in BOOLEAN :
          /\ a < b
          /\ read' = [NoRead EXCEPT !.pc = "row", !.kind = "range", !.path = p, !.from = a, !.to = b,
                                  !.at = a, !.step = b - a, !.verify = v, !.log = l, !.late = ~member]
    /\ UNCHANGED <<world, caches>>

(* readAll() *)
StartAll ==
    /\ read.pc \in {"free", "done"}
    /\ \E w \in Windows, p \in Paths, v \in BOOLEAN :
          read' = [NoRead EXCEPT !.pc = "asset", !.kind = "all", !.path = p, !.to = size,
                                  !.step = w * Chunk, !.verify = v, !.late = ~member]
    /\ UNCHANGED <<world, caches>>

(* assetOf and getAsset: a complete row is kept; an incomplete one is read  *)
(* again every time.                                                        *)
RowSeen == row \/ member
RowComplete == row \/ complete

(* readAll's own row; an empty asset has no windows. *)
AssetOfAll ==
    /\ At("asset")
    /\ IF RowSeen
       THEN /\ row' = RowComplete
            /\ read' = [read EXCEPT !.sha = RowComplete, !.unlucky = ~RowComplete,
                                  !.pc = IF size > 0 THEN "row" ELSE "log"]
       ELSE Ends("other") /\ UNCHANGED row
    /\ UNCHANGED <<world, dek, edge>>

(* readRange's row. *)
AssetOf ==
    /\ At("row")
    /\ IF RowSeen
       THEN /\ row' = RowComplete
            /\ IF RowComplete THEN Goto("key")
               ELSE read' = [read EXCEPT !.pc = "done", !.error = "integrity", !.unlucky = TRUE]
       ELSE Ends("other") /\ UNCHANGED row
    /\ UNCHANGED <<world, dek, edge>>

(* unwrapDek: kept for the life of the process; the key service checks the  *)
(* membership with the caller's token, for every call.                      *)
UnwrapDek ==
    /\ At("key")
    /\ IF dek \/ member THEN dek' = TRUE /\ Goto("fetch")
       ELSE Ends("other") /\ UNCHANGED dek
    /\ UNCHANGED <<world, row, edge>>

(* The window a read is at. *)
WindowEnd == Min({read.to, read.at + read.step})
WindowSpan == Span(read.at, WindowEnd)

(* The CDN answers what it gave this caller before. *)
EdgeHit == read.path = "authenticated" /\ edge

(* Storage's policy: members read (mutant: whoever is signed in reads), and *)
(* it is not asked on a hit.                                                *)
StorageReadableToAll == TRUE
StorageReadable == member \/ EdgeHit

(* fetchCipher, one half of Promise.all: a part of the object, the whole of *)
(* it, or part of either; total is what Content-Range says.  What goes      *)
(* through the CDN may stay there.                                          *)
FetchCipher ==
    LET sp == WindowSpan
        body == Slice(object, sp.cStart, sp.cEnd)
    IN  /\ At("fetch") /\ read.got = None
        /\ IF ~StorageReadable THEN Ends("other")
           ELSE \/ /\ sp.cStart >= Len(object)
                   /\ Ends("integrity")
                \/ /\ sp.cStart < Len(object)
                   /\ \E b \in {body, Front(body)}, t \in {Len(object), None} :
                         read' = [read EXCEPT !.got = [status |-> 206, bytes |-> b, total |-> t],
                                            !.unlucky = @ \/ b # body]
                \/ \E b \in {object, IF object = <<>> THEN <<>> ELSE Front(object)} :
                         read' = [read EXCEPT !.got = [status |-> 200, bytes |-> b, total |-> None],
                                            !.unlucky = @ \/ b # object]
        /\ edge' \in {edge, edge \/ (StorageReadable /\ read.path = "authenticated")}
        /\ UNCHANGED <<world, row, dek>>

(* chunkHashes, the other half: no rows for somebody who is no member. *)
ChunkHashes ==
    /\ At("fetch") /\ read.want = None
    /\ read' = [read EXCEPT !.want = IF ~read.verify THEN "unchecked"
                                      ELSE IF member THEN "rows" ELSE "none",
                          !.unlucky = @ \/ (read.verify /\ ~member)]
    /\ UNCHANGED <<world, caches>>

BothThere ==
    /\ At("fetch") /\ read.got # None /\ read.want # None
    /\ Goto("check")
    /\ UNCHANGED <<world, caches>>

(* The ciphertext of the window, or None if the object is truncated. *)
Body ==
    LET sp == WindowSpan
        got == read.got
        need == sp.cEnd - sp.cStart + 1
        ignored == got.status = 200 /\ Len(got.bytes) # need
        body == IF ignored THEN Slice(got.bytes, sp.cStart, sp.cEnd) ELSE got.bytes
    IN  IF \/ ignored /\ Len(got.bytes) < CipherSize
           \/ got.total # None /\ got.total # CipherSize
           \/ Len(body) < need
        THEN None ELSE body

(* Ciphertext of chunk i in the window's body. *)
CipherOf(body, i) ==
    LET off == CipherOffset(i) - WindowSpan.cStart
    IN  Slice(body, off, off + PlainLen(i) + Tag - 1)

(* What of the decrypted chunk i belongs to the window. *)
PlainOf(i, ct) ==
    LET from == Max({read.at, i * Chunk})
        to   == Min({WindowEnd, i * Chunk + PlainLen(i)})
    IN  Slice(Decrypt(ct), from - i * Chunk, to - i * Chunk - 1)

(* Every chunk: hash, tag, copy.  Then the next window, or the log. *)
Check ==
    LET sp == WindowSpan
        body == Body
        ct == [i \in sp.first..sp.last |-> CipherOf(body, i)]
        Good(i) == /\ read.want = "unchecked" \/ (read.want = "rows" /\ ct[i] = hashes[i])
                   /\ Authentic(i, ct[i])
        plain == FlattenSeq([c \in 1..(sp.last - sp.first + 1) |-> PlainOf(sp.first + c - 1, ct[sp.first + c - 1])])
    IN  /\ At("check")
        /\ IF body # None /\ \A i \in sp.first..sp.last : Good(i)
           THEN read' = [read EXCEPT !.plain = @ \o plain, !.at = WindowEnd,
                                             !.got = None, !.want = None,
                                             !.pc = IF WindowEnd < read.to THEN "row"
                                                    ELSE IF read.log THEN "log" ELSE "done"]
           ELSE Ends("integrity")
        /\ UNCHANGED <<world, caches>>

(* The plaintext units from a up to b. *)
Content(a, b) == [k \in 1..(b - a) |-> [asset |-> "ours", at |-> a + k - 1]]

(* logAccess, by members only; readAll then compares the plaintext's hash. *)
LogAccess ==
    /\ At("log")
    /\ Ends(IF ~member THEN "other"
               ELSE IF read.kind = "all" /\ ~(read.sha /\ read.plain = Content(0, size)) THEN "integrity"
               ELSE None)
    /\ UNCHANGED <<world, caches>>

-----------------------------------------------------------------------------
(* Around the process. *)

UploadCompletes ==
    /\ ~complete /\ complete' = TRUE
    /\ UNCHANGED <<size, object, hashes, member, caches, read>>

MembershipLost ==
    /\ member /\ member' = FALSE
    /\ UNCHANGED <<size, object, hashes, complete, caches, read>>

(* Another read of the process has got the row, the key or the object. *)
OtherReadCaches ==
    /\ member
    /\ \/ complete /\ row' = TRUE /\ UNCHANGED <<dek, edge>>
       \/ row /\ dek' = TRUE /\ UNCHANGED <<row, edge>>
       \/ row /\ dek /\ edge' = TRUE /\ UNCHANGED <<row, dek>>
    /\ UNCHANGED <<world, read>>

(* Nothing bounds how long the CDN keeps the object. *)
EdgeEvicts ==
    /\ edge /\ edge' = FALSE
    /\ UNCHANGED <<world, row, dek, read>>

ReadStep ==
    \/ StartRange \/ StartAll \/ AssetOfAll \/ AssetOf \/ UnwrapDek \/ FetchCipher
    \/ ChunkHashes \/ BothThere \/ Check \/ LogAccess \/ CallFails

Next == UploadCompletes \/ MembershipLost \/ OtherReadCaches \/ EdgeEvicts \/ ReadStep

Spec == Init /\ [][Next]_vars

-----------------------------------------------------------------------------
(* What a read promises. *)

Returned == At("done") /\ read.error = None

(* "Fails closed on any integrity doubt": a read that returns gives exactly *)
(* the plaintext of its range, with and without the hash check, whatever    *)
(* was done to the object (and to the hashes with it), and whether the      *)
(* server honours the range or not.                                         *)
FailsClosed == Returned => read.plain = Content(read.from, read.to)

(* No false alarm: an integrity error means that the object or its hashes   *)
(* are not the asset's, that the read saw the asset incomplete, or that an  *)
(* answer came short or without the rows of a caller who lost membership.   *)
DoubtIsJustified ==
    read.error = "integrity" =>
        object # Intact \/ hashes # HashesOf(Intact) \/ read.unlucky

(* What losing the membership stops, whatever row and key the process has   *)
(* cached: a read that begins after that returns only if it comes through   *)
(* the CDN with verifyHashes and log both off.  Either of them asks the     *)
(* catalogue, so each stops a read that the CDN would have answered.        *)
RevokedReadsOnlyEdge ==
    Returned /\ read.late => read.path = "authenticated" /\ ~read.verify /\ ~read.log
=============================================================================
