------------------------------- MODULE Upload --------------------------------
(***************************************************************************)
(* The upload of one encrypted asset and its resumption, upload() and      *)
(* resume() of client-keyed-objects' client/src/upload.ts, over both of    *)
(* its transports (S3 multipart and TUS), the catalogue (catalogue.ts,     *)
(* Postgres) and a storage server.                                         *)
(*                                                                         *)
(* An action is the code up to its next await.  Several processes may work *)
(* on the asset at once, and any of them may stop between two awaits: it   *)
(* was killed, a call failed, or the answer of a call that took effect was *)
(* lost.  What it leaves behind is all a later resume() has.               *)
(***************************************************************************)
EXTENDS Integers, Sequences, FiniteSets, SequencesExt, FiniteSetsExt

CONSTANTS
    Procs,          \* client processes
    Methods,        \* the transports an upload may choose
    ChunkCount,     \* chunk_count of the asset
    ChunkUnits,     \* length of a ciphertext chunk
    TusChunk,       \* length of a TUS transport chunk, in the same unit
    PartChunks,     \* per process: its partChunks option
    Sources,        \* what the processes may be given: functions from Procs
                    \* to contents, all of one size
    Urls,           \* TUS uploads the server can have: 1..n
    MaxFaults,      \* per method, once the row exists: how often a process stops,
                    \* an answer is lost or a TUS upload expires
    None

ASSUME ProcsAssumption == IsFiniteSet(Procs) /\ None \notin Procs
ASSUME ChunkAssumption == /\ ChunkCount \in Nat \ {0}
                          /\ PartChunks \in [Procs -> Nat \ {0}]
ASSUME TusAssumption == /\ ChunkUnits \in Nat \ {0}
                        /\ TusChunk \in 1..ChunkUnits /\ Urls \subseteq Nat
ASSUME FaultsAssumption == MaxFaults \in [Methods -> Nat]

Contents == {s[p] : s \in Sources, p \in Procs}
Chunks == 0..(ChunkCount - 1)
PartNumbers == 1..ChunkCount
Size == ChunkCount * ChunkUnits
(* A ciphertext chunk: encryption is a function of key, plaintext and index.*)
Ciphers == [key: Procs, content: Contents, idx: Chunks]
Bytes == Seq(Ciphers)       \* each unit names the ciphertext chunk it is of
NoParts == [n \in PartNumbers |-> <<>>]

VARIABLES
    source,         \* the content each process was given
    row,            \* the asset row
    hashes,         \* app.asset_chunks: which ciphertext each hash describes
    mpu,            \* multipart uploads on the server, by the process that created them
    parts,          \* their parts
    tus,            \* TUS uploads on the server
    object,         \* the object under object_key
    patching,       \* PATCHes of tus_url that are under way: nobody awaits them
    loc,            \* what each process has in memory
    faults,
    torn            \* the upload was stopped between two writes that belong together

server == <<row, hashes, mpu, parts, tus, object, patching>>
vars   == <<source, server, loc, faults, torn>>

PCs == {"fresh", "insert", "open", "patchId", "list", "hash", "send", "etags",
        "complete", "post", "head", "patch", "finish", "idle", "done"}

(* A process: s3_upload_id and the owner of the DEK as it has them, loop    *)
(* index of runParts, parts resume() found, ETags to complete with (an ETag *)
(* is its part's content), TUS url and offset, chunks in CipherSource.cache.*)
Process(l, k) ==
    [pc |-> l, key |-> k, id |-> None, part |-> 0, uploaded |-> NoParts,
     etags |-> NoParts, url |-> None, off |-> 0, cache |-> {}]

TypeOK ==
    /\ source \in Sources
    /\ row \in [state: {"absent", "uploading", "complete"}, method: Methods \cup {None},
                key: Procs \cup {None}, uploadId: Procs \cup {None},
                tusUrl: Urls \cup {None}, sha: Contents \cup {None}]
    /\ \A c \in Chunks : hashes[c] = None \/ hashes[c] \in Ciphers
    /\ mpu \in [Procs -> {"none", "open", "done"}]
    /\ \A p \in Procs : \A n \in PartNumbers : parts[p][n] \in Bytes
    /\ \A u \in Urls : /\ tus[u].state \in {"none", "open", "done", "gone"}
                       /\ tus[u].bytes \in Bytes /\ Len(tus[u].bytes) <= Size
    /\ object \in Bytes
    /\ patching \subseteq Urls
    /\ \A p \in Procs : /\ loc[p].pc \in PCs
                        /\ loc[p].part \in 0..ChunkCount /\ loc[p].off \in 0..Size
                        /\ loc[p].url \in Urls \cup {None}
                        /\ loc[p].cache \subseteq Chunks
    /\ faults \in Nat /\ torn \in BOOLEAN

Init ==
    /\ source \in Sources
    /\ row = [state |-> "absent", method |-> None, key |-> None, uploadId |-> None,
              tusUrl |-> None, sha |-> None]
    /\ hashes = [c \in Chunks |-> None]
    /\ mpu = [p \in Procs |-> "none"]
    /\ parts = [p \in Procs |-> NoParts]
    /\ tus = [u \in Urls |-> [state |-> "none", bytes |-> <<>>]]
    /\ object = <<>>
    /\ patching = {}
    /\ loc = [p \in Procs |-> Process("fresh", None)]
    /\ faults = 0 /\ torn = FALSE

At(p, l) == loc[p].pc = l
Goto(p, l) == loc' = [loc EXCEPT ![p].pc = l]
Over(p, l) == loc' = [loc EXCEPT ![p] = Process(l, None)]

(* The call is refused or throws: the process is over, another may resume.  *)
Refused(p) == Over(p, "idle") /\ UNCHANGED server

Calm == UNCHANGED <<source, faults, torn>>
MayFail == row.state # "absent" /\ faults < MaxFaults[row.method]
Fault == MayFail /\ faults' = faults + 1 /\ UNCHANGED <<source, torn>>

-----------------------------------------------------------------------------
(* upload(): createAsset; for S3, CreateMultipartUpload and save its id. *)

(* The DEK is wrapped before anything is written. *)
StartUpload(p) ==
    /\ At(p, "fresh")
    /\ loc' = [loc EXCEPT ![p] = Process("insert", p)]
    /\ UNCHANGED server /\ Calm

Inserted(p, m) ==
    /\ row' = [row EXCEPT !.state = "uploading", !.method = m, !.key = loc[p].key]
    /\ Goto(p, IF m = "tus" THEN "post" ELSE "open")
    /\ UNCHANGED <<hashes, mpu, parts, tus, object, patching>>

(* Mutant: the row is upserted, like the chunk hashes. *)
InsertAssetMerging(p) ==
    /\ At(p, "insert")
    /\ \E m \in Methods : Inserted(p, m)
    /\ Calm

(* insertAsset: the row's id is the primary key. *)
InsertAsset(p) ==
    /\ At(p, "insert")
    /\ IF row.state = "absent" THEN \E m \in Methods : Inserted(p, m) ELSE Refused(p)
    /\ Calm

CreateMultipartUpload(p) ==
    /\ At(p, "open")
    /\ mpu' = [mpu EXCEPT ![p] = "open"]
    /\ loc' = [loc EXCEPT ![p].id = p, ![p].pc = "patchId"]
    /\ UNCHANGED <<row, hashes, parts, tus, object, patching>> /\ Calm

(* Mutant: the upload id is kept in memory only. *)
PatchUploadIdForgets(p) ==
    /\ At(p, "patchId")
    /\ Goto(p, "hash")
    /\ UNCHANGED server /\ Calm

PatchUploadId(p) ==
    /\ At(p, "patchId")
    /\ row' = [row EXCEPT !.uploadId = loc[p].id]
    /\ Goto(p, "hash")
    /\ UNCHANGED <<hashes, mpu, parts, tus, object, patching>> /\ Calm

-----------------------------------------------------------------------------
(* resume(): the row, the DEK, and what the server says it has. *)

(* getAsset and unwrapDek.  upload_state is not looked at. *)
StartResume(p) ==
    /\ loc[p].pc \in {"fresh", "idle"}
    /\ row.state # "absent"
    /\ loc' = [loc EXCEPT ![p] =
                 [Process(IF row.method # "tus" THEN "list"
                          ELSE IF row.tusUrl = None THEN "post" ELSE "head", row.key)
                  EXCEPT !.id = row.uploadId, !.url = row.tusUrl]]
    /\ UNCHANGED server /\ Calm

(* The multipart upload p has the id of is still open. *)
Open(p) == loc[p].id # None /\ mpu[loc[p].id] = "open"

ListParts(p) ==
    /\ At(p, "list")
    /\ IF Open(p)
       THEN /\ loc' = [loc EXCEPT ![p].uploaded = parts[loc[p].id], ![p].pc = "hash"]
            /\ UNCHANGED server
       ELSE Refused(p)
    /\ Calm

-----------------------------------------------------------------------------
(* runParts: hash, then send, part by part; then complete. *)

PartCount(p) == (ChunkCount + PartChunks[p] - 1) \div PartChunks[p]

(* First and last chunk of the part process p is at (mutant: the last part  *)
(* is as long as the others).                                               *)
FirstChunk(p) == loc[p].part * PartChunks[p]
LastChunkUnbounded(p) == FirstChunk(p) + PartChunks[p] - 1
LastChunk(p) == Min({ChunkCount - 1, FirstChunk(p) + PartChunks[p] - 1})

(* Mutant: a resuming process draws a fresh key. *)
CipherFreshKey(p, c) == [key |-> p, content |-> source[p], idx |-> c]

(* encryptChunk: deterministic given the DEK and the nonce prefix. *)
Cipher(p, c) == [key |-> loc[p].key, content |-> source[p], idx |-> c]

(* The ciphertext stream of process p, units a up to b. *)
EncryptRange(p, a, b) == [i \in 1..(b - a) |-> Cipher(p, (a + i - 1) \div ChunkUnits)]

PartBytes(p) == EncryptRange(p, FirstChunk(p) * ChunkUnits, (LastChunk(p) + 1) * ChunkUnits)

(* upsertChunks: the rows of these chunks describe what p encrypts. *)
UpsertChunks(p, cs) ==
    hashes' = [c \in Chunks |-> IF c \in cs THEN Cipher(p, c) ELSE hashes[c]]

(* Go to the next part, or on to completion; E is the new etags of p. *)
NextPart(p, E) ==
    loc' = [loc EXCEPT ![p].etags = E, ![p].part = @ + 1,
              ![p].pc = IF loc[p].part + 1 < PartCount(p) THEN "hash"
                        ELSE IF \E n \in 1..PartCount(p) : E[n] = <<>> THEN "etags"
                        ELSE "complete"]

(* upsertChunks for the part; a part the server already has is skipped,     *)
(* whatever its ETag (a mismatch is counted, not acted on).                 *)
HashPart(p) ==
    LET n == loc[p].part + 1
    IN  /\ At(p, "hash")
        /\ UpsertChunks(p, FirstChunk(p)..LastChunk(p))
        /\ IF loc[p].uploaded[n] # <<>>
           THEN NextPart(p, [loc[p].etags EXCEPT ![n] = loc[p].uploaded[n]])
           ELSE Goto(p, "send")
        /\ UNCHANGED <<row, mpu, parts, tus, object, patching>> /\ Calm

(* UploadPart; a browser may not get to see the ETag. *)
UploadPart(p) ==
    LET n == loc[p].part + 1
    IN  /\ At(p, "send")
        /\ IF Open(p)
           THEN /\ parts' = [parts EXCEPT ![loc[p].id][n] = PartBytes(p)]
                /\ \E seen \in {PartBytes(p), <<>>} :
                      NextPart(p, [loc[p].etags EXCEPT ![n] = seen])
                /\ UNCHANGED <<row, hashes, mpu, tus, object, patching>>
           ELSE Refused(p)
        /\ Calm

(* The ETags that were not seen come from ListParts; all must be known now. *)
FetchEtags(p) ==
    LET E == [n \in PartNumbers |->
                 IF loc[p].etags[n] = <<>> THEN parts[loc[p].id][n] ELSE loc[p].etags[n]]
    IN  /\ At(p, "etags")
        /\ IF Open(p) /\ \A n \in 1..PartCount(p) : E[n] # <<>>
           THEN /\ loc' = [loc EXCEPT ![p].etags = E, ![p].pc = "complete"]
                /\ UNCHANGED server
           ELSE Refused(p)
        /\ Calm

(* The server takes the completion only if the upload is open and every     *)
(* listed part has the listed ETag.                                         *)
Completable(p) ==
    Open(p) /\ \A n \in PartNumbers : loc[p].etags[n] \in {<<>>, parts[loc[p].id][n]}

(* The object the listed parts make. *)
Assembled(p) == FlattenSeq([n \in PartNumbers |-> loc[p].etags[n]])

CompleteMultipartUpload(p) ==
    /\ At(p, "complete")
    /\ IF Completable(p)
       THEN /\ object' = Assembled(p)
            /\ mpu' = [mpu EXCEPT ![loc[p].id] = "done"]
            /\ Goto(p, "finish")
            /\ UNCHANGED <<row, hashes, parts, tus, patching>>
       ELSE Refused(p)
    /\ Calm

-----------------------------------------------------------------------------
(* runTus: POST creates the upload, HEAD asks for its offset, PATCH sends   *)
(* the next transport chunk.  tus-js-client repeats a request that failed   *)
(* after asking for the offset again.                                       *)

Unused == {u \in Urls : tus[u].state = "none"}
NewUrl == Min(Unused)

(* The POST: x-upsert is false, so an object in place is a refusal.  The    *)
(* PATCH of tus_url starts with the answer; no answer means another POST.   *)
TusPost(p) ==
    /\ At(p, "post")
    /\ IF object # <<>> THEN Refused(p) /\ Calm
       ELSE /\ Unused # {}
            /\ tus' = [tus EXCEPT ![NewUrl].state = "open"]
            /\ \/ /\ loc' = [loc EXCEPT ![p].url = NewUrl, ![p].off = 0, ![p].pc = "patch"]
                  /\ patching' = patching \cup {NewUrl}
                  /\ Calm
               \/ UNCHANGED <<loc, patching>> /\ Fault
            /\ UNCHANGED <<row, hashes, mpu, parts, object>>

(* onUploadUrlAvailable: the patch reaches the row, or is lost. *)
SaveUrl(u) ==
    /\ u \in patching
    /\ patching' = patching \ {u}
    /\ \/ row' = [row EXCEPT !.tusUrl = u] /\ Calm
       \/ UNCHANGED row /\ Fault
    /\ UNCHANGED <<hashes, mpu, parts, tus, object, loc>>

(* The HEAD; an upload the server no longer knows is created anew. *)
TusHead(p) ==
    LET u == tus[loc[p].url]
    IN  /\ At(p, "head")
        /\ loc' = [loc EXCEPT
                     ![p].off = Len(u.bytes),
                     ![p].pc = IF u.state = "gone" THEN "post"
                               ELSE IF u.state = "done" THEN "finish" ELSE "patch"]
        /\ UNCHANGED server /\ Calm

SliceEnd(p) == Min({Size, loc[p].off + TusChunk})

(* The chunks the next slice needs and CipherSource has not cached. *)
Uncached(p) ==
    (loc[p].off \div ChunkUnits)..((SliceEnd(p) - 1) \div ChunkUnits) \ loc[p].cache

(* CipherSource.chunk: hash first, then keep this chunk and the one before. *)
TusHash(p) ==
    LET i == Min(Uncached(p))
    IN  /\ At(p, "patch") /\ Uncached(p) # {}
        /\ UpsertChunks(p, {i})
        /\ loc' = [loc EXCEPT ![p].cache = {k \in @ \cup {i} : k >= i - 1}]
        /\ UNCHANGED <<row, mpu, parts, tus, object, patching>> /\ Calm

(* The server has the first n units of p's slice; the last one makes the    *)
(* object.                                                                  *)
Stored(p, n) ==
    LET u == loc[p].url
        b == tus[u].bytes \o EncryptRange(p, loc[p].off, loc[p].off + n)
        whole == Len(b) = Size
    IN  /\ tus' = [tus EXCEPT ![u] = [state |-> IF whole THEN "done" ELSE "open", bytes |-> b]]
        /\ object' = IF whole THEN b ELSE object
        /\ UNCHANGED <<row, hashes, mpu, parts, patching>>

(* Mutant: the offset of the request is not compared with the server's. *)
TusPatchUnguarded(p) ==
    /\ At(p, "patch") /\ Uncached(p) = {}
    /\ Stored(p, SliceEnd(p) - loc[p].off)
    /\ loc' = [loc EXCEPT ![p].off = SliceEnd(p),
                          ![p].pc = IF SliceEnd(p) = Size THEN "finish" ELSE "patch"]
    /\ Calm

(* The PATCH: refused for good if the upload is gone or would replace an    *)
(* object; repeated after a HEAD if its offset is not the server's, or if   *)
(* its answer is lost, whatever part of it was stored.                      *)
TusPatch(p) ==
    LET u == tus[loc[p].url]
        n == SliceEnd(p) - loc[p].off
    IN  /\ At(p, "patch") /\ Uncached(p) = {}
        /\ IF u.state = "gone" \/ (u.state = "open" /\ SliceEnd(p) = Size /\ object # <<>>)
           THEN Refused(p) /\ Calm
           ELSE IF u.state = "done" \/ loc[p].off # Len(u.bytes)
           THEN Goto(p, "head") /\ UNCHANGED server /\ Calm
           ELSE \/ /\ Stored(p, n)
                   /\ loc' = [loc EXCEPT ![p].off = SliceEnd(p),
                                ![p].pc = IF SliceEnd(p) = Size THEN "finish" ELSE "patch"]
                   /\ Calm
                \/ \E k \in 0..n : Stored(p, k) /\ Goto(p, "head") /\ Fault

-----------------------------------------------------------------------------
(* finish(): the plaintext hash and upload_state = complete. *)
Finish(p) ==
    /\ At(p, "finish")
    /\ row' = [row EXCEPT !.state = "complete", !.sha = source[p]]
    /\ Over(p, "done")
    /\ UNCHANGED <<hashes, mpu, parts, tus, object, patching>> /\ Calm

(* The windows between two writes: an S3 upload the row does not name yet,  *)
(* and an object the row does not call complete, unless the row names the   *)
(* TUS upload that made it and no other name is under way to it.            *)
Tears(p) ==
    \/ loc[p].pc \in {"open", "patchId"}
    \/ /\ loc[p].pc = "finish" /\ row.state = "uploading"
       /\ row.method = "tus" => row.tusUrl # loc[p].url \/ patching # {}

(* A process is killed or one of its calls fails, before or after it took   *)
(* effect.                                                                  *)
Stop(p) ==
    /\ loc[p].pc \notin {"fresh", "idle", "done"}
    /\ MayFail /\ faults' = faults + 1
    /\ torn' = (torn \/ Tears(p))
    /\ Refused(p) /\ UNCHANGED source

(* The server forgets a TUS upload that was not finished in time. *)
TusExpire(u) ==
    /\ tus[u].state = "open"
    /\ tus' = [tus EXCEPT ![u] = [state |-> "gone", bytes |-> <<>>]]
    /\ Fault
    /\ UNCHANGED <<row, hashes, mpu, parts, object, patching, loc>>

(* Every process is over. *)
Quiet ==
    /\ \A p \in Procs : At(p, "done")
    /\ UNCHANGED vars

ProcStep(p) ==
    \/ StartUpload(p) \/ InsertAsset(p) \/ CreateMultipartUpload(p) \/ PatchUploadId(p)
    \/ StartResume(p) \/ ListParts(p) \/ HashPart(p) \/ UploadPart(p) \/ FetchEtags(p)
    \/ CompleteMultipartUpload(p) \/ TusPost(p) \/ TusHead(p) \/ TusHash(p) \/ TusPatch(p)
    \/ Finish(p)

Next ==
    \/ \E p \in Procs : ProcStep(p) \/ Stop(p)
    \/ \E u \in Urls : SaveUrl(u) \/ TusExpire(u)
    \/ Quiet

Spec == Init /\ [][Next]_vars

(* Awaited calls answer and the operator resumes an upload that stopped.    *)
FairSpec == Spec /\ \A p \in Procs : WF_vars(ProcStep(p))

-----------------------------------------------------------------------------
(* What an upload promises. *)

OneSource == \A p, q \in Procs : source[p] = source[q]

(* "Any byte on the server has a hash in the catalogue": whatever process   *)
(* stored it and over whichever transport, every byte of a part, of a TUS   *)
(* upload and of the object belongs to the ciphertext its row of            *)
(* asset_chunks describes, at every moment.                                 *)
StoredBytesHashed ==
    OneSource =>
        \A b \in {parts[p][n] : p \in Procs, n \in PartNumbers}
                    \cup {tus[u].bytes : u \in Urls} \cup {object} :
            \A i \in 1..Len(b) : hashes[b[i].idx] = b[i]

(* What decrypting the object with the row's key gives: the content all     *)
(* chunks are of, if every hash describes its chunk and all are in place.   *)
Readable ==
    IF row.state # "complete" THEN "nothing"
    ELSE IF /\ object = [i \in 1..Size |-> [key |-> row.key, content |-> row.sha,
                                            idx |-> (i - 1) \div ChunkUnits]]
            /\ \A c \in Chunks : hashes[c] = object[c * ChunkUnits + 1]
         THEN row.sha
         ELSE "garbage"

(* What a reader is promised; nothing of an asset whose processes were      *)
(* given different files.                                                   *)
Promised ==
    IF row.state = "complete" /\ ~OneSource THEN "unspecified" ELSE Readable

A == INSTANCE Asset WITH state <- row.state, readable <- Promised, Nothing <- "nothing",
                         Contents <- Contents \cup {"unspecified"}

(* The detailed upload implements Asset: it becomes complete once, with a   *)
(* content a reader can get, and no process that is still at work on it     *)
(* changes what its readers get after that.                                 *)
AssetSpec == A!Spec

(* "Continue an interrupted upload from a new process, using only the       *)
(* catalogue row and the server's state": an upload that was begun is       *)
(* completed in the end, however often processes stop, answers are lost and *)
(* TUS uploads expire, unless one stopped in a window between two writes    *)
(* (Tears); Resumable drops that exception.                                 *)
Resumed == (row.state = "uploading") ~> (row.state = "complete" \/ torn)

(* The same without the exception. *)
Resumable == (row.state = "uploading") ~> (row.state = "complete")
=============================================================================
