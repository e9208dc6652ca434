---------------------------- MODULE ObjectStorage ---------------------------
(***************************************************************************)
(* packages/storage: the two drivers behind the Storage port, over one     *)
(* key.  drivers/s3.ts sends a stream as one PUT or as a multipart upload  *)
(* whose requests fail or lose their replies; drivers/local.ts writes the  *)
(* data and then its sidecar, and retries.                                 *)
(***************************************************************************)
EXTENDS Integers, SequencesExt, FiniteSets

CONSTANTS Drivers,      \* of "s3" and "local"
          Writers,      \* the calls of put and delete
          Sizes,        \* of the bodies, in chunks of one unit
          PartSize, ChunkSize, MaxTries,
          None

VARIABLES storageDriver, \* the driver in use
          object,       \* S3: the body under the key, or None
          uploads,      \* S3: the multipart uploads that are open: writer -> parts
          data, meta,   \* local: the file and its sidecar (the writer whose metadata it holds), or None
          call,         \* writer -> its call
          settled       \* the writer whose call succeeded with no other about, "nobody" after a doubtful one

storageVars == <<storageDriver, object, uploads, data, meta, call, settled>>

NoCall == [op |-> None, stage |-> "none", size |-> 0, stream |-> TRUE, read |-> 0, buffer |-> <<>>, upload |-> FALSE, parts |-> 0,
           tries |-> 0, alone |-> TRUE, lost |-> FALSE]
Content(w, size) == [i \in 1..size |-> <<w, i>>]

StorageInit ==
    /\ storageDriver \in Drivers
    /\ object = None /\ uploads = [w \in {} |-> <<>>] /\ data = None /\ meta = None
    /\ call = [w \in Writers |-> NoCall] /\ settled = "nobody"

Active == {w \in Writers : call[w].stage \notin {"none", "done"}}
Set(w, c) == call' = [call EXCEPT ![w] = c]

\* A call begins: what the key holds is in doubt until one succeeds alone
Begin(w, op, size, stream) ==
    /\ call[w].stage = "none"
    /\ call' = [v \in Writers |->
          IF v = w THEN [NoCall EXCEPT !.op = op, !.size = size, !.stream = stream, !.alone = Active = {},
                                       !.stage = IF op = "delete" THEN "delete" ELSE IF storageDriver = "local" THEN "open"
                                                 ELSE IF stream THEN "read" ELSE "finish",
                                       !.buffer = IF storageDriver = "s3" /\ ~stream THEN Content(w, size) ELSE <<>>]
          ELSE [call[v] EXCEPT !.alone = FALSE]]
    /\ settled' = "nobody"
    /\ UNCHANGED <<storageDriver, object, uploads, data, meta>>

Succeeds(w) ==
    /\ Set(w, [NoCall EXCEPT !.op = call[w].op, !.size = call[w].size, !.stage = "done"])
    /\ settled' = IF call[w].alone THEN w ELSE settled
Fails(w) ==
    /\ Set(w, [NoCall EXCEPT !.op = call[w].op, !.size = call[w].size, !.stage = "done", !.lost = call[w].lost])
    /\ UNCHANGED settled

-----------------------------------------------------------------------------
(* drivers/s3.ts                                                           *)

\* One signed request: it takes effect and is answered, takes effect unheard, or does nothing
Request(w, effect, nothing, answered, failed) ==
    \/ effect /\ answered
    \/ effect /\ failed
    \/ nothing /\ failed

\* The stream is read into one buffer; a full part goes out before the next chunk is read
ReadChunk(w) ==
    /\ storageDriver = "s3" /\ call[w].stage = "read"
    /\ LET c == call[w]
           next == IF c.size - c.read < ChunkSize THEN c.size ELSE c.read + ChunkSize
           merged == c.buffer \o SubSeq(Content(w, c.size), c.read + 1, next) IN
       Set(w, [c EXCEPT !.read = next, !.buffer = merged,
                        !.stage = IF Len(c.buffer) >= PartSize THEN "part" ELSE IF c.read = c.size THEN "finish"
                                  ELSE IF Len(merged) >= PartSize THEN "part" ELSE "read"])
    /\ UNCHANGED <<storageDriver, object, uploads, data, meta, settled>>

\* A stream that fails, and every failure after initiate: abort, if there is an upload to name
Abandon(w) ==
    IF call[w].upload THEN Set(w, [call[w] EXCEPT !.stage = "abort"]) /\ UNCHANGED settled ELSE Fails(w)
StreamFails(w) ==
    /\ storageDriver = "s3" /\ call[w].stage = "read"
    /\ Abandon(w)
    /\ UNCHANGED <<storageDriver, object, uploads, data, meta>>

Initiate(w) ==
    /\ call[w].stage \in {"part", "tail"} /\ ~call[w].upload
    /\ Request(w, uploads' = [v \in DOMAIN uploads \cup {w} |-> IF v = w THEN <<>> ELSE uploads[v]], UNCHANGED uploads,
               Set(w, [call[w] EXCEPT !.upload = TRUE]) /\ UNCHANGED settled,
               Set(w, [NoCall EXCEPT !.op = "put", !.size = call[w].size, !.stage = "done", !.lost = TRUE]) /\ UNCHANGED settled)
    /\ UNCHANGED <<storageDriver, object, data, meta>>

\* uploadPart: the first partSize of the buffer, or the tail of it
UploadPart(w) ==
    /\ call[w].stage \in {"part", "tail"} /\ call[w].upload
    /\ LET c == call[w]
           n == IF c.stage = "part" THEN PartSize ELSE Len(c.buffer)
           rest == SubSeq(c.buffer, n + 1, Len(c.buffer)) IN
       Request(w, uploads' = [uploads EXCEPT ![w] = Append(SubSeq(@, 1, c.parts), SubSeq(c.buffer, 1, n))], UNCHANGED uploads,
               /\ Set(w, [c EXCEPT !.parts = @ + 1, !.buffer = rest,
                                   !.stage = IF c.stage = "tail" THEN "complete" ELSE IF Len(rest) >= PartSize THEN "part" ELSE "read"])
               /\ UNCHANGED settled,
               Abandon(w))
    /\ UNCHANGED <<storageDriver, object, data, meta>>

\* The stream has ended: an open upload takes the tail and is completed
Finish(w) ==
    /\ call[w].stage = "finish" /\ call[w].upload
    /\ Set(w, [call[w] EXCEPT !.stage = IF call[w].buffer /= <<>> THEN "tail" ELSE "complete"])
    /\ UNCHANGED <<storageDriver, object, uploads, data, meta, settled>>

\* putBytes, and a stream that ended within one part: a single PUT
SinglePut(w) ==
    /\ call[w].stage = "finish" /\ ~call[w].upload
    /\ Request(w, object' = call[w].buffer, UNCHANGED object, Succeeds(w), Fails(w))
    /\ UNCHANGED <<storageDriver, uploads, data, meta>>

\* The store joins the parts that the client names
Complete(w) ==
    /\ call[w].stage = "complete"
    /\ Request(w, /\ object' = FlattenSeq(SubSeq(uploads[w], 1, call[w].parts))
                  /\ uploads' = [v \in DOMAIN uploads \ {w} |-> uploads[v]],
               UNCHANGED <<object, uploads>>, Succeeds(w), Abandon(w))
    /\ UNCHANGED <<storageDriver, data, meta>>

\* Best effort; the upload may be gone already
Abort(w) ==
    /\ call[w].stage = "abort"
    /\ \/ uploads' = [v \in DOMAIN uploads \ {w} |-> uploads[v]] /\ Fails(w)
       \/ /\ UNCHANGED uploads
          /\ Set(w, [NoCall EXCEPT !.op = "put", !.size = call[w].size, !.stage = "done", !.lost = TRUE]) /\ UNCHANGED settled
    /\ UNCHANGED <<storageDriver, object, data, meta>>

S3Delete(w) ==
    /\ storageDriver = "s3" /\ call[w].stage = "delete"
    /\ Request(w, object' = None, UNCHANGED object, Succeeds(w), Fails(w))
    /\ UNCHANGED <<storageDriver, uploads, data, meta>>

-----------------------------------------------------------------------------
(* drivers/local.ts                                                        *)

\* attempt: retried as unavailable; a stream was consumed by the first try and fails at once
Retry(w) ==
    IF call[w].tries < MaxTries
    THEN Set(w, [call[w] EXCEPT !.tries = @ + 1, !.read = 0, !.stage = IF call[w].op = "put" THEN "open" ELSE "delete"]) /\ UNCHANGED settled
    ELSE Fails(w)

\* The file is opened for writing, and with that emptied
Open(w) ==
    /\ call[w].stage = "open"
    /\ data' = <<>>
    /\ IF call[w].stream /\ call[w].tries > 0 THEN Retry(w) ELSE Set(w, [call[w] EXCEPT !.stage = "pump"]) /\ UNCHANGED settled
    /\ UNCHANGED <<storageDriver, object, uploads, meta>>

\* pump, writeFile: at its own offset in the file, a chunk at a time; a file that was deleted meanwhile
\* takes it and is gone with it
Pump(w) ==
    /\ call[w].stage = "pump"
    /\ LET c == call[w]
           at == c.read + 1 IN
       IF c.read = c.size THEN Set(w, [c EXCEPT !.stage = "sidecar"]) /\ UNCHANGED <<data, settled>>
       ELSE \/ /\ data' = IF data = None THEN None
                          ELSE [i \in 1..(IF at > Len(data) THEN at ELSE Len(data)) |->
                                  IF i = at THEN <<w, at>> ELSE IF i <= Len(data) THEN data[i] ELSE <<None, 0>>]
               /\ Set(w, [c EXCEPT !.read = at]) /\ UNCHANGED settled
            \/ Retry(w) /\ UNCHANGED data
    /\ UNCHANGED <<storageDriver, object, uploads, meta>>

WriteSidecar(w) ==
    /\ call[w].stage = "sidecar"
    /\ \/ meta' = w /\ Succeeds(w)
       \/ Retry(w) /\ UNCHANGED meta
    /\ UNCHANGED <<storageDriver, object, uploads, data>>

LocalDelete(w) ==
    /\ storageDriver = "local" /\ call[w].stage = "delete"
    /\ \/ data' = None /\ Set(w, [call[w] EXCEPT !.stage = "rm sidecar"]) /\ UNCHANGED settled
       \/ Retry(w) /\ UNCHANGED data
    /\ UNCHANGED <<storageDriver, object, uploads, meta>>

RemoveSidecar(w) ==
    /\ call[w].stage = "rm sidecar"
    /\ \/ meta' = None /\ Succeeds(w)
       \/ Retry(w) /\ UNCHANGED meta
    /\ UNCHANGED <<storageDriver, object, uploads, data>>

\* The process dies in the middle of a call
Dies(w) ==
    /\ w \in Active
    /\ Set(w, [NoCall EXCEPT !.op = call[w].op, !.size = call[w].size, !.stage = "done", !.lost = TRUE])
    /\ UNCHANGED <<storageDriver, object, uploads, data, meta, settled>>

StorageNext ==
    \E w \in Writers :
        \/ Begin(w, "delete", 0, FALSE) \/ \E size \in Sizes, stream \in BOOLEAN : Begin(w, "put", size, stream)
        \/ ReadChunk(w) \/ StreamFails(w) \/ Initiate(w) \/ UploadPart(w) \/ Finish(w) \/ SinglePut(w) \/ Complete(w) \/ Abort(w)
        \/ S3Delete(w) \/ Open(w) \/ Pump(w) \/ WriteSidecar(w) \/ LocalDelete(w) \/ RemoveSidecar(w) \/ Dies(w)

-----------------------------------------------------------------------------
(* Properties                                                              *)

\* get: the sidecar, then the file
Get == IF storageDriver = "s3" THEN object ELSE IF meta = None \/ data = None THEN None ELSE data

\* What a put or a delete reports is what get then answers, whatever was lost, retried or cut before
\* it, unless another call overlapped; under S3 nobody ever reads part of a body, even of a put that
\* failed; the parts of a failed upload stay behind only if a request of its own was lost; and the
\* driver holds no more of a stream than a part and a chunk.
StoredMeansWhole ==
    /\ settled /= "nobody" => Get = IF call[settled].op = "put" THEN Content(settled, call[settled].size) ELSE None
    /\ settled /= "nobody" /\ storageDriver = "local" /\ call[settled].op = "put" => meta = settled
    /\ object = None \/ \E w \in Writers : call[w].op = "put" /\ object = Content(w, call[w].size)
    /\ \A w \in DOMAIN uploads : w \in Active \/ call[w].lost
    /\ \A w \in Writers : call[w].stream => Len(call[w].buffer) < PartSize + ChunkSize
=============================================================================
