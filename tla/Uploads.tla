------------------------------ MODULE Uploads --------------------------------
(***************************************************************************)
(* One request that brings a log, from its first byte to its answer: the   *)
(* file on disk, the rows of one database session and the message for the  *)
(* workers.  Requests name their files by fresh ids and share none.        *)
(***************************************************************************)
EXTENDS Integers

CONSTANTS
    CHUNK,              \* bytes of one read
    max_upload_bytes, max_paste_bytes,
    Sizes               \* of the logs that are sent

ASSUME UploadAssumption ==
    /\ CHUNK \in Nat \ {0} /\ Sizes \subseteq Nat
    /\ max_upload_bytes \in Nat /\ max_paste_bytes \in Nat

VARIABLES
    sent,     \* what the client sends
    size,     \* bytes read so far
    disk,     \* bytes of the file under upload_dir, or NoFile
    rows,     \* committed and flushed rows of log_files and analyses
    queued,   \* whether the message is in the broker
    result,   \* status code of the answer, 0 before
    upStage

uploadVars == <<sent, size, disk, rows, queued, result, upStage>>

NoFile == -1
NoRows == [flushed |-> FALSE, committed |-> FALSE, size_bytes |-> 0]

\* A paste has one character at least.  Nobody asks whether an upload is blank.
Sent == [source : {"upload"}, bytes : Sizes, blank : {FALSE}]
        \union [source : {"paste"}, bytes : Sizes \ {0}, blank : BOOLEAN]

UploadInit ==
    /\ sent \in Sent
    /\ size = 0 /\ disk = NoFile /\ rows = NoRows
    /\ queued = FALSE /\ result = 0
    /\ upStage = "start"
-----------------------------------------------------------------------------
Answer(code) == result' = code /\ upStage' = "ended"

Open ==
    /\ upStage = "start" /\ sent.source = "upload"
    /\ disk' = 0
    /\ upStage' = "read"
    /\ UNCHANGED <<sent, size, rows, queued, result>>

Smaller(a, b) == IF a < b THEN a ELSE b

MutReadChunk ==  \* Mutant: the limit is tested when the file is complete.
    LET chunk == Smaller(CHUNK, sent.bytes - size) IN
    /\ upStage = "read" /\ chunk > 0
    /\ size' = size + chunk /\ disk' = disk + chunk
    /\ UNCHANGED <<sent, rows, queued, result, upStage>>

\* A file that grows past the limit is removed.
ReadChunk ==
    LET chunk == Smaller(CHUNK, sent.bytes - size) IN
    /\ upStage = "read" /\ chunk > 0
    /\ size' = size + chunk
    /\ IF size' > max_upload_bytes
       THEN disk' = NoFile /\ Answer(413)
       ELSE disk' = disk + chunk /\ UNCHANGED <<result, upStage>>
    /\ UNCHANGED <<sent, rows, queued>>

UploadEnd ==
    /\ upStage = "read" /\ size = sent.bytes
    /\ IF size = 0 THEN disk' = NoFile /\ Answer(400)
       ELSE upStage' = "register" /\ UNCHANGED <<disk, result>>
    /\ UNCHANGED <<sent, size, rows, queued>>

\* A paste is in memory and checked before it is written.
Paste ==
    /\ upStage = "start" /\ sent.source = "paste"
    /\ IF sent.bytes > max_paste_bytes THEN Answer(413) /\ UNCHANGED disk
       ELSE IF sent.blank THEN Answer(400) /\ UNCHANGED disk
       ELSE /\ disk' = sent.bytes /\ upStage' = "register"
            /\ UNCHANGED result
    /\ size' = sent.bytes
    /\ UNCHANGED <<sent, rows, queued>>

FlushRows ==
    /\ upStage = "register"
    /\ rows' = [flushed |-> TRUE, committed |-> FALSE, size_bytes |-> size]
    /\ upStage' = "accept"
    /\ UNCHANGED <<sent, size, disk, queued, result>>

\* _accept: the commit, and then the message.
CommitRows ==
    /\ upStage = "accept"
    /\ rows' = [rows EXCEPT !.committed = TRUE]
    /\ upStage' = "enqueue"
    /\ UNCHANGED <<sent, size, disk, queued, result>>

Enqueues ==
    /\ upStage = "enqueue"
    /\ queued' = TRUE
    /\ Answer(202)
    /\ UNCHANGED <<sent, size, disk, rows>>

\* The disk, the database or the broker fails; the session is rolled back, a
\* file that is there stays.
UploadFails ==
    /\ upStage \notin {"start", "ended"}
    /\ rows' = [rows EXCEPT !.flushed = rows.committed]
    /\ Answer(500)
    /\ UNCHANGED <<sent, size, disk, queued>>

UploadNext == \/ Open \/ ReadChunk \/ UploadEnd \/ Paste
              \/ FlushRows \/ CommitRows \/ Enqueues \/ UploadFails

UploadSpec == UploadInit /\ [][UploadNext]_uploadVars
-----------------------------------------------------------------------------
(* Properties. *)

\* Types of all variables.
UploadTypeOK ==
    /\ size \in Nat /\ disk \in Nat \union {NoFile}
    /\ rows.size_bytes \in Nat /\ queued \in BOOLEAN
    /\ result \in {0, 202, 400, 413, 500}

\* An upload is whole or gone: a committed row names a file that has all bytes
\* the client sent, within the limit of its source, a message names a committed
\* row, and a refused log leaves neither a row nor a file ("never keep partial
\* oversized files", services/ingestion.py:40).
UploadsAreWholeOrGone ==
    /\ rows.committed =>
          /\ disk = sent.bytes /\ rows.size_bytes = disk /\ disk > 0
          /\ disk <= IF sent.source = "upload" THEN max_upload_bytes
                     ELSE max_paste_bytes
    /\ queued => rows.committed
    /\ result \in {400, 413} => disk = NoFile /\ ~rows.flushed
=============================================================================
