-------------------------- MODULE AttachmentStore --------------------------
(***************************************************************************)
(* The attachments of one task: platform/attachments/store.py (blobs and   *)
(* the private index) and endpoint.py (upload, list, download, delete and  *)
(* hand over to the hub).                                                  *)
(*                                                                         *)
(* The handlers run on the one thread of the server and wait for nothing   *)
(* between their file operations, so they do not interleave; the process   *)
(* may die between two of them, each of them may fail, and a file response *)
(* reads its file after its handler has returned.                          *)
(***************************************************************************)
EXTENDS Integers, Sequences, FiniteSets

CONSTANTS
    MaxUploads,      \* bound on the attachments that are ever stored
    MaxTroubles,     \* bound on the attachments that a failure, a death or an edit strikes
    Uploads,         \* bodies that may be sent: [type, named, allowed, bytes]
    MaxUploadBytes,  \* UPLOAD_FILE_MAX_BYTES
    MaxAttachments,  \* MAX_ATTACHMENTS_PER_TASK
    PerText,         \* LOCAL_TEXT_PER_ATTACHMENT_CHARS
    AllText,         \* LOCAL_TEXT_AGGREGATE_CHARS
    HubFiles         \* UPLOAD_FILE_MAX_COUNT_DEFAULT

ASSUME AttachmentAssumption ==
    /\ Uploads \subseteq [type : {"text", "other"}, named : BOOLEAN, allowed : BOOLEAN, bytes : Nat]
    /\ {MaxUploads, MaxTroubles, MaxUploadBytes, MaxAttachments, PerText, AllText, HubFiles} \subseteq Nat

VARIABLES
    attIndex,  \* the index: sequence of [id, body]
    attBlobs,  \* id -> body, or Spoilt when somebody has changed the file
    attJob,    \* the upload or deletion the server is at, and what it has yet to do
    attSending,\* ids of the file responses that have not read their file
    attAnswer, \* what the server said last
    attPast    \* history: ids [used, faulty, died, deleted]

attVars == <<attIndex, attBlobs, attJob, attSending, attAnswer, attPast>>

Spoilt == [type |-> "spoilt", named |-> FALSE, allowed |-> FALSE, bytes |-> 0]
NoJob == [op |-> "none", id |-> 0, todo |-> <<>>]
NoPast == [used |-> {}, faulty |-> {}, died |-> {}, deleted |-> {}]
NoAnswer == [kind |-> "none"]

AttInit ==
    /\ attIndex = <<>> /\ attBlobs = [i \in {} |-> Spoilt] /\ attJob = NoJob
    /\ attSending = {} /\ attAnswer = NoAnswer /\ attPast = NoPast

Free == attJob.op = "none"
Listed == {attIndex[k].id : k \in DOMAIN attIndex}
Row(id) == attIndex[CHOOSE k \in DOMAIN attIndex : attIndex[k].id = id]
Says(kind) == attAnswer' = [kind |-> kind]
Without(blobs, id) == [i \in DOMAIN blobs \ {id} |-> blobs[i]]
Trouble(id) == Cardinality(attPast.faulty \cup attPast.died \cup {id}) <= MaxTroubles
Faulty(id) == Trouble(id) /\ attPast' = [attPast EXCEPT !.faulty = @ \cup {id}]

-----------------------------------------------------------------------------
(* Upload and deletion.                                                    *)

\* _enforce_content_length, _read_attachment_part and the tests of
\* persist_uploaded_attachment, in their order.
Refusal(b) ==
    IF b.bytes > MaxUploadBytes THEN "upload_too_large"
    ELSE IF ~b.named THEN "invalid_attachment_name"
    ELSE IF ~b.allowed THEN "unsupported_attachment_type"
    ELSE IF Len(attIndex) >= MaxAttachments THEN "attachment_limit"
    ELSE "none"

\* The next id. The code draws 64 random bits, which are taken never to repeat: ids are
\* numbered in the order they are drawn.
Drawn == Cardinality(attPast.used) + 1

UploadSteps == <<"blob", "index">>

\* Faulty variant of DeleteSteps: the blob goes first.
BlobFirst == <<"unlink", "index">>

DeleteSteps == <<"index", "unlink">>

\* persist_uploaded_attachment up to its first file operation.
Upload ==
    /\ Free
    /\ \E b \in Uploads :
        \/ Refusal(b) # "none" /\ Says(Refusal(b)) /\ UNCHANGED <<attJob, attPast>>
        \/ /\ Refusal(b) = "none" /\ UNCHANGED attAnswer
           /\ Drawn <= MaxUploads
           /\ attJob' = [op |-> "upload", id |-> Drawn, todo |-> UploadSteps, body |-> b]
           /\ attPast' = [attPast EXCEPT !.used = @ \cup {Drawn}]
    /\ UNCHANGED <<attIndex, attBlobs, attSending>>

\* delete_attachment up to its first file operation.
Delete ==
    /\ Free
    /\ \E id \in attPast.used :
        IF id \notin Listed THEN Says("not_found") /\ UNCHANGED attJob
        ELSE attJob' = [op |-> "delete", id |-> id, todo |-> DeleteSteps] /\ UNCHANGED attAnswer
    /\ UNCHANGED <<attIndex, attBlobs, attSending, attPast>>

At(step) == ~Free /\ Head(attJob.todo) = step

\* The handler goes on, and answers after its last step.
Proceed ==
    IF Tail(attJob.todo) # <<>> THEN attJob' = [attJob EXCEPT !.todo = Tail(@)] /\ UNCHANGED attAnswer
    ELSE attJob' = NoJob /\ Says(IF attJob.op = "upload" THEN "attachment" ELSE "deleted")

\* An exception: an upload removes its blob, which may fail in its turn.
Give == attJob' = NoJob /\ Says("not_found")
Undone(blobs) == IF attJob.op = "upload" THEN {blobs, Without(blobs, attJob.id)} ELSE {blobs}

\* The rows but those of the attachment that goes, as delete_attachment lists them.
Remaining[k \in 0..Len(attIndex)] ==
    IF k = 0 THEN <<>>
    ELSE IF attIndex[k].id = attJob.id THEN Remaining[k - 1] ELSE Append(Remaining[k - 1], attIndex[k])

NewIndex ==
    IF attJob.op = "upload" THEN Append(attIndex, [id |-> attJob.id, body |-> attJob.body])
    ELSE Remaining[Len(attIndex)]

NewBlobs == [i \in DOMAIN attBlobs \cup {attJob.id} |-> IF i = attJob.id THEN attJob.body ELSE attBlobs[i]]

\* _atomic_write_blob: it may fail before its rename, or after it (chmod).
WriteBlob ==
    /\ At("blob")
    /\ \/ attBlobs' = NewBlobs /\ Proceed /\ UNCHANGED attPast
       \/ attBlobs' \in {attBlobs} \cup Undone(NewBlobs) /\ Give /\ Faulty(attJob.id)
    /\ UNCHANGED <<attIndex, attSending>>

\* _write_index, likewise.
WriteIndex ==
    /\ At("index")
    /\ \/ attIndex' = NewIndex /\ Proceed /\ UNCHANGED attBlobs
          /\ attPast' = IF attJob.op = "delete" /\ Tail(attJob.todo) = <<>>
                        THEN [attPast EXCEPT !.deleted = @ \cup {attJob.id}] ELSE attPast
       \/ attIndex' \in {attIndex, NewIndex} /\ attBlobs' \in Undone(attBlobs) /\ Give /\ Faulty(attJob.id)
    /\ UNCHANGED attSending

\* The last step of delete_attachment; its errors are ignored.
Unlink ==
    /\ At("unlink")
    /\ \/ attBlobs' = Without(attBlobs, attJob.id)
          /\ attPast' = [attPast EXCEPT !.deleted = @ \cup {attJob.id}]
       \/ Trouble(attJob.id) /\ UNCHANGED attBlobs
          /\ attPast' = [attPast EXCEPT !.deleted = @ \cup {attJob.id}, !.faulty = @ \cup {attJob.id}]
    /\ Proceed
    /\ UNCHANGED <<attIndex, attSending>>

\* The process dies and is started again; responses under way are lost.
AttDie ==
    /\ ~Free \/ attSending # {}
    /\ ~Free => Trouble(attJob.id)
    /\ attJob' = NoJob /\ attSending' = {}
    /\ attPast' = [attPast EXCEPT !.died = @ \cup (IF Free THEN {} ELSE {attJob.id})]
    /\ UNCHANGED <<attIndex, attBlobs, attAnswer>>

-----------------------------------------------------------------------------
(* Reading.                                                                *)

Intact(id) == id \in DOMAIN attBlobs /\ attBlobs[id] = Row(id).body

\* list_attachments, resolve_attachment_for_download.
List ==
    /\ Free /\ attAnswer' = [kind |-> "attachments"]
    /\ UNCHANGED <<attIndex, attBlobs, attJob, attSending, attPast>>

\* One file response at a time: they do not act upon each other.
Download ==
    /\ Free /\ attSending = {}
    /\ \E id \in attPast.used :
        IF id \in Listed /\ Intact(id) THEN attSending' = attSending \cup {id} /\ Says("file")
        ELSE Says("not_found") /\ UNCHANGED attSending
    /\ UNCHANGED <<attIndex, attBlobs, attJob, attPast>>

\* FileResponse opens the file when the handler is done; by then it may be gone.
Send ==
    /\ \E id \in attSending :
        /\ attSending' = attSending \ {id}
        /\ IF id \in DOMAIN attBlobs THEN UNCHANGED attAnswer ELSE Says("error")
    /\ UNCHANGED <<attIndex, attBlobs, attJob, attPast>>

Least(a, b) == IF a < b THEN a ELSE b

\* What _read_blob_bounded returns of a blob: nothing of one that is not there.
Readable(id, most) == IF id \in DOMAIN attBlobs THEN Least(attBlobs[id].bytes, most) ELSE 0

\* attachment_context_for_local_ai: how much of each attachment is quoted. A text that
\* cannot be read, or for which nothing is left, counts as extracted with no text.
Quoted[k \in 0..Len(attIndex)] ==
    IF k = 0 THEN [left |-> AllText, of |-> <<>>]
    ELSE LET before == Quoted[k - 1]
             row == attIndex[k]
             text == IF row.body.type = "text" THEN Readable(row.id, Least(PerText, before.left)) ELSE 0
         IN  [left |-> before.left - text, of |-> Append(before.of, text)]

\* The panel asks a local model about the task.
Quote ==
    /\ Free /\ attAnswer' = [kind |-> "context", of |-> Quoted[Len(attIndex)].of]
    /\ UNCHANGED <<attIndex, attBlobs, attJob, attSending, attPast>>

\* platform_send_attachment_to_hub: the paths are handed over unread.
SendToHub ==
    /\ Free
    /\ \E ids \in (SUBSET attPast.used) \ {{}} :
        \/ Cardinality(ids) > HubFiles /\ Says("hub_attachment_count")
        \/ Cardinality(ids) <= HubFiles /\ ~(ids \subseteq Listed) /\ Says("not_found")
        \/ /\ Cardinality(ids) <= HubFiles /\ ids \subseteq Listed
           /\ (Says("hub") \/ Says("unavailable"))
    /\ UNCHANGED <<attIndex, attBlobs, attJob, attSending, attPast>>

\* Somebody changes or removes a file of the workspace.
Spoil ==
    /\ \E id \in DOMAIN attBlobs \ attPast.faulty :
        /\ attBlobs' \in {[attBlobs EXCEPT ![id] = Spoilt], Without(attBlobs, id)}
        /\ Faulty(id)
    /\ UNCHANGED <<attIndex, attJob, attSending, attAnswer>>

AttNext ==
    \/ Upload \/ Delete \/ WriteBlob \/ WriteIndex \/ Unlink \/ AttDie
    \/ List \/ Download \/ Send \/ Quote \/ SendToHub \/ Spoil

AttSpec == AttInit /\ [][AttNext]_attVars

-----------------------------------------------------------------------------
(* Properties.                                                             *)

\* What has no file operation under way and none that failed, was cut off by a death,
\* or was done behind the back of the server.
Settled == attPast.used \ (attPast.faulty \cup attPast.died \cup {attJob.id})

\* Index, files and answers agree, through failures and deaths between the file
\* operations of persist_uploaded_attachment and delete_attachment: a listed attachment
\* has the bytes that were uploaded, at every step and after every death, unless an
\* operation on it failed or somebody changed the file; of what is settled nothing is
\* left that is not listed; what was answered as deleted stays so; and no more is
\* listed than the limit allows.
AttachmentsHold ==
    /\ \A id \in Listed \ attPast.faulty : Intact(id)
    /\ Settled \cap DOMAIN attBlobs \subseteq Listed
    /\ attPast.deleted \cap Listed = {}
    /\ Len(attIndex) <= MaxAttachments
    /\ attAnswer.kind = "context" => \A k \in DOMAIN attAnswer.of : attAnswer.of[k] <= PerText
=============================================================================
