---------------------------- MODULE Attachments ----------------------------
(* Attachment files and the records that refer to them                        *)
(* (internal/harness/attachments.go, attachment_commit.go,                    *)
(* attachment_selection.go, attachment_control.go, channel_attachments.go,    *)
(* conversation_branch.go).  The bytes are files, the records are rows: a     *)
(* file is written before its row, and the commit of the row may get lost.    *)
(* Publication, binding, cleanup, deletion and branching exclude one another  *)
(* by attachmentMu; resolving the attachments of an input, previewing a       *)
(* deletion and the answer of a transport do not.                             *)
(*                                                                            *)
(* One conversation, one Run with an input; the exports are of one source     *)
(* file.  All files have the same size.  Formats, names, identities and       *)
(* spaces are left out.                                                       *)
EXTENDS Naturals, FiniteSets

CONSTANTS
  Ids,         \* names of files and records
  Kinds,       \* what is created: upload, export, reply
  Bodies,      \* contents
  Quota,       \* files that fit
  Features,    \* what else happens: branch, delete, age
  MaxCrashes   \* bound: crashes of the Owner

VARIABLES
  file,     \* attachments/<id>: none, new, or old (past the staging hours)
  row,      \* attachment/<id>
  intent,   \* attachment-commits/<id>.json
  pend,     \* transactions whose commit was not answered and that are not decided
  doubt,    \* records whose commit was ever unanswered
  job,      \* what holds attachmentMu
  run,      \* the input: the attachments it names, and how far it is
  bound,    \* attachments that messages of the conversation name
  preview,  \* the deletion a user has been shown
  send,     \* channel/file-send/<run>/<id>
  queued,   \* exports that were put in the durable queue of the channel
  saved,    \* attachment-reply/<request>
  crashes

vars == <<file, row, intent, pend, doubt, job, run, bound, preview, send, queued, saved, crashes>>
stored == <<file, row, intent, pend, doubt>>

NoRow == [state |-> "none", kind |-> "none", req |-> "", body |-> "", committed |-> FALSE,
          selected |-> FALSE, keep |-> FALSE]
NoPend == [rec |-> NoRow, off |-> {}]
Nobody == CHOOSE i \in Ids : TRUE
Free == [at |-> "free", id |-> Nobody, rec |-> NoRow, off |-> {}]
NoPreview == [id |-> Nobody, rec |-> NoRow]

TypeOK ==
  /\ file \in [Ids -> {"none", "new", "old"}]
  /\ \A i \in Ids : row[i].state \in {"none", "live", "deleted"}
  /\ intent \subseteq Ids /\ bound \subseteq Ids /\ doubt \subseteq Ids /\ queued \subseteq Ids
  /\ job.at \in {"free", "clean", "staged", "insert", "commit", "unlink", "branch"}
  /\ run.at \in {"idle", "resolved", "queued", "active", "limited", "over"}
  /\ send \in [Ids -> {"none", "dispatching", "queued", "sent", "unknown", "failed"}]

Init ==
  /\ file = [i \in Ids |-> "none"] /\ row = [i \in Ids |-> NoRow]
  /\ intent = {} /\ pend = [i \in Ids |-> NoPend] /\ doubt = {}
  /\ job = Free /\ run = [at |-> "idle", refs |-> {}] /\ bound = {} /\ preview = NoPreview
  /\ send = [i \in Ids |-> "none"] /\ queued = {} /\ saved = FALSE /\ crashes = 0

Is(p) == job.at = p
Live(i) == row[i].state = "live"
Files == {i \in Ids : file[i] # "none"}
(* newID: a name that is not in use; names are interchangeable.               *)
Unused == {i \in Ids \ intent : file[i] = "none" /\ row[i] = NoRow /\ pend[i] = NoPend}
NewID == CHOOSE i \in Unused : TRUE

-----------------------------------------------------------------------------
(* createAttachment                                                           *)

Asked(kind, body, keep) ==
  [NoRow EXCEPT !.state = "live", !.kind = kind, !.body = body, !.keep = keep,
                !.req = IF kind = "upload" THEN "upload" ELSE "run", !.committed = kind # "upload"]

(* attachmentMu is taken; cleanupAttachmentsLocked first asks the database    *)
(* for every commit it has a note of: one that is decided needs no note.      *)
Create(kind, body, keep) ==
  /\ Is("free")
  /\ kind = "export" => run.at = "active"
  /\ kind = "reply" => run.at = "over" /\ ~saved
  /\ job' = [Free EXCEPT !.at = "clean", !.rec = Asked(kind, body, keep)]
  /\ intent' = {i \in intent : pend[i] # NoPend}
  /\ UNCHANGED <<file, row, pend, doubt, run, bound, preview, send, queued, saved, crashes>>

Stale(i) == Live(i) /\ ~row[i].committed /\ file[i] = "old" /\ i \notin intent

(* An upload that nobody submitted is revoked, then its file is removed.      *)
Retire(i) ==
  /\ Is("clean") /\ Stale(i)
  /\ row' = [row EXCEPT ![i].state = "deleted"]
  /\ \/ file' = [file EXCEPT ![i] = "none"] /\ UNCHANGED job
     \/ job' = Free /\ UNCHANGED file
  /\ UNCHANGED <<intent, pend, doubt, run, bound, preview, send, queued, saved, crashes>>

(* A file that no row and no note of a commit speaks for.                     *)
Orphan(i) == file[i] = "old" /\ row[i] = NoRow /\ i \notin intent

(* The orphans go, and the new file is written.                               *)
Stage ==
  /\ Is("clean") /\ ~\E i \in Ids : Stale(i)
  /\ Unused # {}
  /\ file' = [i \in Ids |-> IF i = NewID THEN "new" ELSE IF Orphan(i) THEN "none" ELSE file[i]]
  /\ job' = [job EXCEPT !.at = "staged", !.id = NewID] /\ doubt' = doubt \ {NewID}
  /\ UNCHANGED <<row, intent, pend, run, bound, preview, send, queued, saved, crashes>>

(* exportDispatchStarted and selectExportTx: the versions of the source that  *)
(* are selected, whether the new one takes their place, and which then lose   *)
(* it.                                                                        *)
Frozen(i) == send[i] \in {"dispatching", "sent", "unknown"}
Previous(id) == {i \in Ids \ {id} : Live(i) /\ row[i].kind = "export" /\ row[i].req = "run" /\ row[i].selected}
Selects(rec, id) == rec.keep \/ \A i \in Previous(id) : ~Frozen(i)
Replaced(rec, id) == IF Selects(rec, id) /\ ~rec.keep THEN {i \in Previous(id) : ~row[i].keep} ELSE {}
Selected(rec, id) == [rec EXCEPT !.selected = rec.kind = "export" /\ Selects(rec, id)]
Deselect(R, S) == [i \in Ids |-> IF i \in S THEN [R[i] EXCEPT !.selected = FALSE] ELSE R[i]]

(* The record that makes the new file superfluous: the same request of an     *)
(* upload, deleted or not, or the same content of an export.                  *)
Same ==
  {i \in Ids : /\ row[i].kind = job.rec.kind
               /\ \/ job.rec.kind = "upload" /\ row[i].req = job.rec.req
                  \/ /\ job.rec.kind = "export" /\ Live(i)
                     /\ row[i].req = job.rec.req /\ row[i].body = job.rec.body}

UsedFiles == Cardinality(Files \ {job.id})
UsedRows == Cardinality({i \in Ids : Live(i)})
Used == UsedFiles

Discard == file' = [file EXCEPT ![job.id] = "none"] /\ job' = Free

(* identicalExport keeps the old file, selected again; an upload gets the     *)
(* answer of its first time.                                                  *)
Known ==
  /\ Is("staged")
  /\ \E i \in Same :
       LET rec == [row[i] EXCEPT !.keep = @ \/ job.rec.keep] IN
         row' = IF job.rec.kind = "export"
                THEN [Deselect(row, Replaced(rec, i)) EXCEPT ![i] = Selected(rec, i)]
                ELSE row
  /\ Discard
  /\ UNCHANGED <<intent, pend, doubt, run, bound, preview, send, queued, saved, crashes>>

(* The quota is full, or the content is refused, or the call is cancelled.    *)
Refuse ==
  /\ Is("staged") /\ Same = {} /\ Discard
  /\ UNCHANGED <<row, intent, pend, doubt, run, bound, preview, send, queued, saved, crashes>>

(* The row is inserted in a transaction; from here on the file stays.         *)
Insert ==
  /\ Is("staged") /\ Same = {} /\ Used < Quota
  /\ job' = [job EXCEPT !.at = "insert", !.rec = Selected(job.rec, job.id),
                        !.off = IF job.rec.kind = "export" THEN Replaced(job.rec, job.id) ELSE {}]
  /\ UNCHANGED <<stored, run, bound, preview, send, queued, saved, crashes>>

(* commitAttachment: the note of the commit is written before it, and         *)
(* removed after it.                                                          *)
WriteIntent ==
  /\ Is("insert")
  /\ \/ intent' = intent \union {job.id} /\ job' = [job EXCEPT !.at = "commit"]
     \/ job' = Free /\ UNCHANGED intent
  /\ UNCHANGED <<file, row, pend, doubt, run, bound, preview, send, queued, saved, crashes>>

Commit ==
  /\ Is("commit")
  /\ row' = [Deselect(row, job.off) EXCEPT ![job.id] = job.rec]
  /\ job' = [job EXCEPT !.at = "unlink"]
  /\ UNCHANGED <<file, intent, pend, doubt, run, bound, preview, send, queued, saved, crashes>>

InDoubt ==
  /\ pend' = [pend EXCEPT ![job.id] = [rec |-> job.rec, off |-> job.off]]
  /\ doubt' = doubt \union {job.id}

CommitLostRemoves ==
  /\ Is("commit") /\ InDoubt /\ Discard
  /\ UNCHANGED <<row, intent, run, bound, preview, send, queued, saved, crashes>>

(* No answer: note and file are kept.                                         *)
CommitLost ==
  /\ Is("commit") /\ InDoubt /\ job' = Free
  /\ UNCHANGED <<file, row, intent, run, bound, preview, send, queued, saved, crashes>>

(* The note goes; a saved reply is remembered by its request.                 *)
Unlink ==
  /\ Is("unlink")
  /\ intent' = intent \ {job.id} /\ job' = Free
  /\ saved' = (saved \/ job.rec.kind = "reply")
  /\ UNCHANGED <<file, row, pend, doubt, run, bound, preview, send, queued, crashes>>

(* The database ends a transaction whose connection is gone.                  *)
Decide(i) ==
  /\ pend[i] # NoPend /\ pend' = [pend EXCEPT ![i] = NoPend]
  /\ \/ row' = [Deselect(row, pend[i].off) EXCEPT ![i] = pend[i].rec]
     \/ UNCHANGED row
  /\ UNCHANGED <<file, intent, doubt, job, run, bound, preview, send, queued, saved, crashes>>

(* The staging hours of a file are over.                                      *)
Ages(i) ==
  /\ "age" \in Features /\ file[i] = "new" /\ (Is("free") \/ i # job.id) /\ file' = [file EXCEPT ![i] = "old"]
  /\ UNCHANGED <<row, intent, pend, doubt, job, run, bound, preview, send, queued, saved, crashes>>

-----------------------------------------------------------------------------
(* The input and its Run                                                      *)

(* resolveAttachments, without the lock.                                      *)
Resolve(S) ==
  /\ run.at = "idle" /\ \A i \in S : Live(i) /\ file[i] # "none"
  /\ run' = [at |-> "resolved", refs |-> S]
  /\ UNCHANGED <<stored, job, bound, preview, send, queued, saved, crashes>>

(* bindAttachments: every one must still be there, and is kept from now on.   *)
Binds(p) ==
  /\ \A i \in run.refs : Live(i)
  /\ row' = [i \in Ids |-> IF i \in run.refs
                           THEN [row[i] EXCEPT !.committed = TRUE,
                                               !.req = IF row[i].kind = "upload" THEN @
                                                       ELSE IF p = "active" THEN "run" ELSE "input"]
                           ELSE row[i]]
  /\ bound' = bound \union run.refs /\ run' = [run EXCEPT !.at = p]

(* The input is accepted into the queue, or starts the Run.                   *)
Accept ==
  /\ Is("free") /\ run.at = "resolved" /\ Binds("queued")
  /\ UNCHANGED <<file, intent, pend, doubt, job, preview, send, queued, saved, crashes>>

CreateRun ==
  /\ Is("free") /\ run.at \in {"resolved", "queued"} /\ Binds("active")
  /\ UNCHANGED <<file, intent, pend, doubt, job, preview, send, queued, saved, crashes>>

BindRefused ==
  /\ Is("free") /\ run.at \in {"resolved", "queued"} /\ \E i \in run.refs : ~Live(i)
  /\ run' = [at |-> "idle", refs |-> {}]
  /\ UNCHANGED <<stored, job, bound, preview, send, queued, saved, crashes>>

(* The Run meets a limit and is continued, or is over.                        *)
RunMoves(p, q) ==
  /\ run.at = p /\ run' = [run EXCEPT !.at = q]
  /\ UNCHANGED <<stored, job, bound, preview, send, queued, saved, crashes>>

-----------------------------------------------------------------------------
(* Deletion by the user                                                       *)

(* buildAttachmentDelete shows the record as it is.                           *)
Preview(i) ==
  /\ "delete" \in Features /\ preview = NoPreview /\ Live(i) /\ preview' = [id |-> i, rec |-> row[i]]
  /\ UNCHANGED <<stored, job, run, bound, send, queued, saved, crashes>>

(* No unfinished Run, and the record as it was shown.                         *)
Deletable(i) == row[i] = preview.rec /\ run.at \notin {"active", "limited"}

(* applyAttachmentDelete revokes the record, then removes the file, which may *)
(* fail.                                                                      *)
Delete ==
  /\ Is("free") /\ preview # NoPreview /\ preview' = NoPreview
  /\ IF Deletable(preview.id)
     THEN /\ row' = [row EXCEPT ![preview.id].state = "deleted"]
          /\ file' \in {file, [file EXCEPT ![preview.id] = "none"]}
     ELSE UNCHANGED <<row, file>>
  /\ UNCHANGED <<intent, pend, doubt, job, run, bound, send, queued, saved, crashes>>

-----------------------------------------------------------------------------
(* Delivery of exports when the Run stops                                     *)

(* sendFileReceipt claims the send under the lock.                            *)
Claim(i) ==
  /\ Is("free") /\ run.at \in {"limited", "over"}
  /\ Live(i) /\ row[i].kind = "export" /\ row[i].req = "run" /\ row[i].selected /\ send[i] = "none"
  /\ send' = [send EXCEPT ![i] = "dispatching"]
  /\ UNCHANGED <<stored, job, run, bound, preview, queued, saved, crashes>>

(* The answer of the transport, or its durable queue.                         *)
Answer(i, s) ==
  /\ send[i] = "dispatching" /\ send' = [send EXCEPT ![i] = s]
  /\ queued' = IF s = "queued" THEN queued \union {i} ELSE queued
  /\ UNCHANGED <<stored, job, run, bound, preview, saved, crashes>>

(* recordDelivered, when the queue has sent it.                               *)
Delivered(i) ==
  /\ Is("free") /\ send[i] = "queued" /\ send' = [send EXCEPT ![i] = "sent"]
  /\ UNCHANGED <<stored, job, run, bound, preview, queued, saved, crashes>>

-----------------------------------------------------------------------------
(* BranchConversation copies the attachments of the prefix to new files.      *)
Branch(i) ==
  /\ "branch" \in Features /\ Is("free") /\ run.at \in {"idle", "over"}
  /\ i \in bound /\ Live(i) /\ row[i].committed /\ file[i] # "none" /\ Unused # {} /\ UsedRows < Quota
  /\ file' = [file EXCEPT ![NewID] = "new"] /\ doubt' = doubt \ {NewID}
  /\ job' = [Free EXCEPT !.at = "branch", !.id = NewID,
                         !.rec = [Asked("branch", row[i].body, FALSE) EXCEPT !.req = "branch"]]
  /\ UNCHANGED <<row, intent, pend, run, bound, preview, send, queued, saved, crashes>>

BranchCommit ==
  /\ Is("branch") /\ row' = [row EXCEPT ![job.id] = job.rec] /\ job' = Free
  /\ UNCHANGED <<file, intent, pend, doubt, run, bound, preview, send, queued, saved, crashes>>

(* Any error, that of the commit too, removes the copies.                     *)
BranchFails ==
  /\ Is("branch") /\ Discard
  /\ InDoubt \/ UNCHANGED <<pend, doubt>>
  /\ UNCHANGED <<row, intent, run, bound, preview, send, queued, saved, crashes>>

-----------------------------------------------------------------------------
(* The Owner dies.  What was not committed is rolled back, a commit that was  *)
(* on its way is in doubt; at the next start a send that was in progress is   *)
(* unknown (store.go recovery).                                               *)
Crash ==
  /\ crashes < MaxCrashes /\ crashes' = crashes + 1
  /\ \/ job.at \in {"commit", "branch"} /\ InDoubt
     \/ UNCHANGED <<pend, doubt>>
  /\ job' = Free /\ preview' = NoPreview
  /\ run' = IF run.at = "resolved" THEN [at |-> "idle", refs |-> {}] ELSE run
  /\ send' = [i \in Ids |-> IF send[i] = "dispatching" THEN "unknown" ELSE send[i]]
  /\ UNCHANGED <<file, row, intent, bound, queued, saved>>

Next ==
  \/ \E k \in Kinds, b \in Bodies : Create(k, b, FALSE) \/ (k = "export" /\ Create(k, b, TRUE))
  \/ \E i \in Ids : \/ Retire(i) \/ Decide(i) \/ Ages(i) \/ Preview(i) \/ Claim(i) \/ Delivered(i)
                    \/ \E s \in {"sent", "unknown", "failed", "queued"} : Answer(i, s)
                    \/ Branch(i)
  \/ Stage \/ Known \/ Refuse \/ Insert \/ WriteIntent \/ Commit \/ CommitLost \/ Unlink
  \/ \E S \in SUBSET Ids : Resolve(S)
  \/ Accept \/ CreateRun \/ BindRefused
  \/ RunMoves("active", "limited") \/ RunMoves("limited", "active")
  \/ RunMoves("active", "over") \/ RunMoves("limited", "over")
  \/ Delete \/ BranchCommit \/ BranchFails \/ Crash

Spec == Init /\ [][Next]_vars

-----------------------------------------------------------------------------
(* "Keep the immutable bytes until the exact transaction is reconciled":      *)
(* every record that can be read has its file, whatever was lost on the way   *)
(* to it (attachments.go createAttachment, cleanupAttachmentsLocked).  A copy *)
(* made by a branch has it unless its commit was unanswered.                  *)
BytesKept == \A i \in Ids : Live(i) => file[i] # "none" \/ (row[i].kind = "branch" /\ i \in doubt)

(* The same for the copies of a branch (conversation_branch.go).              *)
BranchBytesKept == \A i \in Ids : Live(i) /\ row[i].kind = "branch" => file[i] # "none"

(* An unfinished Run can read every attachment of its input: no cleanup and   *)
(* no deletion comes between the choice, the binding and the end              *)
(* (attachments.go bindAttachments, attachment_control.go                     *)
(* applyAttachmentDelete).                                                    *)
InputReadable ==
  run.at \in {"active", "limited"} =>
    \A i \in run.refs : Live(i) /\ row[i].committed /\ (file[i] # "none" \/ row[i].kind = "branch")

(* An upload that is sent again is one record, a deleted one is not stored a  *)
(* second time; only a commit whose answer was lost can make two of it        *)
(* (attachments.go createAttachment).                                         *)
UploadedOnce ==
  \A i, j \in Ids : i # j /\ row[i].kind = "upload" /\ row[j].kind = "upload" /\ row[i].req = row[j].req
                    => i \in doubt \/ j \in doubt

(* Of the versions of a file, the user gets one, unless asked for more: a     *)
(* version that may have gone out stays the last one; a version in the        *)
(* durable queue does not count as gone (attachment_selection.go).            *)
OneVersionSent ==
  \A i, j \in Ids : i # j /\ Frozen(i) /\ Frozen(j) =>
    row[i].keep \/ row[j].keep \/ {i, j} \intersect (queued \union doubt) # {}

(* The files that were let in never exceed the quota, remnants of deleted     *)
(* records and files of lost commits included; branches count records, not    *)
(* files (attachments.go attachmentUsage).                                    *)
QuotaHolds == "branch" \notin Features => Cardinality({i \in Files : row[i] # NoRow \/ i \in intent}) <= Quota

(* Files are kept for whom they are for: readable while a record or a Run      *)
(* names them, stored once, sent in one version and within the quota.          *)
FilesKept == TypeOK /\ BytesKept /\ InputReadable /\ UploadedOnce /\ OneVersionSent /\ QuotaHolds
=============================================================================
