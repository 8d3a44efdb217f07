---------------------------- MODULE DatasetUpload ----------------------------
(****************************************************************************)
(* The datasets of the data service: rows in PostgreSQL, upload progress in   *)
(* Redis, files and chunks in MinIO, and the requests that change them in      *)
(* several steps without a transaction.                                      *)
(*                                                                          *)
(*   services/data/internal/service/dataset_service.go                      *)
(*   services/data/internal/repository/dataset_repo.go                      *)
(*                                                                          *)
(* A step is one call to one of the three stores.                            *)
(****************************************************************************)
EXTENDS FiniteSets, Naturals, Sequences

CONSTANTS Datasets,     \* dataset identifiers, each drawn once (uuid.New)
          Names,        \* names that clients choose, in one project
          Clients,      \* HTTP requests that may be in progress at once
          None,         \* no dataset, no name
          TotalChunks,  \* chunks of an upload, ceil(size / chunk size)
          Ops,          \* what clients ask for
          Faults        \* what may go wrong

(* "db", "redis", "store"  a call to that store fails (an HTTP client that goes
                           away makes the calls of its request fail)
   "expire"                the progress reaches its time to live, 24 h
   "crash"                 the process dies, and every request with it        *)
FaultKinds == {"db", "redis", "store", "expire", "crash"}

\* Create alone, Create and UploadFile, InitUpload, UploadChunk, ...
Creating == {"create", "upload", "init"}
OpKinds  == Creating \cup {"chunk", "complete", "update", "delete"}

ASSUME UploadAssumption ==
  /\ TotalChunks \in Nat \ {0}
  /\ Ops \subseteq OpKinds
  /\ Faults \subseteq FaultKinds
  /\ None \notin Datasets \cup Names

VARIABLES row,       \* the table: status, name, whether StoragePath is set
          deleted,   \* the rows with a deleted_at
          progress,  \* UploadProgress in Redis: whether there, UploadedChunks
          chunkObj,  \* MinIO: the chunk objects of the upload
          file,      \* MinIO: the object StoragePath names
          req        \* the HTTP requests in progress

vars == <<row, deleted, progress, chunkObj, file, req>>

Chunks == 0..TotalChunks - 1
Status == {"pending", "uploading", "ready", "failed"}
\* An object, with the memory that it was there once.
Object == {"never", "stored", "removed"}

Row   == [status : Status \cup {"none"}, name : Names \cup {None}, path : BOOLEAN]
NoRow == [status |-> "none", name |-> None, path |-> FALSE]

ReqPC == {"idle", "check", "insert", "begin", "readChunk", "put", "record",
          "readAll", "fetch", "rename", "storeFile", "markFailed", "save",
          "cleanup", "forget", "removeFile", "deleteRow"}

NoReq == [pc |-> "idle", op |-> "none", ds |-> None, name |-> None,
          chunk |-> 0, list |-> <<>>, seen |-> NoRow]

Progress == [there : BOOLEAN, list : Seq(Chunks)]

\* A request: what it does to which dataset; the new name, the chunk it stores,
\* the UploadedChunks and the row it has read.
Request == [pc : ReqPC, op : Ops \cup {"none"}, ds : Datasets \cup {None},
            name : Names \cup {None}, chunk : Chunks, list : Seq(Chunks),
            seen : Row]

TypeOK ==
  /\ row \in [Datasets -> Row]
  /\ deleted \subseteq Datasets
  /\ progress \in [Datasets -> Progress]
  /\ \A d \in Datasets : progress[d].there \/ progress[d].list = <<>>
  /\ chunkObj \in [Datasets -> [Chunks -> Object]]
  /\ file \in [Datasets -> Object]
  /\ req \in [Clients -> Request]
  /\ \A c \in Clients : req[c].pc = "idle" \/ req[c].ds \in Datasets

NoProgress == [there |-> FALSE, list |-> <<>>]

Init ==
  /\ row = [d \in Datasets |-> NoRow]
  /\ deleted = {}
  /\ progress = [d \in Datasets |-> NoProgress]
  /\ chunkObj = [d \in Datasets |-> [i \in Chunks |-> "never"]]
  /\ file = [d \in Datasets |-> "never"]
  /\ req = [c \in Clients |-> NoReq]

-----------------------------------------------------------------------------
stores == <<row, deleted, progress, chunkObj, file>>

To(c, pc) == req' = [req EXCEPT ![c].pc = pc]
Return(c) == req' = [req EXCEPT ![c] = NoReq]

\* The call to a store fails, and the request returns the error.
Fails(c, kind) == kind \in Faults /\ Return(c) /\ UNCHANGED stores

\* What GetByID finds: gorm leaves soft-deleted rows out.
Live(d) == row[d].status # "none" /\ d \notin deleted

\* ExistsByProjectAndName.
Exists(n) == \E d \in Datasets : Live(d) /\ row[d].name = n

\* gorm's Save: an UPDATE of every column; when it matches no live row, an
\* INSERT ... ON CONFLICT (id) DO UPDATE, which also sets deleted_at to NULL.
Save(d, r) ==
  /\ row' = [row EXCEPT ![d] = r]
  /\ deleted' = deleted \ {d}

-----------------------------------------------------------------------------
(* A request begins.                                                          *)

CallCreating(c, op, d, n) ==
  /\ req[c].pc = "idle"
  /\ row[d] = NoRow
  /\ \A e \in Clients : req[e].pc = "idle" \/ req[e].ds # d
  /\ req' = [req EXCEPT ![c] = [NoReq EXCEPT !.pc = "check", !.op = op,
                                             !.ds = d, !.name = n]]
  /\ UNCHANGED stores

CallChunk(c, d, i) ==
  /\ req[c].pc = "idle" /\ row[d] # NoRow
  /\ req' = [req EXCEPT ![c] = [NoReq EXCEPT !.pc = "readChunk", !.op = "chunk",
                                             !.ds = d, !.chunk = i]]
  /\ UNCHANGED stores

CallComplete(c, d) ==
  /\ req[c].pc = "idle" /\ row[d] # NoRow
  /\ req' = [req EXCEPT ![c] = [NoReq EXCEPT !.pc = "readAll", !.op = "complete",
                                             !.ds = d]]
  /\ UNCHANGED stores

\* Update, to a name that may be the old one, and Delete.
CallOnRow(c, op, d, n) ==
  /\ req[c].pc = "idle" /\ row[d] # NoRow
  /\ req' = [req EXCEPT ![c] = [NoReq EXCEPT !.pc = "fetch", !.op = op,
                                             !.ds = d, !.name = n]]
  /\ UNCHANGED stores

-----------------------------------------------------------------------------
(* Create and InitUpload: the name is checked, then the row is inserted.      *)

CheckName(c) ==
  /\ req[c].pc = "check"
  /\ \/ ~Exists(req[c].name) /\ To(c, "insert") /\ UNCHANGED stores
     \/ Exists(req[c].name) /\ Return(c) /\ UNCHANGED stores
     \/ Fails(c, "db")

Insert(c) ==
  LET op == req[c].op IN
  /\ req[c].pc = "insert"
  /\ \/ /\ row' = [row EXCEPT ![req[c].ds] =
                     [status |-> IF op = "init" THEN "uploading" ELSE "pending",
                      name |-> req[c].name, path |-> FALSE]]
        /\ \/ op = "init" /\ To(c, "begin")
           \/ op = "upload" /\ To(c, "fetch")
           \/ op = "create" /\ Return(c)
        /\ UNCHANGED <<deleted, progress, chunkObj, file>>
     \/ Fails(c, "db")

\* InitUpload hands out the upload id once the progress is saved.
BeginUpload(c) ==
  LET d == req[c].ds IN
  /\ req[c].pc = "begin"
  /\ \/ /\ progress' = [progress EXCEPT ![d] = [there |-> TRUE, list |-> <<>>]]
        /\ Return(c)
        /\ UNCHANGED <<row, deleted, chunkObj, file>>
     \/ Fails(c, "redis")

-----------------------------------------------------------------------------
(* UploadChunk: read the progress, put the object, write the progress back.   *)

\* Mutant: a chunk is accepted again.
ChunkRead_AcceptsTwice(c) ==
  LET p == progress[req[c].ds] IN
  /\ req[c].pc = "readChunk"
  /\ \/ /\ p.there
        /\ req' = [req EXCEPT ![c].pc = "put", ![c].list = p.list]
        /\ UNCHANGED stores
     \/ ~p.there /\ Return(c) /\ UNCHANGED stores
     \/ Fails(c, "redis")

ChunkRead(c) ==
  LET p     == progress[req[c].ds]
      again == \E k \in DOMAIN p.list : p.list[k] = req[c].chunk
  IN
  /\ req[c].pc = "readChunk"
  /\ \/ /\ p.there /\ ~again
        /\ req' = [req EXCEPT ![c].pc = "put", ![c].list = p.list]
        /\ UNCHANGED stores
     \/ (~p.there \/ again) /\ Return(c) /\ UNCHANGED stores
     \/ Fails(c, "redis")

\* Mutant: the chunk is recorded though the store did not take it.
ChunkPut_IgnoresError(c) ==
  /\ req[c].pc = "put"
  /\ \/ /\ chunkObj' = [chunkObj EXCEPT ![req[c].ds][req[c].chunk] = "stored"]
        /\ To(c, "record")
        /\ UNCHANGED <<row, deleted, progress, file>>
     \/ "store" \in Faults /\ To(c, "record") /\ UNCHANGED stores

ChunkPut(c) ==
  /\ req[c].pc = "put"
  /\ \/ /\ chunkObj' = [chunkObj EXCEPT ![req[c].ds][req[c].chunk] = "stored"]
        /\ To(c, "record")
        /\ UNCHANGED <<row, deleted, progress, file>>
     \/ Fails(c, "store")

\* The whole progress is written, whatever became of it since it was read.
ChunkRecord(c) ==
  /\ req[c].pc = "record"
  /\ \/ /\ progress' = [progress EXCEPT ![req[c].ds] =
                          [there |-> TRUE,
                           list |-> Append(req[c].list, req[c].chunk)]]
        /\ Return(c)
        /\ UNCHANGED <<row, deleted, chunkObj, file>>
     \/ Fails(c, "redis")

-----------------------------------------------------------------------------
(* CompleteUpload: count the chunks, mark the row, remove the chunks, forget    *)
(* the progress.  The chunks are not composed into a file.                    *)

CompleteRead(c) ==
  LET p == progress[req[c].ds] IN
  /\ req[c].pc = "readAll"
  /\ \/ p.there /\ Len(p.list) = TotalChunks /\ To(c, "fetch") /\ UNCHANGED stores
     \/ /\ ~p.there \/ Len(p.list) # TotalChunks
        /\ Return(c) /\ UNCHANGED stores
     \/ Fails(c, "redis")

\* ListObjects and RemoveObject, whose errors are dropped.
CompleteCleanup(c) ==
  LET d == req[c].ds IN
  /\ req[c].pc = "cleanup"
  /\ \E kept \in IF "store" \in Faults THEN SUBSET Chunks ELSE {{}} :
       chunkObj' = [chunkObj EXCEPT ![d] =
         [i \in Chunks |-> IF @[i] = "stored" /\ i \notin kept THEN "removed"
                           ELSE @[i]]]
  /\ To(c, "forget")
  /\ UNCHANGED <<row, deleted, progress, file>>

\* Mutant: the list of the next upload starts with what is left of this one.
CompleteForget_KeepsList(c) ==
  /\ req[c].pc = "forget"
  /\ progress' = [progress EXCEPT ![req[c].ds].there = FALSE]
  /\ Return(c)
  /\ UNCHANGED <<row, deleted, chunkObj, file>>

CompleteForget(c) ==
  /\ req[c].pc = "forget"
  /\ \/ progress' = [progress EXCEPT ![req[c].ds] = NoProgress]
     \/ "redis" \in Faults /\ UNCHANGED progress
  /\ Return(c)
  /\ UNCHANGED <<row, deleted, chunkObj, file>>

-----------------------------------------------------------------------------
(* GetByID, and what each request does with the row.  CompleteUpload reads     *)
(* through a nil pointer when there is none, which gin recovers.             *)

Fetched(r, op) ==
  IF op \in {"complete", "upload"}
  THEN [r EXCEPT !.status = "ready", !.path = TRUE] ELSE r

Fetch(c) ==
  LET d == req[c].ds
      op == req[c].op
      next == CASE op = "update" -> "rename"
                [] op = "upload" -> "storeFile"
                [] op = "complete" -> "save"
                [] OTHER -> IF row[d].path THEN "removeFile" ELSE "deleteRow"
  IN
  /\ req[c].pc = "fetch"
  /\ \/ /\ Live(d)
        /\ req' = [req EXCEPT ![c].pc = next, ![c].seen = Fetched(row[d], op)]
        /\ UNCHANGED stores
     \/ ~Live(d) /\ Return(c) /\ UNCHANGED stores
     \/ Fails(c, "db")

\* Update: the new name must not exist, but for the row's own.
Rename(c) ==
  LET n == req[c].name
      free == ~Exists(n) \/ req[c].seen.name = n
  IN
  /\ req[c].pc = "rename"
  /\ \/ /\ free
        /\ req' = [req EXCEPT ![c].pc = "save", ![c].seen.name = n]
        /\ UNCHANGED stores
     \/ ~free /\ Return(c) /\ UNCHANGED stores
     \/ Fails(c, "db")

\* UploadFile: the object, and a failed row when the store refuses it.
StoreFile(c) ==
  LET d == req[c].ds IN
  /\ req[c].pc = "storeFile"
  /\ \/ /\ file' = [file EXCEPT ![d] = "stored"]
        /\ To(c, "save")
     \/ "store" \in Faults /\ To(c, "markFailed") /\ UNCHANGED file
  /\ UNCHANGED <<row, deleted, progress, chunkObj>>

MarkFailed(c) ==
  LET d == req[c].ds IN
  /\ req[c].pc = "markFailed"
  /\ \/ /\ row' = IF Live(d) THEN [row EXCEPT ![d].status = "failed"] ELSE row
        /\ Return(c)
        /\ UNCHANGED <<deleted, progress, chunkObj, file>>
     \/ Fails(c, "db")

\* The last step of Update and UploadFile, the middle one of CompleteUpload:
\* the row as it was read, with what the request changed in it.
SaveRow(c) ==
  /\ req[c].pc = "save"
  /\ \/ /\ Save(req[c].ds, req[c].seen)
        /\ IF req[c].op = "complete" THEN To(c, "cleanup") ELSE Return(c)
        /\ UNCHANGED <<progress, chunkObj, file>>
     \/ Fails(c, "db")

\* Delete: the object first, whose removal may fail, then the row.
RemoveFile(c) ==
  LET d == req[c].ds IN
  /\ req[c].pc = "removeFile"
  /\ \/ file' = [file EXCEPT ![d] = IF @ = "stored" THEN "removed" ELSE @]
     \/ "store" \in Faults /\ UNCHANGED file
  /\ To(c, "deleteRow")
  /\ UNCHANGED <<row, deleted, progress, chunkObj>>

DeleteRow(c) ==
  /\ req[c].pc = "deleteRow"
  /\ \/ /\ deleted' = deleted \cup {req[c].ds}
        /\ Return(c)
        /\ UNCHANGED <<row, progress, chunkObj, file>>
     \/ Fails(c, "db")

-----------------------------------------------------------------------------
\* Redis drops the progress at the end of its time to live.
Expire(d) ==
  /\ "expire" \in Faults
  /\ progress[d].there
  /\ progress' = [progress EXCEPT ![d] = NoProgress]
  /\ UNCHANGED <<row, deleted, chunkObj, file, req>>

Crash ==
  /\ "crash" \in Faults
  /\ \E c \in Clients : req[c].pc # "idle"
  /\ req' = [c \in Clients |-> NoReq]
  /\ UNCHANGED stores

-----------------------------------------------------------------------------
Call(c, d) ==
  \/ \E op \in Ops \cap Creating, n \in Names : CallCreating(c, op, d, n)
  \/ "chunk" \in Ops /\ \E i \in Chunks : CallChunk(c, d, i)
  \/ "complete" \in Ops /\ CallComplete(c, d)
  \/ "update" \in Ops /\ \E n \in Names : CallOnRow(c, "update", d, n)
  \/ "delete" \in Ops /\ CallOnRow(c, "delete", d, row[d].name)

ReqStep(c) ==
  \/ CheckName(c) \/ Insert(c) \/ BeginUpload(c)
  \/ ChunkRead(c) \/ ChunkPut(c) \/ ChunkRecord(c)
  \/ CompleteRead(c) \/ CompleteCleanup(c) \/ CompleteForget(c)
  \/ Fetch(c) \/ Rename(c) \/ StoreFile(c) \/ MarkFailed(c) \/ SaveRow(c)
  \/ RemoveFile(c) \/ DeleteRow(c)

Next ==
  \/ \E c \in Clients : ReqStep(c) \/ \E d \in Datasets : Call(c, d)
  \/ \E d \in Datasets : Expire(d)
  \/ Crash

Spec == Init /\ [][Next]_vars

-----------------------------------------------------------------------------
(* Properties.                                                                *)

\* UploadedChunks never names a chunk twice, nor one that was not stored, even
\* though concurrent chunks overwrite each other's progress: the count that
\* CompleteUpload takes of it is a count of stored chunks.
ProgressCounts ==
  \A d \in Datasets :
    LET list == progress[d].list IN
    /\ \A k, l \in DOMAIN list : list[k] = list[l] => k = l
    /\ \A k \in DOMAIN list : chunkObj[d][list[k]] # "never"

\* A row is ready only after its file was stored, or every one of its chunks,
\* whatever was lost, overwritten, deleted, expired or retried on the way.
ReadyMeansAll ==
  \A d \in Datasets : row[d].status = "ready" =>
    file[d] # "never" \/ \A i \in Chunks : chunkObj[d][i] # "never"
=============================================================================
