------------------------- MODULE DatasetUpload_proof -------------------------
(* Theorems about DatasetUpload, for any datasets, names, requests, number of
   chunks, operations and faults.                                            *)
EXTENDS DatasetUpload, FiniteSetTheorems, SequenceTheorems, TLAPS

-----------------------------------------------------------------------------
(* Types.                                                                     *)

\* A place where no request is in progress is a typed request.
LEMMA NoReqType == NoReq \in Request
<1>1. NoRow \in Row
  BY DEF NoRow, Row
<1>2. 0 \in Chunks /\ <<>> \in Seq(Chunks)
  BY UploadAssumption DEF Chunks
<1> QED BY <1>1, <1>2 DEF NoReq, Request, ReqPC

\* The initial state is typed.
LEMMA InitTypeOK == Init => TypeOK
<1> SUFFICES ASSUME Init PROVE TypeOK
  OBVIOUS
<1>1. NoRow \in Row /\ NoProgress \in Progress
  BY DEF NoRow, Row, NoProgress, Progress
<1>2. req \in [Clients -> Request] /\ \A c \in Clients : req[c].pc = "idle"
  BY NoReqType DEF Init, NoReq
<1> QED BY <1>1, <1>2 DEF Init, TypeOK, Object, NoProgress

\* The row a request works on stays typed with what the request changes in it.
LEMMA FetchedType ==
  ASSUME NEW r \in Row, NEW op
  PROVE  Fetched(r, op) \in Row
BY DEF Fetched, Row, Status

\* What a step of a request does to req, whatever else it does.
LEMMA ReqStepReq ==
  ASSUME NEW c \in Clients, ReqStep(c)
  PROVE  \/ Return(c)
         \/ \E pc \in ReqPC : To(c, pc)
         \/ req' = [req EXCEPT ![c].pc = "put",
                               ![c].list = progress[req[c].ds].list]
         \/ \E pc \in ReqPC :
              req' = [req EXCEPT ![c].pc = pc,
                        ![c].seen = Fetched(row[req[c].ds], req[c].op)]
         \/ req' = [req EXCEPT ![c].pc = "save", ![c].seen.name = req[c].name]
<1>1. CASE Fetch(c)
  BY <1>1, Zenon DEF Fetch, Fails, ReqPC
<1>2. CASE ChunkRead(c) \/ Rename(c)
  BY <1>2, Zenon DEF ChunkRead, Rename, Fails
<1>3. CASE ~Fetch(c) /\ ~ChunkRead(c) /\ ~Rename(c)
  BY <1>3, Zenon DEF ReqStep, CheckName, Insert, BeginUpload, ChunkPut,
     ChunkRecord, CompleteRead, CompleteCleanup, CompleteForget, StoreFile,
     MarkFailed, SaveRow, RemoveFile, DeleteRow, Fails, ReqPC
<1> QED BY <1>1, <1>2, <1>3

\* A request that takes a step is in progress.
LEMMA ReqStepBusy ==
  ASSUME TypeOK, NEW c \in Clients, ReqStep(c)
  PROVE  req[c] \in Request /\ req[c].ds \in Datasets
<1>1. req[c].pc # "idle"
  BY DEF ReqStep, CheckName, Insert, BeginUpload, ChunkRead, ChunkPut,
     ChunkRecord, CompleteRead, CompleteCleanup, CompleteForget, Fetch, Rename,
     StoreFile, MarkFailed, SaveRow, RemoveFile, DeleteRow
<1> QED BY <1>1 DEF TypeOK

\* The requests stay typed.
LEMMA ReqTypeOK ==
  ASSUME TypeOK, NEW c \in Clients, ReqStep(c)
  PROVE  /\ req' \in [Clients -> Request]
         /\ \A e \in Clients : req'[e].pc = "idle" \/ req'[e].ds \in Datasets
<1> DEFINE D == req[c].ds
<1>c. req[c] \in Request /\ D \in Datasets /\ req \in [Clients -> Request]
  BY ReqStepBusy DEF TypeOK
<1>o. \A e \in Clients : req[e].pc = "idle" \/ req[e].ds \in Datasets
  BY DEF TypeOK
<1> DEFINE Goal == /\ req' \in [Clients -> Request]
                   /\ \A e \in Clients : req'[e].pc = "idle" \/ req'[e].ds \in Datasets
<1>1. CASE Return(c)
  BY <1>1, <1>c, <1>o, NoReqType DEF Return, NoReq
<1>2. ASSUME NEW r \in Request, r.ds = D, req' = [req EXCEPT ![c] = r]
      PROVE  Goal
  BY <1>2, <1>c, <1>o
<1> HIDE DEF Goal
<1>3. CASE \E pc \in ReqPC : To(c, pc)
  <2>1. PICK pc \in ReqPC : To(c, pc)
    BY <1>3
  <2> DEFINE r == [req[c] EXCEPT !.pc = pc]
  <2>2. r \in Request /\ r.ds = D
    BY <1>c DEF Request
  <2>3. req' = [req EXCEPT ![c] = r]
    BY <2>1 DEF To
  <2> HIDE DEF r
  <2> QED BY <2>2, <2>3, <1>2 DEF Goal
<1>4. CASE req' = [req EXCEPT ![c].pc = "put", ![c].list = progress[D].list]
  <2> DEFINE r == [req[c] EXCEPT !.pc = "put", !.list = progress[D].list]
  <2>1. progress[D].list \in Seq(Chunks)
    BY <1>c DEF TypeOK, Progress
  <2>2. r \in Request /\ r.ds = D
    BY <1>c, <2>1 DEF Request, ReqPC
  <2>3. req' = [req EXCEPT ![c] = r]
    BY <1>4
  <2> HIDE DEF r
  <2> QED BY <2>2, <2>3, <1>2 DEF Goal
<1>5. CASE \E pc \in ReqPC :
             req' = [req EXCEPT ![c].pc = pc,
                                ![c].seen = Fetched(row[D], req[c].op)]
  <2>1. PICK pc \in ReqPC :
          req' = [req EXCEPT ![c].pc = pc, ![c].seen = Fetched(row[D], req[c].op)]
    BY <1>5
  <2> DEFINE r == [req[c] EXCEPT !.pc = pc, !.seen = Fetched(row[D], req[c].op)]
  <2>2. Fetched(row[D], req[c].op) \in Row
    BY <1>c, FetchedType DEF TypeOK
  <2>3. r \in Request /\ r.ds = D
    BY <1>c, <2>2 DEF Request
  <2>4. req' = [req EXCEPT ![c] = r]
    BY <2>1
  <2> HIDE DEF r
  <2> QED BY <2>3, <2>4, <1>2 DEF Goal
<1>6. CASE req' = [req EXCEPT ![c].pc = "save", ![c].seen.name = req[c].name]
  <2> DEFINE s == [req[c].seen EXCEPT !.name = req[c].name]
             r == [req[c] EXCEPT !.pc = "save", !.seen = s]
  <2>1. s \in Row
    BY <1>c DEF Request, Row
  <2>2. r \in Request /\ r.ds = D
    BY <1>c, <2>1 DEF Request, ReqPC
  <2>3. req' = [req EXCEPT ![c] = r]
    BY <1>6, Zenon
  <2> HIDE DEF r
  <2> QED BY <2>2, <2>3, <1>2 DEF Goal
<1>7. Goal
  BY <1>1, <1>3, <1>4, <1>5, <1>6, ReqStepReq DEF Goal
<1> QED BY <1>7 DEF Goal

\* The three stores stay typed.
LEMMA StoresTypeOK ==
  ASSUME TypeOK, NEW c \in Clients, ReqStep(c)
  PROVE  /\ row' \in [Datasets -> Row] /\ deleted' \subseteq Datasets
         /\ progress' \in [Datasets -> Progress]
         /\ \A d \in Datasets : progress'[d].there \/ progress'[d].list = <<>>
         /\ chunkObj' \in [Datasets -> [Chunks -> Object]]
         /\ file' \in [Datasets -> Object]
<1> DEFINE D == req[c].ds
<1>c. req[c] \in Request /\ D \in Datasets
  BY ReqStepBusy
<1>p. NoProgress \in Progress /\ ~NoProgress.there /\ NoProgress.list = <<>>
  BY DEF NoProgress, Progress
<1> DEFINE Goal == /\ row' \in [Datasets -> Row] /\ deleted' \subseteq Datasets
                   /\ progress' \in [Datasets -> Progress]
                   /\ \A d \in Datasets : progress'[d].there \/ progress'[d].list = <<>>
                   /\ chunkObj' \in [Datasets -> [Chunks -> Object]]
                   /\ file' \in [Datasets -> Object]
<1>1. CASE UNCHANGED stores
  BY <1>1 DEF stores, TypeOK
<1>2. CASE Insert(c)
  <2> DEFINE r == [status |-> IF req[c].op = "init" THEN "uploading" ELSE "pending",
                   name |-> req[c].name, path |-> FALSE]
  <2>1. r \in Row
    BY <1>c DEF Request, Row, Status
  <2>2. CASE row' = [row EXCEPT ![D] = r]
             /\ UNCHANGED <<deleted, progress, chunkObj, file>>
    <3> HIDE DEF r
    <3> QED BY <2>1, <2>2, <1>c DEF TypeOK
  <2> QED BY <1>2, <1>1, <2>2 DEF Insert, Fails
<1>3. CASE BeginUpload(c) \/ ChunkRecord(c)
  <2>1. [there |-> TRUE, list |-> <<>>] \in Progress
    BY DEF Progress
  <2>2. [there |-> TRUE, list |-> Append(req[c].list, req[c].chunk)] \in Progress
    <3>1. Append(req[c].list, req[c].chunk) \in Seq(Chunks)
      BY <1>c DEF Request
    <3> QED BY <3>1 DEF Progress
  <2>3. ASSUME NEW p \in Progress, p.there, progress' = [progress EXCEPT ![D] = p],
               UNCHANGED <<row, deleted, chunkObj, file>>
        PROVE  Goal
    BY <2>3, <1>c DEF TypeOK
  <2> HIDE DEF Goal
  <2>4. Goal
    BY <1>3, <1>1, <2>1, <2>2, <2>3 DEF BeginUpload, ChunkRecord, Fails, Goal
  <2> QED BY <2>4 DEF Goal
<1>4. CASE CompleteForget(c)
  BY <1>4, <1>p DEF CompleteForget, TypeOK
<1>5. CASE ChunkPut(c)
  <2>1. req[c].chunk \in Chunks
    BY <1>c DEF Request
  <2>2. CASE chunkObj' = [chunkObj EXCEPT ![D][req[c].chunk] = "stored"]
             /\ UNCHANGED <<row, deleted, progress, file>>
    BY <2>1, <2>2, <1>c DEF TypeOK, Object
  <2> QED BY <1>5, <1>1, <2>2 DEF ChunkPut, Fails
<1>6. CASE CompleteCleanup(c)
  <2>1. PICK kept \in SUBSET Chunks :
          chunkObj' = [chunkObj EXCEPT ![D] =
            [i \in Chunks |-> IF chunkObj[D][i] = "stored" /\ i \notin kept
                              THEN "removed" ELSE chunkObj[D][i]]]
    BY <1>6, <1>c DEF CompleteCleanup, TypeOK
  <2>2. [i \in Chunks |-> IF chunkObj[D][i] = "stored" /\ i \notin kept
                          THEN "removed" ELSE chunkObj[D][i]] \in [Chunks -> Object]
    BY <1>c DEF TypeOK, Object
  <2> QED BY <1>6, <2>1, <2>2 DEF CompleteCleanup, TypeOK
<1>7. CASE StoreFile(c) \/ RemoveFile(c)
  BY <1>7, <1>c DEF StoreFile, RemoveFile, TypeOK, Object
<1>8. CASE MarkFailed(c)
  <2>1. [row[D] EXCEPT !.status = "failed"] \in Row
    <3>1. row[D] \in Row
      BY <1>c DEF TypeOK
    <3> QED BY <3>1 DEF Row, Status
  <2>2. CASE row' = (IF Live(D) THEN [row EXCEPT ![D].status = "failed"] ELSE row)
             /\ UNCHANGED <<deleted, progress, chunkObj, file>>
    BY <2>1, <2>2, <1>c DEF TypeOK
  <2> QED BY <1>8, <1>1, <2>2 DEF MarkFailed, Fails
<1>9. CASE SaveRow(c)
  <2>1. req[c].seen \in Row
    BY <1>c DEF Request
  <2>2. CASE Save(D, req[c].seen) /\ UNCHANGED <<progress, chunkObj, file>>
    BY <2>1, <2>2, <1>c DEF Save, TypeOK
  <2> QED BY <1>9, <1>1, <2>2 DEF SaveRow, Fails
<1>10. CASE DeleteRow(c)
  BY <1>10, <1>1, <1>c DEF DeleteRow, Fails, TypeOK
<1>11. CASE CheckName(c) \/ ChunkRead(c) \/ CompleteRead(c) \/ Fetch(c) \/ Rename(c)
  BY <1>11, <1>1 DEF CheckName, ChunkRead, CompleteRead, Fetch, Rename, Fails
<1> QED
  BY <1>2, <1>3, <1>4, <1>5, <1>6, <1>7, <1>8, <1>9, <1>10, <1>11 DEF ReqStep

\* A request that begins is typed.
LEMMA CallTypeOK ==
  ASSUME TypeOK, NEW c \in Clients, NEW d \in Datasets, Call(c, d)
  PROVE  TypeOK'
<1>n. NoReq \in Request
  BY NoReqType
<1>1. \E r \in Request : r.ds = d /\ req' = [req EXCEPT ![c] = r]
  <2>1. ASSUME NEW op \in Ops, NEW n \in Names, CallCreating(c, op, d, n)
        PROVE  \E r \in Request : r.ds = d /\ req' = [req EXCEPT ![c] = r]
    <3> DEFINE r == [NoReq EXCEPT !.pc = "check", !.op = op, !.ds = d, !.name = n]
    <3>1. r \in Request /\ r.ds = d
      BY <1>n DEF Request, ReqPC
    <3>2. req' = [req EXCEPT ![c] = r]
      BY <2>1 DEF CallCreating
    <3> HIDE DEF r
    <3> QED BY <3>1, <3>2
  <2>2. ASSUME NEW i \in Chunks, CallChunk(c, d, i), "chunk" \in Ops
        PROVE  \E r \in Request : r.ds = d /\ req' = [req EXCEPT ![c] = r]
    <3> DEFINE r == [NoReq EXCEPT !.pc = "readChunk", !.op = "chunk", !.ds = d,
                                  !.chunk = i]
    <3>1. r \in Request /\ r.ds = d
      BY <2>2, <1>n DEF Request, ReqPC
    <3>2. req' = [req EXCEPT ![c] = r]
      BY <2>2 DEF CallChunk
    <3> HIDE DEF r
    <3> QED BY <3>1, <3>2
  <2>3. ASSUME CallComplete(c, d), "complete" \in Ops
        PROVE  \E r \in Request : r.ds = d /\ req' = [req EXCEPT ![c] = r]
    <3> DEFINE r == [NoReq EXCEPT !.pc = "readAll", !.op = "complete", !.ds = d]
    <3>1. r \in Request /\ r.ds = d
      BY <2>3, <1>n DEF Request, ReqPC
    <3>2. req' = [req EXCEPT ![c] = r]
      BY <2>3 DEF CallComplete
    <3> HIDE DEF r
    <3> QED BY <3>1, <3>2
  <2>4. ASSUME NEW op \in Ops, NEW n \in Names \cup {None}, CallOnRow(c, op, d, n)
        PROVE  \E r \in Request : r.ds = d /\ req' = [req EXCEPT ![c] = r]
    <3> DEFINE r == [NoReq EXCEPT !.pc = "fetch", !.op = op, !.ds = d, !.name = n]
    <3>1. r \in Request /\ r.ds = d
      BY <1>n DEF Request, ReqPC
    <3>2. req' = [req EXCEPT ![c] = r]
      BY <2>4 DEF CallOnRow
    <3> HIDE DEF r
    <3> QED BY <3>1, <3>2
  <2>5. row[d].name \in Names \cup {None}
    BY DEF TypeOK, Row
  <2> QED BY <2>1, <2>2, <2>3, <2>4, <2>5 DEF Call
<1>2. UNCHANGED stores
  BY DEF Call, CallCreating, CallChunk, CallComplete, CallOnRow
<1>3. PICK r \in Request : r.ds = d /\ req' = [req EXCEPT ![c] = r]
  BY <1>1
<1> QED BY <1>2, <1>3 DEF TypeOK, stores

\* TypeOK is inductive.
LEMMA NextTypeOK == TypeOK /\ [Next]_vars => TypeOK'
<1> SUFFICES ASSUME TypeOK, [Next]_vars PROVE TypeOK'
  OBVIOUS
<1>1. CASE UNCHANGED vars
  BY <1>1 DEF vars, TypeOK
<1>2. ASSUME NEW c \in Clients, ReqStep(c) PROVE TypeOK'
  BY <1>2, ReqTypeOK, StoresTypeOK DEF TypeOK
<1>3. ASSUME NEW d \in Datasets, Expire(d) PROVE TypeOK'
  <2>1. NoProgress \in Progress /\ NoProgress.list = <<>>
    BY DEF NoProgress, Progress
  <2> QED BY <1>3, <2>1 DEF Expire, TypeOK
<1>4. CASE Crash
  <2>1. req' \in [Clients -> Request] /\ \A c \in Clients : req'[c].pc = "idle"
    BY <1>4, NoReqType DEF Crash, NoReq
  <2> QED BY <1>4, <2>1 DEF Crash, stores, TypeOK
<1> QED BY <1>1, <1>2, <1>3, <1>4, CallTypeOK DEF Next

(* Every reachable state of the data service is well typed; in particular a
   progress that is not in Redis has no chunks.                              *)
THEOREM TypeCorrect == Spec => []TypeOK
BY InitTypeOK, NextTypeOK, PTL DEF Spec

-----------------------------------------------------------------------------
(* ProgressCounts.  The progress is written from a snapshot that may be old, so
   the invariant has to speak of the snapshots too: while a chunk is on its way
   to the store and the progress, the list its request has read names only
   stored chunks, none twice, and not this one.                              *)

NoRepeat(list) == \A k, l \in DOMAIN list : list[k] = list[l] => k = l

OnlyKnown(d, list) == \A k \in DOMAIN list : chunkObj[d][list[k]] # "never"

ListsInFlight ==
  \A c \in Clients : req[c].pc \in {"put", "record"} =>
    /\ NoRepeat(req[c].list)
    /\ OnlyKnown(req[c].ds, req[c].list)
    /\ \A k \in DOMAIN req[c].list : req[c].list[k] # req[c].chunk
    /\ req[c].pc = "record" => chunkObj[req[c].ds][req[c].chunk] # "never"

ProgressInv == TypeOK /\ ProgressCounts /\ ListsInFlight

\* An object that was stored once has been stored ever since.
LEMMA ObjectsStay ==
  ASSUME TypeOK, [Next]_vars, NEW d \in Datasets
  PROVE  /\ \A i \in Chunks : chunkObj[d][i] # "never" => chunkObj'[d][i] # "never"
         /\ file[d] # "never" => file'[d] # "never"
<1> DEFINE Goal == /\ \A i \in Chunks : chunkObj[d][i] # "never"
                                           => chunkObj'[d][i] # "never"
                   /\ file[d] # "never" => file'[d] # "never"
<1>1. CASE UNCHANGED <<chunkObj, file>>
  BY <1>1
<1>2. ASSUME NEW c \in Clients, ReqStep(c) PROVE Goal
  <2>c. req[c] \in Request /\ req[c].ds \in Datasets
    BY <1>2, ReqStepBusy
  <2>1. CASE ChunkPut(c)
    BY <2>1, <2>c DEF ChunkPut, Fails, stores, TypeOK
  <2>2. CASE CompleteCleanup(c)
    BY <2>2, <2>c DEF CompleteCleanup, TypeOK
  <2>3. CASE StoreFile(c) \/ RemoveFile(c)
    BY <2>3, <2>c DEF StoreFile, RemoveFile, TypeOK
  <2>4. CASE ~ChunkPut(c) /\ ~CompleteCleanup(c) /\ ~StoreFile(c) /\ ~RemoveFile(c)
    BY <1>1, <1>2, <2>4 DEF ReqStep, CheckName, Insert, BeginUpload, ChunkRead,
       ChunkRecord, CompleteRead, CompleteForget, Fetch, Rename, MarkFailed,
       SaveRow, DeleteRow, Fails, stores
  <2> QED BY <2>1, <2>2, <2>3, <2>4
<1>3. ASSUME NEW c \in Clients, NEW e \in Datasets, Call(c, e) PROVE Goal
  BY <1>3, <1>1 DEF Call, CallCreating, CallChunk, CallComplete, CallOnRow, stores
<1> QED BY <1>1, <1>2, <1>3 DEF Next, Expire, Crash, stores, vars

\* A list without repetition stays one when something new is appended.
LEMMA AppendSound ==
  ASSUME NEW list \in Seq(Chunks), NEW x \in Chunks, NoRepeat(list),
         \A k \in DOMAIN list : list[k] # x
  PROVE  /\ NoRepeat(Append(list, x))
         /\ \A k \in DOMAIN Append(list, x) :
              Append(list, x)[k] = x
                \/ \E l \in DOMAIN list : Append(list, x)[k] = list[l]
<1>1. /\ Len(list) \in Nat /\ DOMAIN list = 1..Len(list)
      /\ DOMAIN Append(list, x) = 1..Len(list) + 1
      /\ \A k \in 1..Len(list) : Append(list, x)[k] = list[k]
      /\ Append(list, x)[Len(list) + 1] = x
  BY AppendProperties, LenProperties
<1>2. \A k \in DOMAIN Append(list, x) : k \in DOMAIN list \/ k = Len(list) + 1
  BY <1>1
<1> QED BY <1>1, <1>2 DEF NoRepeat

\* A step of one request leaves the others where they are.
LEMMA OthersStay ==
  ASSUME TypeOK, NEW c \in Clients, ReqStep(c), NEW e \in Clients, e # c
  PROVE  req'[e] = req[e]
BY ReqStepReq DEF TypeOK, Return, To

\* The requests that come to have a list in flight, and what they bring.
LEMMA StepLists ==
  ASSUME ProgressInv, NEW c \in Clients, ReqStep(c), [Next]_vars
  PROVE  ListsInFlight'
<1>c. req[c] \in Request /\ req[c].ds \in Datasets /\ req \in [Clients -> Request]
  BY ReqStepBusy DEF ProgressInv, TypeOK
<1> SUFFICES ASSUME NEW e \in Clients, req'[e].pc \in {"put", "record"}
             PROVE  /\ NoRepeat(req'[e].list)
                    /\ \A k \in DOMAIN req'[e].list :
                         chunkObj'[req'[e].ds][req'[e].list[k]] # "never"
                    /\ \A k \in DOMAIN req'[e].list : req'[e].list[k] # req'[e].chunk
                    /\ req'[e].pc = "record" =>
                         chunkObj'[req'[e].ds][req'[e].chunk] # "never"
  BY DEF ListsInFlight, NoRepeat, OnlyKnown
<1>1. CASE e # c
  <2>1. req'[e] = req[e]
    BY <1>1, OthersStay DEF ProgressInv
  <2>2. req[e] \in Request /\ req[e].ds \in Datasets
    BY <2>1 DEF ProgressInv, TypeOK
  <2>3. \A k \in DOMAIN req[e].list : req[e].list[k] \in Chunks
    BY <2>2 DEF Request
  <2>4. req[e].chunk \in Chunks
    BY <2>2 DEF Request
  <2> QED BY <2>1, <2>2, <2>3, <2>4, ObjectsStay
             DEF ProgressInv, ListsInFlight, OnlyKnown
<1>2. CASE e = c /\ ChunkRead(c)
  <2> DEFINE p == progress[req[c].ds]
  <2>1. /\ req'[c].list = p.list /\ req'[c].ds = req[c].ds
        /\ req'[c].chunk = req[c].chunk /\ req'[c].pc = "put"
        /\ \A k \in DOMAIN p.list : p.list[k] # req[c].chunk
        /\ UNCHANGED stores
    BY <1>2, <1>c DEF ChunkRead, Fails, Return, NoReq, Request
  <2> QED BY <1>2, <2>1, <1>c
             DEF ProgressInv, ProgressCounts, OnlyKnown, NoRepeat, stores
<1>3. CASE e = c /\ ChunkPut(c)
  <2>1. /\ req'[c].list = req[c].list /\ req'[c].ds = req[c].ds
        /\ req'[c].chunk = req[c].chunk /\ req[c].pc = "put"
        /\ chunkObj' = [chunkObj EXCEPT ![req[c].ds][req[c].chunk] = "stored"]
    BY <1>3, <1>c DEF ChunkPut, Fails, Return, To, NoReq, Request
  <2>2. req[c].chunk \in Chunks /\ \A k \in DOMAIN req[c].list : req[c].list[k] \in Chunks
    BY <1>c DEF Request
  <2>3. chunkObj'[req[c].ds][req[c].chunk] = "stored"
    BY <2>1, <2>2, <1>c DEF ProgressInv, TypeOK
  <2> QED BY <1>3, <2>1, <2>2, <2>3, <1>c, ObjectsStay
             DEF ProgressInv, ListsInFlight, OnlyKnown, NoRepeat
<1>4. CASE e = c /\ ~ChunkRead(c) /\ ~ChunkPut(c)
  <2>1. req'[c].pc \notin {"put", "record"}
    <3>1. CASE Return(c)
      BY <3>1, <1>c DEF Return, NoReq
    <3>2. CASE Fetch(c)
      BY <3>1, <3>2, <1>c DEF Fetch, Fails, Request
    <3>3. CASE ~Fetch(c)
      <4>1. PICK pc \in {"insert", "begin", "fetch", "save", "cleanup", "forget",
                         "markFailed", "deleteRow"} :
              \/ Return(c) \/ To(c, pc)
              \/ req' = [req EXCEPT ![c].pc = "save", ![c].seen.name = req[c].name]
        BY <1>4, <3>3, Zenon DEF ReqStep, CheckName, Insert, BeginUpload,
           ChunkRecord, CompleteRead, CompleteCleanup, CompleteForget, Rename,
           StoreFile, MarkFailed, SaveRow, RemoveFile, DeleteRow, Fails
      <4> QED BY <3>1, <4>1, <1>c DEF To, Request
    <3> QED BY <3>2, <3>3
  <2> QED BY <1>4, <2>1
<1> QED BY <1>1, <1>2, <1>3, <1>4

\* What is written to the progress is sound, and what is there stays so.
LEMMA StepProgress ==
  ASSUME ProgressInv, NEW c \in Clients, ReqStep(c), [Next]_vars
  PROVE  ProgressCounts'
<1> DEFINE D == req[c].ds
<1>c. req[c] \in Request /\ D \in Datasets
  BY ReqStepBusy DEF ProgressInv
<1> SUFFICES ASSUME NEW d \in Datasets
             PROVE  /\ NoRepeat(progress'[d].list)
                    /\ \A k \in DOMAIN progress'[d].list :
                         chunkObj'[d][progress'[d].list[k]] # "never"
  BY DEF ProgressCounts, NoRepeat, OnlyKnown
<1>1. CASE progress'[d] = progress[d]
  <2>1. \A k \in DOMAIN progress[d].list : progress[d].list[k] \in Chunks
    BY DEF ProgressInv, TypeOK, Progress
  <2> QED BY <1>1, <2>1, ObjectsStay
             DEF ProgressInv, ProgressCounts, NoRepeat, OnlyKnown
<1>2. CASE progress'[d].list = <<>>
  BY <1>2 DEF NoRepeat, OnlyKnown
<1>3. CASE ChunkRecord(c) /\ d = D
           /\ progress'[d].list = Append(req[c].list, req[c].chunk)
           /\ UNCHANGED chunkObj
  <2>1. /\ NoRepeat(req[c].list) /\ OnlyKnown(D, req[c].list)
        /\ \A k \in DOMAIN req[c].list : req[c].list[k] # req[c].chunk
        /\ chunkObj[D][req[c].chunk] # "never"
    BY <1>3 DEF ProgressInv, ListsInFlight, ChunkRecord
  <2>2. req[c].list \in Seq(Chunks) /\ req[c].chunk \in Chunks
    BY <1>c DEF Request
  <2> QED BY <1>3, <2>1, <2>2, AppendSound DEF OnlyKnown
<1>4. CASE UNCHANGED progress
  BY <1>1, <1>4
<1>5. CASE BeginUpload(c) \/ CompleteForget(c)
  BY <1>5, <1>1, <1>2, <1>4, <1>c DEF BeginUpload, CompleteForget, Fails, stores,
     NoProgress, ProgressInv, TypeOK
<1>6. CASE ChunkRecord(c)
  BY <1>6, <1>1, <1>3, <1>4, <1>c DEF ChunkRecord, Fails, stores, ProgressInv, TypeOK
<1>7. CASE ~BeginUpload(c) /\ ~CompleteForget(c) /\ ~ChunkRecord(c)
  BY <1>4, <1>7 DEF ReqStep, CheckName, Insert, ChunkRead, ChunkPut, CompleteRead,
     CompleteCleanup, Fetch, Rename, StoreFile, MarkFailed, SaveRow, RemoveFile,
     DeleteRow, Fails, stores
<1> QED BY <1>5, <1>6, <1>7

\* ProgressInv is inductive.
LEMMA NextProgress == ProgressInv /\ [Next]_vars => ProgressInv'
<1> SUFFICES ASSUME ProgressInv, [Next]_vars PROVE ProgressInv'
  OBVIOUS
<1>t. TypeOK'
  BY NextTypeOK DEF ProgressInv
<1>1. CASE UNCHANGED vars
  BY <1>1, <1>t DEF vars, ProgressInv, ProgressCounts, ListsInFlight, NoRepeat,
     OnlyKnown
<1>2. ASSUME NEW c \in Clients, ReqStep(c) PROVE ProgressInv'
  BY <1>2, <1>t, StepLists, StepProgress DEF ProgressInv
<1>3. ASSUME NEW c \in Clients, NEW d \in Datasets, Call(c, d) PROVE ProgressInv'
  <2>1. UNCHANGED stores
    BY <1>3 DEF Call, CallCreating, CallChunk, CallComplete, CallOnRow
  <2>2. \A e \in Clients : req'[e] = req[e] \/ req'[e].pc \notin {"put", "record"}
    BY <1>3 DEF Call, CallCreating, CallChunk, CallComplete, CallOnRow,
       ProgressInv, TypeOK, NoReq
  <2> QED BY <1>t, <2>1, <2>2 DEF stores, ProgressInv, ProgressCounts,
             ListsInFlight, NoRepeat, OnlyKnown
<1>4. ASSUME NEW d \in Datasets, Expire(d) PROVE ProgressInv'
  <2>1. \A e \in Datasets : progress'[e] = progress[e] \/ progress'[e].list = <<>>
    BY <1>4 DEF Expire, NoProgress, ProgressInv, TypeOK
  <2> QED BY <1>4, <1>t, <2>1 DEF Expire, ProgressInv, ProgressCounts,
             ListsInFlight, NoRepeat, OnlyKnown
<1>5. CASE Crash
  BY <1>5, <1>t DEF Crash, stores, NoReq, ProgressInv, ProgressCounts,
     ListsInFlight, NoRepeat, OnlyKnown
<1> QED BY <1>1, <1>2, <1>3, <1>4, <1>5 DEF Next

(* However many requests store chunks of one dataset at once, the progress in
   Redis names each chunk at most once and only stored ones.                 *)
THEOREM ProgressIsTrue == Spec => []ProgressCounts
<1>1. Init => ProgressInv
  BY InitTypeOK DEF Init, ProgressInv, ProgressCounts, ListsInFlight, NoProgress,
     NoReq
<1>2. ProgressInv => ProgressCounts
  BY DEF ProgressInv
<1> QED BY <1>1, <1>2, NextProgress, PTL DEF Spec

-----------------------------------------------------------------------------
(* ReadyMeansAll.  CompleteUpload compares only lengths; by ProgressCounts and
   the pigeonhole principle a list of full length names every chunk.  From then
   on, and from the moment a file is stored, what a request is going to save
   as ready has been uploaded.                                               *)

Uploaded(d) == file[d] # "never" \/ \A i \in Chunks : chunkObj[d][i] # "never"

ReadyInFlight ==
  \A c \in Clients :
    /\ req[c].pc = "fetch" /\ req[c].op = "complete" => Uploaded(req[c].ds)
    /\ req[c].pc \in {"rename", "save"} /\ req[c].seen.status = "ready" =>
         Uploaded(req[c].ds)

ReadyInv == TypeOK /\ ReadyMeansAll /\ ReadyInFlight

\* A list of chunks without repetition that is as long as there are chunks has
\* them all.
LEMMA FullList ==
  ASSUME NEW list \in Seq(Chunks), NoRepeat(list), Len(list) = TotalChunks,
         NEW i \in Chunks
  PROVE  \E k \in DOMAIN list : list[k] = i
<1> DEFINE S == 1..TotalChunks
<1>1. list \in [S -> Chunks]
  BY LenProperties
<1>2. list \in Injection(S, Chunks)
  BY <1>1 DEF NoRepeat, Injection, IsInjective
<1>3. TotalChunks \in Nat \ {0}
  BY UploadAssumption
<1>4. IsFiniteSet(Chunks) /\ Cardinality(Chunks) = TotalChunks
  BY <1>3, FS_Interval DEF Chunks
<1>5. Cardinality(S) = TotalChunks
  BY <1>3, FS_Interval
<1>6. list \in Surjection(S, Chunks)
  BY <1>2, <1>4, <1>5, FS_Injection
<1> QED BY <1>1, <1>6 DEF Surjection

\* What was uploaded stays so.
LEMMA UploadedStays ==
  ASSUME TypeOK, [Next]_vars, NEW d \in Datasets, Uploaded(d)
  PROVE  Uploaded(d)'
BY ObjectsStay DEF Uploaded

\* A count that is full means that the dataset was uploaded.
LEMMA CountIsTrue ==
  ASSUME ProgressInv, NEW d \in Datasets, Len(progress[d].list) = TotalChunks
  PROVE  Uploaded(d)
<1>1. progress[d].list \in Seq(Chunks)
  BY DEF ProgressInv, TypeOK, Progress
<1>2. NoRepeat(progress[d].list) /\ OnlyKnown(d, progress[d].list)
  BY DEF ProgressInv, ProgressCounts, NoRepeat, OnlyKnown
<1> QED BY <1>1, <1>2, FullList DEF OnlyKnown, Uploaded

\* The rows that a step makes ready, or leaves so.
LEMMA StepReady ==
  ASSUME ReadyInv, NEW c \in Clients, ReqStep(c), [Next]_vars
  PROVE  ReadyMeansAll'
<1> DEFINE D == req[c].ds
<1>c. req[c] \in Request /\ D \in Datasets
  BY ReqStepBusy DEF ReadyInv
<1> SUFFICES ASSUME NEW d \in Datasets, row'[d].status = "ready" PROVE Uploaded(d)'
  BY DEF ReadyMeansAll, Uploaded
<1>1. CASE row[d].status = "ready"
  <2>1. Uploaded(d)
    BY <1>1 DEF ReadyInv, ReadyMeansAll, Uploaded
  <2> QED BY <2>1, UploadedStays DEF ReadyInv
<1>2. CASE SaveRow(c) /\ row[d].status # "ready"
  <2>1. d = D /\ row'[d] = req[c].seen
    BY <1>2, <1>c DEF SaveRow, Save, Fails, stores, ReadyInv, TypeOK
  <2>2. Uploaded(d)
    BY <1>2, <2>1 DEF SaveRow, ReadyInv, ReadyInFlight
  <2> QED BY <2>2, UploadedStays DEF ReadyInv
<1>3. CASE Insert(c) /\ row[d].status # "ready"
  <2> DEFINE s == IF req[c].op = "init" THEN "uploading" ELSE "pending"
             r == [status |-> s, name |-> req[c].name, path |-> FALSE]
  <2>1. row' = [row EXCEPT ![D] = r] \/ UNCHANGED row
    BY <1>3 DEF Insert, Fails, stores
  <2>2. row'[d] = row[d] \/ row'[d].status = s
    BY <2>1, <1>c DEF ReadyInv, TypeOK
  <2> QED BY <1>3, <2>2
<1>4. CASE MarkFailed(c) /\ row[d].status # "ready"
  <2>1. row' = [row EXCEPT ![D].status = "failed"] \/ UNCHANGED row
    BY <1>4 DEF MarkFailed, Fails, stores
  <2>2. row[D] \in Row
    BY <1>c DEF ReadyInv, TypeOK
  <2>3. [row[D] EXCEPT !.status = "failed"].status = "failed"
    BY <2>2 DEF Row
  <2>4. row'[d] = row[d] \/ row'[d].status = "failed"
    BY <2>1, <2>3, <1>c DEF ReadyInv, TypeOK
  <2> QED BY <1>4, <2>4
<1>5. CASE ~SaveRow(c) /\ ~Insert(c) /\ ~MarkFailed(c)
  <2>1. UNCHANGED row
    BY <1>5 DEF ReqStep, CheckName, BeginUpload, ChunkRead, ChunkPut, ChunkRecord,
       CompleteRead, CompleteCleanup, CompleteForget, Fetch, Rename, StoreFile,
       RemoveFile, DeleteRow, Fails, stores
  <2> QED BY <1>1, <2>1
<1> QED BY <1>1, <1>2, <1>3, <1>4, <1>5

\* What the requests are going to save as ready.
LEMMA StepReadyInFlight ==
  ASSUME ReadyInv, ProgressInv, NEW c \in Clients, ReqStep(c), [Next]_vars
  PROVE  ReadyInFlight'
<1> DEFINE D == req[c].ds
<1>c. req[c] \in Request /\ D \in Datasets /\ req \in [Clients -> Request]
  BY ReqStepBusy DEF ReadyInv, TypeOK
<1> SUFFICES ASSUME NEW e \in Clients,
                    \/ req'[e].pc = "fetch" /\ req'[e].op = "complete"
                    \/ req'[e].pc \in {"rename", "save"}
                         /\ req'[e].seen.status = "ready"
             PROVE  file'[req'[e].ds] # "never"
                      \/ \A i \in Chunks : chunkObj'[req'[e].ds][i] # "never"
  BY DEF ReadyInFlight, Uploaded
<1>e. SUFFICES ASSUME req[e].ds \in Datasets
               PROVE  req'[e].ds = req[e].ds /\ (Uploaded(req[e].ds) \/ file'[req[e].ds] # "never")
  <2>1. req[e].ds \in Datasets
    <3>1. CASE e = c
      BY <3>1, <1>c
    <3>2. CASE e # c
      <4>1. req'[e] = req[e]
        BY <3>2, OthersStay DEF ReadyInv
      <4> QED BY <4>1 DEF ReadyInv, TypeOK
    <3> QED BY <3>1, <3>2
  <2> QED BY <2>1, ObjectsStay DEF Uploaded, ReadyInv
<1>1. CASE e # c
  <2>1. req'[e] = req[e]
    BY <1>1, OthersStay DEF ReadyInv
  <2> QED BY <2>1 DEF ReadyInv, ReadyInFlight
<1>2. CASE e = c /\ Fetch(c)
  <2>1. /\ req'[c].pc \in {"rename", "save", "storeFile", "removeFile", "deleteRow"}
        /\ req'[c].pc = "save" => req[c].op = "complete"
        /\ req'[c].pc = "rename" => req[c].op = "update"
        /\ req'[c].seen = Fetched(row[D], req[c].op)
        /\ req'[c].ds = D /\ req[c].pc = "fetch"
    BY <1>2, <1>c DEF Fetch, Fails, Return, NoReq, Request
  <2>2. CASE req[c].op = "complete"
    BY <1>2, <2>1, <2>2 DEF ReadyInv, ReadyInFlight
  <2>3. CASE req[c].op = "update"
    <3>1. req'[c].seen = row[D]
      BY <2>1, <2>3 DEF Fetched
    <3> QED BY <1>2, <1>c, <2>1, <3>1 DEF ReadyInv, ReadyMeansAll, Uploaded
  <2> QED BY <1>2, <2>1, <2>2, <2>3
<1>3. CASE e = c /\ Rename(c)
  <2>1. /\ req'[c].pc = "save" /\ req'[c].ds = D
        /\ req'[c].seen.status = req[c].seen.status /\ req[c].pc = "rename"
    BY <1>3, <1>c DEF Rename, Fails, Return, NoReq, Request, Row
  <2> QED BY <1>3, <2>1 DEF ReadyInv, ReadyInFlight
<1>4. CASE e = c /\ CompleteRead(c)
  <2>1. req'[c].ds = D /\ Len(progress[D].list) = TotalChunks
    BY <1>4, <1>c DEF CompleteRead, Fails, Return, To, NoReq, Request
  <2> QED BY <1>4, <1>c, <2>1, CountIsTrue
<1>5. CASE e = c /\ StoreFile(c)
  BY <1>5, <1>c DEF StoreFile, To, Request, ReadyInv, TypeOK
<1>6. CASE e = c /\ Insert(c)
  <2>1. req'[c].pc = "fetch" => req[c].op = "upload" /\ req'[c].op = req[c].op
    BY <1>6, <1>c DEF Insert, Fails, Return, To, NoReq, Request
  <2>2. req'[c].pc \notin {"rename", "save"}
    BY <1>6, <1>c DEF Insert, Fails, Return, To, NoReq, Request
  <2> QED BY <1>6, <2>1, <2>2
<1>7. CASE e = c /\ ~Fetch(c) /\ ~Rename(c) /\ ~CompleteRead(c) /\ ~StoreFile(c)
           /\ ~Insert(c)
  <2>1. PICK pc \in {"insert", "put", "record", "cleanup", "forget", "deleteRow"} :
          \/ Return(c) \/ To(c, pc)
          \/ req' = [req EXCEPT ![c].pc = "put", ![c].list = progress[D].list]
    BY <1>7, Zenon DEF ReqStep, CheckName, BeginUpload, ChunkRead, ChunkPut,
       ChunkRecord, CompleteCleanup, CompleteForget, MarkFailed, SaveRow,
       RemoveFile, DeleteRow, Fails
  <2>2. req'[c].pc \notin {"fetch", "rename", "save"}
    BY <2>1, <1>c DEF Return, NoReq, To, Request
  <2> QED BY <1>7, <2>2
<1> QED BY <1>1, <1>2, <1>3, <1>4, <1>5, <1>6, <1>7

\* With ProgressInv, ReadyInv is inductive.
LEMMA NextReady == ProgressInv /\ ReadyInv /\ [Next]_vars => ReadyInv'
<1> SUFFICES ASSUME ProgressInv, ReadyInv, [Next]_vars PROVE ReadyInv'
  OBVIOUS
<1>t. TypeOK'
  BY NextTypeOK DEF ReadyInv
<1>1. CASE UNCHANGED vars
  BY <1>1, <1>t DEF vars, ReadyInv, ReadyMeansAll, ReadyInFlight, Uploaded
<1>2. ASSUME NEW c \in Clients, ReqStep(c) PROVE ReadyInv'
  BY <1>2, <1>t, StepReady, StepReadyInFlight DEF ReadyInv
<1>3. ASSUME NEW c \in Clients, NEW d \in Datasets, Call(c, d) PROVE ReadyInv'
  <2>1. UNCHANGED stores
    BY <1>3 DEF Call, CallCreating, CallChunk, CallComplete, CallOnRow
  <2> DEFINE Harmless == \A e \in Clients :
               \/ req'[e] = req[e]
               \/ req'[e].pc \in {"check", "readChunk", "readAll"}
               \/ req'[e].pc = "fetch" /\ req'[e].op \in {"update", "delete"}
  <2>2. Harmless
    <3>1. ASSUME NEW op, NEW n, CallCreating(c, op, d, n) PROVE Harmless
      BY <3>1 DEF CallCreating, ReadyInv, TypeOK, NoReq
    <3>2. ASSUME NEW i, CallChunk(c, d, i) PROVE Harmless
      BY <3>2 DEF CallChunk, ReadyInv, TypeOK, NoReq
    <3>3. ASSUME CallComplete(c, d) PROVE Harmless
      BY <3>3 DEF CallComplete, ReadyInv, TypeOK, NoReq
    <3>4. ASSUME NEW n, NEW op \in {"update", "delete"}, CallOnRow(c, op, d, n)
          PROVE  Harmless
      BY <3>4 DEF CallOnRow, ReadyInv, TypeOK, NoReq
    <3> HIDE DEF Harmless
    <3> QED BY <1>3, <3>1, <3>2, <3>3, <3>4 DEF Call
  <2> QED BY <1>t, <2>1, <2>2 DEF stores, ReadyInv, ReadyMeansAll, ReadyInFlight,
             Uploaded
<1>4. CASE Crash \/ \E d \in Datasets : Expire(d)
  BY <1>4, <1>t DEF Crash, Expire, stores, NoReq, ReadyInv, ReadyMeansAll,
     ReadyInFlight, Uploaded
<1> QED BY <1>1, <1>2, <1>3, <1>4 DEF Next

(* A row is ready only if its file or every one of its chunks was stored,
   although CompleteUpload compares two numbers.                             *)
THEOREM ReadyIsTrue == Spec => []ReadyMeansAll
<1>1. Init => ProgressInv /\ ReadyInv
  <2>1. Init => ReadyMeansAll /\ ReadyInFlight
    BY DEF Init, ReadyMeansAll, ReadyInFlight, NoReq, NoRow
  <2> QED BY <2>1, InitTypeOK DEF Init, ProgressInv, ProgressCounts, ReadyInv,
             ListsInFlight, NoProgress, NoReq
<1>2. ReadyInv => ReadyMeansAll
  BY DEF ReadyInv
<1> QED BY <1>1, <1>2, NextProgress, NextReady, PTL DEF Spec
=============================================================================
