------------------------------- MODULE Upload -------------------------------
(***************************************************************************)
(* FileTransferClient::UploadFile and ResumeUpload (file_transfer_client   *)
(* .cpp 27-308 and 964-1185): a stop-and-wait upload over one TCP          *)
(* connection, with a checkpoint file from which a later call can resume.  *)
(* One client makes a succession of calls; the process may be killed and   *)
(* started again, the connection may die, and an answer may come later     *)
(* than the receive timeout, in which case it stays in the stream for      *)
(* whoever reads next.  The server is external: it answers every request   *)
(* in order, with any answer the client has code for.                      *)
(*                                                                         *)
(* The bytes of a file are abstracted to their places: a chunk is the      *)
(* record of the file, the place and the length it was read from.          *)
(***************************************************************************)
EXTENDS Integers, Sequences

CONSTANTS Files,        \* local files the user may upload
          FileSize,     \* fs::file_size of each
          Stem,         \* fs::path::stem of each: names its checkpoint file
          Ids,          \* file ids the server can grant, each once
          NoId,         \* the file id read from an empty checkpoint (0)
          Absent,       \* a checkpoint file that does not exist
          ChunkSize,    \* chunk size the server grants
          MaxRetries,   \* MAX_RETRIES
          SizeMod,      \* size_t arithmetic is modulo SizeMod
          MaxCalls      \* bound: calls the user makes

Stems == {Stem[f] : f \in Files}

ASSUME ChunkAssumption ==
  /\ ChunkSize \in Nat \ {0}
  /\ MaxRetries \in Nat \ {0}
  /\ MaxCalls \in Nat

ASSUME FilesAssumption ==
  /\ FileSize \in [Files -> Nat]
  /\ SizeMod \in Nat
  /\ \A f \in Files : FileSize[f] + ChunkSize < SizeMod

ASSUME NamesAssumption ==
  /\ NoId \notin Ids
  /\ Absent \notin Files
  /\ Absent \notin [id : Ids \cup {NoId}, size : Nat]

VARIABLES
  pc,          \* "idle", "response", "chunk", "ack" or "save": where the call is
  op,          \* "upload" or "resume": the call being made, or made last
  file,        \* its file
  result,      \* how it ended: "true", "false", "threw", "killed"; "none" before
  fid,         \* file_id of the response it acts on
  chunk_size,  \* granted by the server, or read from the checkpoint
  i,           \* index of the chunk being sent
  retries,     \* failed attempts at this chunk
  total_sent,  \* bytes acknowledged
  cursor,      \* read position of the ifstream
  buf,         \* state_file: the record written and not yet flushed
  ckp,         \* the checkpoint file of each stem on disk
  link,        \* "up" or "down": whether the TCP connection is alive
  replies,     \* answers of the server not yet received
  granted,     \* external: the file each id was granted for
  got,         \* external: the chunks the server keeps under each id
  own,         \* history: the id granted to (or named by) this call's request
  calls        \* bound: calls made

loopVars   == <<i, retries, total_sent, cursor>>
callVars   == <<op, file, fid, chunk_size, own>>
diskVars   == <<buf, ckp>>
netVars    == <<link, replies>>
serverVars == <<granted, got>>
vars == <<pc, result, callVars, loopVars, diskVars, netVars, serverVars, calls>>

-----------------------------------------------------------------------------
(* Values *)

Record == [id : Ids \cup {NoId}, size : Nat]      \* the two fields a resume reads
EmptyRecord == [id |-> NoId, size |-> 0]          \* read from a truncated file

Reply ==
  {r \in [type : {"UPLOAD_RESPONSE", "RESUME_RESPONSE", "FILE_CHUNK_ACK", "ERR_PACKET"},
          id : Ids \cup {NoId}, ok : BOOLEAN,
          n : Nat,        \* chunk_index, or remaining_chunk_count
          pos : Nat] :    \* resume_position
     r.ok => r.id \in Ids}

Answer(type, id, ok, n, pos) ==
  [type |-> type, id |-> id, ok |-> ok, n |-> n, pos |-> pos]

Segment == [file : Files, at : Nat, len : Nat]    \* the bytes of a chunk

ChunkCount(size, c) == (size + c - 1) \div c

(* size_t current_chunk_size = std::min<size_t>(chunk_size, fileSize - total_sent) *)
CurrentChunkSize ==
  LET left == (FileSize[file] - total_sent) % SizeMod
  IN  IF left < chunk_size THEN left ELSE chunk_size

(* An upload of an empty file sends one empty chunk outside the loop. *)
ZeroSized == op = "upload" /\ FileSize[file] = 0

MoreChunks == ZeroSized \/ i < ChunkCount(FileSize[file], chunk_size)

(* Mutants of FirstUnsent: signed arithmetic; one chunk too far *)
FirstUnsentSigned(count, remaining) == count - remaining
FirstUnsentSkips(count, remaining) == (count - remaining + 1) % SizeMod

(* last_sent_chunk_index + 1, in size_t arithmetic *)
FirstUnsent(count, remaining) == (count - remaining) % SizeMod

(* Mutant of ReadOk: the short read goes unnoticed *)
ReadUnchecked == TRUE

(* file.read: a short read fails, and failbit makes every later one fail.  *)
(* The cursor need not move: the retries ask for as many bytes again.      *)
ReadOk == CurrentChunkSize = 0 \/ cursor + CurrentChunkSize <= FileSize[file]

(* Mutant of AckValid: the success flag is not looked at *)
AckOfChunk(r) == r.type = "FILE_CHUNK_ACK" /\ r.id = fid /\ r.n = i

AckValid(r) == r.type = "FILE_CHUNK_ACK" /\ r.ok /\ r.id = fid /\ r.n = i

RetriesExhausted(n) == n >= MaxRetries

-----------------------------------------------------------------------------
(* The checkpoint file *)

(* state_file.seekp(0) flushes the previous record; the new one is buffered. *)
SaveProgress ==
  /\ ckp' = IF buf = Absent THEN ckp ELSE [ckp EXCEPT ![Stem[file]] = buf]
  /\ buf' = [id |-> fid, size |-> chunk_size]

(* Mutant of CloseState: the buffered record is dropped *)
CloseUnflushed == UNCHANGED ckp /\ buf' = Absent

(* ~ofstream when the call returns or throws *)
CloseState ==
  /\ ckp' = IF buf = Absent THEN ckp ELSE [ckp EXCEPT ![Stem[file]] = buf]
  /\ buf' = Absent

(* Mutant of RemoveState: the file is only closed *)
KeepState == UNCHANGED ckp /\ buf' = Absent

(* state_file.close(); fs::remove(file_ckp) *)
RemoveState == ckp' = [ckp EXCEPT ![Stem[file]] = Absent] /\ buf' = Absent

Return(r) == pc' = "idle" /\ result' = r

-----------------------------------------------------------------------------
(* The connection.  Send returns true even after it has failed             *)
(* MAX_ATTEMPTS times, so a packet sent on a dead connection is lost       *)
(* without notice.  Receive fails on a timeout, on a dead connection, and  *)
(* recvPacket on a packet of another type, which it has then consumed.     *)

Post(answer) == replies' = Append(replies, answer)

Lost == link = "down" /\ UNCHANGED <<replies, serverVars>>

Received(type) == replies # << >> /\ Head(replies).type = type

Consume == replies' = Tail(replies)

NothingReceived(type) ==
  \/ UNCHANGED replies
  \/ replies # << >> /\ Head(replies).type # type /\ Consume

-----------------------------------------------------------------------------
(* The server *)

Refuse(type) ==
  /\ link = "up"
  /\ \E t \in {type, "ERR_PACKET"} : Post(Answer(t, NoId, FALSE, 0, 0))
  /\ UNCHANGED serverVars

Grant(id) ==
  /\ link = "up"
  /\ granted[id] = Absent
  /\ granted' = [granted EXCEPT ![id] = file']
  /\ Post(Answer("UPLOAD_RESPONSE", id, TRUE, 0, 0))
  /\ UNCHANGED got

AllowResume(id) ==
  /\ link = "up"
  /\ id \in Ids /\ granted[id] # Absent
  /\ LET size  == FileSize[granted[id]]
         held  == Len(got[id])
         count == ChunkCount(size, ChunkSize)
         pos   == IF held < count THEN held * ChunkSize ELSE size
     IN  held <= count /\ Post(Answer("RESUME_RESPONSE", id, TRUE, count - held, pos))
  /\ UNCHANGED serverVars

(* The server keeps the chunks of a file as a prefix, since one position   *)
(* and one count are all it can say of them: it appends the next chunk,    *)
(* acknowledges a repeated one whether it keeps the old or the new bytes,  *)
(* and may refuse any.                                                     *)
StoreChunk(seg) ==
  /\ link = "up"
  /\ \/ /\ Len(got[fid]) = i
        /\ got' = [got EXCEPT ![fid] = Append(@, seg)]
        /\ Post(Answer("FILE_CHUNK_ACK", fid, TRUE, i, 0))
     \/ /\ i < Len(got[fid])
        /\ UNCHANGED got \/ got' = [got EXCEPT ![fid][i + 1] = seg]
        /\ Post(Answer("FILE_CHUNK_ACK", fid, TRUE, i, 0))
     \/ /\ \E t \in {"FILE_CHUNK_ACK", "ERR_PACKET"} : Post(Answer(t, fid, FALSE, i, 0))
        /\ UNCHANGED got
  /\ UNCHANGED granted

-----------------------------------------------------------------------------
(* The calls *)

Init ==
  /\ pc = "idle" /\ op = "upload" /\ file \in Files /\ result = "none"
  /\ fid = NoId /\ chunk_size = 0 /\ own = NoId
  /\ i = 0 /\ retries = 0 /\ total_sent = 0 /\ cursor = 0
  /\ buf = Absent /\ ckp = [s \in Stems |-> Absent]
  /\ link = "up" /\ replies = << >>
  /\ granted = [id \in Ids |-> Absent]
  /\ got = [id \in Ids |-> << >>]
  /\ calls = 0

Begin(call, f) ==
  /\ pc = "idle" /\ calls < MaxCalls
  /\ pc' = "response" /\ op' = call /\ file' = f /\ result' = "none"
  /\ fid' = NoId
  /\ i' = 0 /\ retries' = 0 /\ total_sent' = 0 /\ cursor' = 0
  /\ calls' = calls + 1
  /\ UNCHANGED <<diskVars, link>>

(* UploadFile up to the wait for UPLOAD_RESPONSE *)
CallUpload(f) ==
  /\ Begin("upload", f)
  /\ chunk_size' = 0
  /\ \/ \E id \in Ids : Grant(id) /\ own' = id
     \/ (Refuse("UPLOAD_RESPONSE") \/ Lost) /\ own' = NoId

(* ResumeUpload up to the wait for RESUME_RESPONSE; without a checkpoint   *)
(* file it returns false at once.                                          *)
CallResume(f) ==
  LET state == ckp[Stem[f]] IN
  /\ state # Absent
  /\ Begin("resume", f)
  /\ chunk_size' = state.size
  /\ own' = state.id
  /\ AllowResume(state.id) \/ Refuse("RESUME_RESPONSE") \/ Lost

Expected == IF op = "upload" THEN "UPLOAD_RESPONSE" ELSE "RESUME_RESPONSE"

(* recvPacket of the response fails: UploadFile throws, ResumeUpload       *)
(* returns false.                                                          *)
ResponseFails ==
  /\ pc = "response"
  /\ NothingReceived(Expected)
  /\ Return(IF op = "upload" THEN "threw" ELSE "false")
  /\ UNCHANGED <<callVars, loopVars, diskVars, link, serverVars, calls>>

Denied ==
  /\ pc = "response"
  /\ Received(Expected) /\ ~Head(replies).ok
  /\ Consume
  /\ Return("false")
  /\ UNCHANGED <<callVars, loopVars, diskVars, link, serverVars, calls>>

(* The upload is allowed: the checkpoint file is truncated (not for an     *)
(* empty file), then the file is opened, which may fail.                   *)
UploadAllowed ==
  /\ pc = "response" /\ op = "upload"
  /\ Received(Expected) /\ Head(replies).ok
  /\ Consume
  /\ fid' = Head(replies).id
  /\ chunk_size' = ChunkSize
  /\ ckp' = IF ZeroSized THEN ckp ELSE [ckp EXCEPT ![Stem[file]] = EmptyRecord]
  /\ \/ pc' = "chunk" /\ UNCHANGED result
     \/ ~ZeroSized /\ Return("threw")
  /\ UNCHANGED <<op, file, own, loopVars, buf, link, serverVars, calls>>

(* The resume is allowed: the loop starts at the server's position.        *)
ResumeAllowed ==
  /\ pc = "response" /\ op = "resume"
  /\ Received(Expected) /\ Head(replies).ok
  /\ chunk_size > 0
  /\ Consume
  /\ fid' = Head(replies).id
  /\ i' = FirstUnsent(ChunkCount(FileSize[file], chunk_size), Head(replies).n)
  /\ total_sent' = Head(replies).pos
  /\ cursor' = Head(replies).pos
  /\ \/ pc' = "chunk" /\ UNCHANGED result
     \/ Return("threw")
  /\ UNCHANGED <<op, file, own, chunk_size, retries, diskVars, link, serverVars, calls>>

(* chunk_count divides by the chunk size read from an empty checkpoint.    *)
ResumeDividesByZero ==
  /\ pc = "response" /\ op = "resume"
  /\ Received(Expected) /\ Head(replies).ok
  /\ chunk_size = 0
  /\ Return("killed")
  /\ replies' = << >> /\ link' = "up"
  /\ UNCHANGED <<callVars, loopVars, diskVars, serverVars, calls>>

(* One attempt: read the chunk and send it. *)
SendChunk ==
  /\ pc = "chunk" /\ MoreChunks
  /\ ReadOk
  /\ cursor' = cursor + CurrentChunkSize
  /\ pc' = "ack"
  /\ StoreChunk([file |-> file, at |-> cursor, len |-> CurrentChunkSize]) \/ Lost
  /\ UNCHANGED <<result, callVars, i, retries, total_sent, diskVars, link, calls>>

(* Mutant of AttemptFails: the attempts are not counted *)
AttemptUncounted ==
  \/ ZeroSized /\ Return("threw") /\ UNCHANGED <<retries, diskVars>>
  \/ ~ZeroSized /\ pc' = "chunk" /\ UNCHANGED <<retries, result, diskVars>>

(* The catch block; for an empty file the exception leaves UploadFile.     *)
AttemptFails ==
  \/ /\ ZeroSized
     /\ Return("threw")
     /\ UNCHANGED <<retries, diskVars>>
  \/ /\ ~ZeroSized
     /\ retries' = retries + 1
     /\ IF RetriesExhausted(retries') THEN Return("false") /\ CloseState
        ELSE pc' = "chunk" /\ UNCHANGED <<result, diskVars>>

ReadFails ==
  /\ pc = "chunk" /\ MoreChunks
  /\ ~ReadOk
  /\ AttemptFails
  /\ UNCHANGED <<callVars, i, total_sent, cursor, netVars, serverVars, calls>>

AckFails ==
  /\ pc = "ack"
  /\ \/ NothingReceived("FILE_CHUNK_ACK")
     \/ Received("FILE_CHUNK_ACK") /\ ~AckValid(Head(replies)) /\ Consume
  /\ AttemptFails
  /\ UNCHANGED <<callVars, i, total_sent, cursor, link, serverVars, calls>>

(* The chunk is acknowledged.  ResumeUpload reopens the checkpoint file,   *)
(* which empties it, before it writes the record.                          *)
ChunkAcked ==
  /\ pc = "ack"
  /\ replies # << >> /\ AckValid(Head(replies))
  /\ Consume
  /\ total_sent' = total_sent + CurrentChunkSize
  /\ \/ /\ ZeroSized
        /\ Return("true")
        /\ UNCHANGED <<i, retries, diskVars>>
     \/ /\ op = "upload" /\ ~ZeroSized
        /\ SaveProgress
        /\ i' = i + 1 /\ retries' = 0 /\ pc' = "chunk"
        /\ UNCHANGED result
     \/ /\ op = "resume"
        /\ ckp' = [ckp EXCEPT ![Stem[file]] = EmptyRecord]
        /\ pc' = "save"
        /\ UNCHANGED <<i, retries, buf, result>>
  /\ UNCHANGED <<callVars, cursor, link, serverVars, calls>>

(* ResumeUpload writes the file id and the chunk index, and closes.        *)
ResumeSaves ==
  /\ pc = "save"
  /\ ckp' = [ckp EXCEPT ![Stem[file]] = [id |-> fid, size |-> i]]
  /\ i' = i + 1 /\ retries' = 0 /\ pc' = "chunk"
  /\ UNCHANGED <<result, callVars, total_sent, cursor, buf, netVars, serverVars, calls>>

Finish ==
  /\ pc = "chunk" /\ ~MoreChunks
  /\ RemoveState
  /\ Return("true")
  /\ UNCHANGED <<callVars, loopVars, netVars, serverVars, calls>>

-----------------------------------------------------------------------------
(* The surroundings *)

(* The process is killed, what it buffered is lost; it is started again    *)
(* and logs in over a new connection.                                      *)
Killed ==
  /\ pc # "idle"
  /\ Return("killed")
  /\ buf' = Absent
  /\ replies' = << >> /\ link' = "up"
  /\ UNCHANGED <<callVars, loopVars, ckp, serverVars, calls>>

(* Logout and login: CloseSession, then Connect. *)
Relogin ==
  /\ pc = "idle"
  /\ replies' = << >> /\ link' = "up"
  /\ UNCHANGED <<pc, result, callVars, loopVars, diskVars, serverVars, calls>>

(* The connection dies; answers already here may be lost with it. *)
LinkDies ==
  /\ link = "up"
  /\ link' = "down"
  /\ replies' \in {replies, << >>}
  /\ UNCHANGED <<pc, result, callVars, loopVars, diskVars, serverVars, calls>>

Call == \E f \in Files : CallUpload(f) \/ CallResume(f)

Step == \/ ResponseFails \/ Denied \/ UploadAllowed \/ ResumeAllowed
        \/ ResumeDividesByZero \/ SendChunk \/ ReadFails \/ AckFails
        \/ ChunkAcked \/ ResumeSaves \/ Finish

Next == Call \/ Step \/ Killed \/ Relogin \/ LinkDies

Spec == Init /\ [][Next]_vars

(* The calling thread runs, and Receive gives up after MAX_TIMEOUT.        *)
FairSpec == Spec /\ WF_vars(Step)

-----------------------------------------------------------------------------
(* Properties *)

(* Every variable has its type, and a call that is past its response acts  *)
(* on an id the server can have granted and divides by no zero.            *)
CallTypeOK ==
  /\ pc \in {"idle", "response", "chunk", "ack", "save"}
  /\ op \in {"upload", "resume"} /\ file \in Files
  /\ result \in {"none", "true", "false", "threw", "killed"}
  /\ fid \in Ids \cup {NoId} /\ own \in Ids \cup {NoId}
  /\ chunk_size \in Nat /\ i \in Nat /\ retries \in Nat
  /\ total_sent \in Nat /\ cursor \in Nat /\ calls \in Nat
  /\ pc \in {"chunk", "ack", "save"} => fid \in Ids /\ chunk_size > 0
DiskTypeOK ==
  /\ buf \in Record \cup {Absent}
  /\ ckp \in [Stems -> Record \cup {Absent}]
NetTypeOK == link \in {"up", "down"} /\ replies \in Seq(Reply)
ServerTypeOK ==
  /\ granted \in [Ids -> Files \cup {Absent}]
  /\ got \in [Ids -> Seq(Segment)]
TypeOK == CallTypeOK /\ DiskTypeOK /\ NetTypeOK /\ ServerTypeOK

(* The segments are, in order and without gap, the first n bytes of f. *)
Prefix(segs, f, n) ==
  /\ \A k \in 1..Len(segs) : segs[k].file = f
  /\ \A k \in 1..(Len(segs) - 1) : segs[k + 1].at = segs[k].at + segs[k].len
  /\ IF segs = << >> THEN n = 0
     ELSE segs[1].at = 0 /\ segs[Len(segs)].at + segs[Len(segs)].len = n

(* An UploadFile that returns true leaves the server with exactly the      *)
(* bytes of its file, in order, under the id granted to its own request:   *)
(* whatever was retried, answered late, lost or left over from an earlier  *)
(* call (ftc 172-307).                                                     *)
UploadTrueExact ==
  pc = "idle" /\ op = "upload" /\ result = "true" =>
    /\ fid = own /\ fid \in Ids /\ granted[fid] = file
    /\ got[fid] # << >> /\ Prefix(got[fid], file, FileSize[file])

(* UploadFile advances only past chunks the server keeps: the ack it takes *)
(* may be an old one, but never one of another chunk (ftc 222-231).        *)
AckedIsStored ==
  op = "upload" /\ pc \in {"chunk", "ack"} => i <= Len(got[fid])

(* An upload that fails after a chunk was acknowledged can be resumed: its *)
(* checkpoint names its id.  If the process is killed instead, the last    *)
(* record may be lost, but not the ones before (ftc 252-257, 287-291).     *)
FailedUploadResumable ==
  LET saved == ckp[Stem[file]] = [id |-> fid, size |-> ChunkSize]
  IN  op = "upload" /\ ~ZeroSized =>
        /\ pc = "idle" /\ result = "false" /\ i >= 1 => saved
        /\ pc = "idle" /\ result = "killed" /\ i >= 2 => saved
        /\ pc = "idle" /\ result = "true" => ckp[Stem[file]] = Absent

(* A resume that returns true, for the file that the server's answer is    *)
(* about and from a checkpoint that keeps its chunk size, has left out no  *)
(* chunk: the first one that it sends is at most the one after those the   *)
(* server has, also if the answer is an old one (ftc 1032-1043).           *)
ResumeTrueComplete ==
  /\ pc = "idle" /\ op = "resume" /\ result = "true"
  /\ granted[fid] = file /\ chunk_size = ChunkSize
  => Len(got[fid]) >= ChunkCount(FileSize[file], ChunkSize)

(* Every call returns: each wait ends with an answer or a timeout, and the *)
(* attempts at a chunk are counted (ftc 177, 261-267).                     *)
EveryCallReturns == pc # "idle" ~> pc = "idle"

(* Whether anything the client keeps or may still receive leads to the id  *)
Referenced(id) ==
  \/ pc # "idle" /\ fid = id
  \/ \E s \in Stems : ckp[s] # Absent /\ ckp[s].id = id
  \/ buf # Absent /\ buf.id = id
  \/ \E k \in 1..Len(replies) :
       replies[k].type \in {"UPLOAD_RESPONSE", "RESUME_RESPONSE"} /\ replies[k].id = id

Phase == IF pc = "idle" THEN "rest" ELSE IF op = "upload" THEN "transfer" ELSE "resume"

IsUploaded(segs, f) == segs # << >> /\ Prefix(segs, f, FileSize[f])

Promise == INSTANCE Transfer WITH
  Places  <- Ids,
  None    <- Absent,
  IsCopy  <- IsUploaded,
  phase   <- Phase,
  source  <- IF pc = "idle" THEN Absent ELSE file,
  outcome <- result,
  content <- got,
  sealed  <- {id \in Ids : granted[id] # Absent /\ ~Referenced(id)}

(* UploadFile keeps the promise of Transfer: an upload that returns true   *)
(* has stored its file under an id that nothing leads to any more, no      *)
(* checkpoint file and no late answer, so that neither a later upload nor  *)
(* a resume overwrites what was reported as stored (ftc 172-307).          *)
PromiseKept == Promise!Spec

(* UploadFile sends under each index the bytes of that chunk: the comments *)
(* at ftc 181 and 201-206 call them the chunk data.                        *)
ChunkDataOfIndex ==
  op = "upload" /\ pc = "ack" => cursor - CurrentChunkSize = i * ChunkSize

(* The checkpoint record is (file_id, chunk_size, chunk_index): comment at *)
(* ftc 253.                                                                *)
CheckpointFormat ==
  \A s \in Stems : ckp[s] \in {Absent, EmptyRecord} \/ ckp[s].size = ChunkSize

=============================================================================
