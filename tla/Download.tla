------------------------------ MODULE Download ------------------------------
(***************************************************************************)
(* FileTransferClient::DownloadFile and ResumeDownload (file_transfer_     *)
(* client.cpp 310-508 and 510-707), with the choice of a checkpoint in     *)
(* CLI::showResumeDownload (cli.h 683-803).  One client makes a succession *)
(* of calls over one TCP connection; the process may be killed and started *)
(* again, the connection may die, and an answer may come later than the    *)
(* receive timeout, in which case it stays in the stream for whoever reads *)
(* next.  The server is external: it sends one chunk, waits for its        *)
(* acknowledgement, and sends the next one or the same one again.          *)
(*                                                                         *)
(* Bytes are abstracted to chunks: a file is the sequence of its chunks,   *)
(* and a position is a number of chunks.                                   *)
(***************************************************************************)
EXTENDS Integers, Sequences, SequencesExt

CONSTANTS Files,        \* files of the server; each names a local file
          Copies,       \* fresh local names with a time stamp
          NoName,       \* the name read from an empty checkpoint: ""
          Chunks,       \* chunks of each file
          Stem,         \* fs::path::stem of each name: names its checkpoint
          Ids,          \* file ids of the server
          NoId,         \* the file id read from an empty checkpoint: 0
          Absent,       \* a file that does not exist
          MaxRetries,   \* 3: failed checksums at which a chunk is given up
          DiskFills,    \* whether a write to a local file may fail
          MaxCalls      \* bound: calls the user makes

Names == Files \cup Copies \cup {NoName}
Stems == {Stem[n] : n \in Names}

ASSUME ChunksAssumption ==
  /\ Chunks \in [Files -> Nat]
  /\ MaxRetries \in Nat \ {0} /\ DiskFills \in BOOLEAN
  /\ MaxCalls \in Nat

(* A time stamp makes a name that no file of the server has, nor its stem. *)
ASSUME NamesAssumption ==
  /\ NoName \notin Files \cup Copies /\ Files \cap Copies = {} /\ NoId \notin Ids
  /\ \A c \in Copies, n \in Names : Stem[n] = Stem[c] => n = c

VARIABLES
  pc,            \* "idle", "response", "chunk", "record" or "verify"
  op,            \* "download" or "resume": the call being made, or made last
  file,          \* its argument
  result,        \* how it ended: "true", "false", "threw", "killed"; "none" before
  fid,           \* file_id of the response it acts on
  source,        \* the file this response describes (file_size and checksum)
  name,          \* the local file being written
  temp,          \* the name the checkpoint gets
  total,         \* total_received
  remaining,     \* remaining_chunk_count (ResumeDownload)
  retry_counts,  \* failed checksums of each chunk
  disk,          \* the local files
  bad,           \* badbit of the stream `file`: a write of this call has failed
  buf,           \* resume_out: the record written and not yet flushed
  ckp,           \* the checkpoint file of each stem on disk
  link,          \* "up" or "down": whether the TCP connection is alive
  replies,       \* packets of the server not yet received
  granted,       \* external: the file behind each id
  serving,       \* external: the transfer the server is in, as id and chunk
  own,           \* history: the id granted to (or named by) this call's request
  torn,          \* history: the local files of which a write failed
  aligned,       \* history: the resume began with nothing unread in the stream
                 \* and with just the chunks its checkpoint counts
  calls          \* bound: calls made

callVars   == <<op, file, own, aligned>>
loopVars   == <<fid, source, name, temp, total, remaining, retry_counts>>
diskVars   == <<disk, bad, torn, buf, ckp>>
netVars    == <<link, replies>>
serverVars == <<granted, serving>>
vars == <<pc, result, callVars, loopVars, diskVars, netVars, serverVars, calls>>

-----------------------------------------------------------------------------
(* Values *)

Record == [name : Names, id : Ids \cup {NoId}, total : Nat]
EmptyRecord == [name |-> NoName, id |-> NoId, total |-> 0]

(* What ResumeDownload reads if there is no checkpoint file, or an empty one *)
ReadState(state) == IF state = Absent THEN EmptyRecord ELSE state

Segment == [of : Files, at : Nat, good : BOOLEAN]   \* the bytes of a chunk

ASSUME AbsentAssumption ==
  Absent \notin Files /\ Absent \notin Record /\ Absent \notin Seq(Segment)

(* The first chunks of f, in order, damaged or not *)
InPlace(segs, f) == \A k \in 1..Len(segs) : segs[k].of = f /\ segs[k].at = k - 1

Whole(f) == [k \in 1..Chunks[f] |-> [of |-> f, at |-> k - 1, good |-> TRUE]]

Reply ==
  [type : {"DOWNLOAD_RESPONSE", "RESUME_RESPONSE"}, id : Ids, ok : {TRUE}, n : Nat]
  \cup [type : {"DOWNLOAD_RESPONSE", "RESUME_RESPONSE", "ERR_PACKET"}, ok : {FALSE}]
  \cup [type : {"FILE_CHUNK"}, id : Ids, ok : BOOLEAN, data : Segment]

Allowed(type, id, n) == [type |-> type, id |-> id, ok |-> TRUE, n |-> n]
Refused(type) == [type |-> type, ok |-> FALSE]

(* A chunk whose checksum fits is damaged only if its bytes were before it *)
(* was computed.                                                           *)
Chunk(id, k, good, ok) ==
  [type |-> "FILE_CHUNK", id |-> id, ok |-> ok,
   data |-> [of |-> granted'[id], at |-> k, good |-> good]]

Idle == <<NoId, 0>>     \* the server is in no transfer

-----------------------------------------------------------------------------
(* Files on disk *)

Flushed == IF buf = Absent THEN ckp ELSE [ckp EXCEPT ![Stem[file]] = buf]

(* Mutant of SaveProgress: the record counts a chunk that is yet to come *)
SaveAhead ==
  /\ ckp' = Flushed
  /\ buf' = [name |-> temp, id |-> fid, total |-> total + 1]

(* seekp(0) flushes the record before this one. *)
SaveProgress ==
  /\ ckp' = Flushed
  /\ buf' = [name |-> temp, id |-> fid, total |-> total]

(* Mutant of CloseState: the buffered record is dropped *)
CloseUnflushed == UNCHANGED ckp /\ buf' = Absent

(* resume_out.close(), or ~ofstream when the call returns or throws *)
CloseState == ckp' = Flushed /\ buf' = Absent

SetState(record) == ckp' = [ckp EXCEPT ![Stem[file]] = record]

(* Mutant of LocalNames: the file is written where it is *)
SameName == {file}

(* GenerateNewFileName, if the file exists *)
LocalNames == IF disk[file] = Absent THEN {file} ELSE {c \in Copies : disk[c] = Absent}

(* Mutant of ChecksumMatches: no checksum of the whole file *)
NoChecksum == TRUE

ChecksumMatches == disk[name] = Whole(source)

(* Mutant of MoreChunks: the last chunk of a resumed file is left out *)
MoreButLast == IF op = "download" THEN total < Chunks[source] ELSE remaining > 1

MoreChunks == IF op = "download" THEN total < Chunks[source] ELSE remaining > 0

(* Mutant of RetriesExhausted: one retry too many *)
OneMoreRetry(n) == n > MaxRetries

RetriesExhausted(n) == n >= MaxRetries

Return(r) == pc' = "idle" /\ result' = r

-----------------------------------------------------------------------------
(* The connection: see Upload *)

Lost == link = "down" /\ UNCHANGED <<replies, serverVars>>

Received(type) == replies # << >> /\ Head(replies).type = type

NothingReceived(type) ==
  \/ UNCHANGED replies
  \/ replies # << >> /\ Head(replies).type # type /\ replies' = Tail(replies)

-----------------------------------------------------------------------------
(* The server *)

(* It sends chunk k of id, if the file has one, after what it sent before. *)
SendFrom(sent, id, k) ==
  IF k < Chunks[granted'[id]]
  THEN \E good, ok \in BOOLEAN : replies' = Append(sent, Chunk(id, k, good, ok))
  ELSE replies' = sent

Refuse(type) ==
  /\ link = "up"
  /\ \E t \in {type, "ERR_PACKET"} : replies' = Append(replies, Refused(t))
  /\ UNCHANGED serverVars

Grant(id) ==
  /\ link = "up"
  /\ granted[id] \in {Absent, file'}
  /\ granted' = [granted EXCEPT ![id] = file']
  /\ serving' = <<id, 0>>
  /\ SendFrom(Append(replies, Allowed("DOWNLOAD_RESPONSE", id, Chunks[file'])), id, 0)

AllowResume(id, from) ==
  /\ link = "up"
  /\ id \in Ids /\ granted[id] # Absent /\ from <= Chunks[granted[id]]
  /\ UNCHANGED granted
  /\ serving' = <<id, from>>
  /\ SendFrom(Append(replies, Allowed("RESUME_RESPONSE", id, Chunks[granted[id]] - from)), id, from)

(* The client has taken a packet and acknowledges chunk k. *)
Acknowledge(k, ok) ==
  /\ UNCHANGED granted
  /\ IF link = "up" /\ serving = <<fid, k>>
     THEN /\ serving' = <<fid, IF ok THEN k + 1 ELSE k>>
          /\ SendFrom(Tail(replies), fid, IF ok THEN k + 1 ELSE k)
     ELSE replies' = Tail(replies) /\ UNCHANGED serving

-----------------------------------------------------------------------------
(* The calls *)

Init ==
  /\ pc = "idle" /\ op = "download" /\ file \in Files /\ result = "none"
  /\ fid = NoId /\ source = file /\ name = NoName /\ temp = NoName
  /\ total = 0 /\ remaining = 0 /\ retry_counts = << >>
  /\ disk = [n \in Names |-> Absent] /\ bad = FALSE /\ torn = {}
  /\ buf = Absent /\ ckp = [s \in Stems |-> Absent]
  /\ link = "up" /\ replies = << >>
  /\ granted = [id \in Ids |-> Absent] /\ serving = Idle
  /\ own = NoId /\ aligned = FALSE /\ calls = 0

Begin(call, f) ==
  /\ pc = "idle" /\ calls < MaxCalls
  /\ pc' = "response" /\ op' = call /\ file' = f /\ result' = "none"
  /\ fid' = NoId /\ source' = Absent /\ name' = NoName
  /\ remaining' = 0 /\ retry_counts' = << >>
  /\ bad' = FALSE /\ calls' = calls + 1
  /\ UNCHANGED <<disk, torn, buf, link>>

(* DownloadFile up to the wait for DOWNLOAD_RESPONSE: the checkpoint file  *)
(* is created, or truncated, before the request.                           *)
CallDownload(f) ==
  /\ Begin("download", f)
  /\ ckp' = [ckp EXCEPT ![Stem[f]] = EmptyRecord]
  /\ temp' = NoName /\ total' = 0 /\ aligned' = FALSE
  /\ \/ \E id \in Ids : Grant(id) /\ own' = id
     \/ (Refuse("DOWNLOAD_RESPONSE") \/ Lost) /\ own' = NoId

(* The local file is what its checkpoint says. *)
Kept(f, state) ==
  /\ state.id \in Ids /\ granted[state.id] # Absent
  /\ disk[f] # Absent /\ Len(disk[f]) = state.total
  /\ InPlace(disk[f], granted[state.id])

(* The user picks a checkpoint; ResumeDownload is called with the name in  *)
(* it, and reads the checkpoint of this name.                              *)
CallResume(s) ==
  LET f     == ckp[s].name
      state == ReadState(ckp[Stem[f]])
  IN
  /\ ckp[s] # Absent
  /\ Begin("resume", f)
  /\ temp' = state.name /\ total' = state.total /\ own' = state.id
  /\ aligned' = (replies = << >> /\ Kept(f, state))
  /\ UNCHANGED ckp
  /\ AllowResume(state.id, state.total) \/ Refuse("RESUME_RESPONSE") \/ Lost

Expected == IF op = "download" THEN "DOWNLOAD_RESPONSE" ELSE "RESUME_RESPONSE"

ResponseFails ==
  /\ pc = "response"
  /\ NothingReceived(Expected)
  /\ Return("threw")
  /\ UNCHANGED <<callVars, loopVars, diskVars, link, serverVars, calls>>

(* ResumeDownload deletes the checkpoint file the server knows nothing of. *)
Denied ==
  /\ pc = "response"
  /\ Received(Expected) /\ ~Head(replies).ok
  /\ replies' = Tail(replies)
  /\ Return("false")
  /\ IF op = "resume" THEN SetState(Absent) ELSE UNCHANGED ckp
  /\ UNCHANGED <<callVars, loopVars, disk, bad, torn, buf, link, serverVars, calls>>

(* The files are opened: the local one, which may fail, then resume_out,   *)
(* which truncates the checkpoint.                                         *)
DownloadAllowed ==
  /\ pc = "response" /\ op = "download"
  /\ Received(Expected) /\ Head(replies).ok
  /\ replies' = Tail(replies)
  /\ fid' = Head(replies).id /\ source' = granted[fid']
  /\ name' \in LocalNames /\ temp' = name'
  /\ \/ /\ pc' = "chunk" /\ UNCHANGED result
        /\ disk' = [disk EXCEPT ![name'] = << >>]
        /\ SetState(EmptyRecord)
     \/ Return("false") /\ UNCHANGED <<disk, ckp>>
  /\ UNCHANGED <<callVars, total, remaining, retry_counts, bad, torn, buf, link, serverVars, calls>>

(* The same, but the local file is opened to append. *)
ResumeAllowed ==
  /\ pc = "response" /\ op = "resume"
  /\ Received(Expected) /\ Head(replies).ok
  /\ replies' = Tail(replies)
  /\ fid' = Head(replies).id /\ remaining' = Head(replies).n
  /\ name' = file
  /\ \/ /\ file # NoName
        /\ pc' = "chunk" /\ UNCHANGED result
        /\ disk' = IF disk[file] = Absent THEN [disk EXCEPT ![file] = << >>] ELSE disk
        /\ SetState(EmptyRecord)
     \/ Return("false") /\ UNCHANGED <<disk, ckp>>
  /\ UNCHANGED <<callVars, source, temp, total, retry_counts, bad, torn, buf, link, serverVars, calls>>

(* No chunk comes, or one of another transfer: an exception. *)
ChunkFails ==
  /\ pc = "chunk" /\ MoreChunks
  /\ \/ NothingReceived("FILE_CHUNK")
     \/ Received("FILE_CHUNK") /\ Head(replies).id # fid /\ replies' = Tail(replies)
  /\ CloseState
  /\ Return("threw")
  /\ UNCHANGED <<callVars, loopVars, disk, bad, torn, link, serverVars, calls>>

ChunkReceived ==
  pc = "chunk" /\ MoreChunks /\ Received("FILE_CHUNK") /\ Head(replies).id = fid

Appended(data) == disk' = [disk EXCEPT ![name] = Append(@, data)]

(* write() and flush(), whose result nobody looks at: on a full disk all   *)
(* of the chunk or the end of it is lost, and the stream is bad, so that   *)
(* no later write does anything.                                           *)
Write(data) ==
  \/ ~bad /\ Appended(data) /\ UNCHANGED <<bad, torn>>
  \/ /\ bad \/ DiskFills
     /\ UNCHANGED disk \/ (~bad /\ Appended([data EXCEPT !.good = FALSE]))
     /\ bad' = TRUE /\ torn' = torn \cup {name}

(* The chunk is acknowledged, written and flushed. *)
WriteChunk ==
  /\ ChunkReceived /\ Head(replies).ok
  /\ Acknowledge(Head(replies).data.at, TRUE)
  /\ Write(Head(replies).data)
  /\ total' = total + 1
  /\ remaining' = IF op = "resume" THEN remaining - 1 ELSE remaining
  /\ pc' = "record"
  /\ UNCHANGED <<result, callVars, fid, source, name, temp, retry_counts, buf, ckp, link, calls>>

(* Info for resuming is saved. *)
RecordChunk ==
  /\ pc = "record"
  /\ SaveProgress
  /\ pc' = "chunk"
  /\ UNCHANGED <<result, callVars, loopVars, disk, bad, torn, netVars, serverVars, calls>>

(* Mutant of Retried: each failure counts as the first *)
NotCounted(k) == 1

Retried(k) == IF k \in DOMAIN retry_counts THEN retry_counts[k] + 1 ELSE 1

(* A checksum that does not fit; ResumeDownload counts the chunk as one of *)
(* those that remain all the same.                                         *)
RejectChunk ==
  LET k == Head(replies).data.at + 1 IN
  /\ ChunkReceived /\ ~Head(replies).ok
  /\ Acknowledge(Head(replies).data.at, FALSE)
  /\ retry_counts' = [j \in DOMAIN retry_counts \cup {k} |->
                        IF j = k THEN Retried(k) ELSE retry_counts[j]]
  /\ remaining' = IF op = "resume" THEN remaining - 1 ELSE remaining
  /\ IF RetriesExhausted(Retried(k)) THEN Return("false") /\ CloseState
     ELSE UNCHANGED <<pc, result, buf, ckp>>
  /\ UNCHANGED <<callVars, fid, source, name, temp, total, disk, bad, torn, link, calls>>

CloseFiles ==
  /\ pc = "chunk" /\ ~MoreChunks
  /\ CloseState
  /\ pc' = "verify"
  /\ UNCHANGED <<result, callVars, loopVars, disk, bad, torn, netVars, serverVars, calls>>

(* DownloadFile compares the checksum of the whole file; ResumeDownload    *)
(* does not.  The checkpoint file is deleted.                              *)
Finish ==
  /\ pc = "verify"
  /\ IF op = "download" /\ ~ChecksumMatches THEN Return("false") /\ UNCHANGED ckp
     ELSE Return("true") /\ SetState(Absent)
  /\ UNCHANGED <<callVars, loopVars, disk, bad, torn, buf, netVars, serverVars, calls>>

-----------------------------------------------------------------------------
(* The surroundings: see Upload *)

Killed ==
  /\ pc # "idle"
  /\ Return("killed")
  /\ buf' = Absent
  /\ replies' = << >> /\ link' = "up" /\ serving' = Idle
  /\ UNCHANGED <<callVars, loopVars, disk, bad, torn, ckp, granted, calls>>

Relogin ==
  /\ pc = "idle"
  /\ replies' = << >> /\ link' = "up" /\ serving' = Idle
  /\ UNCHANGED <<pc, result, callVars, loopVars, diskVars, granted, calls>>

LinkDies ==
  /\ link = "up"
  /\ link' = "down"
  /\ replies' \in {replies, << >>}
  /\ UNCHANGED <<pc, result, callVars, loopVars, diskVars, serverVars, calls>>

Call == (\E f \in Files : CallDownload(f)) \/ (\E s \in Stems : CallResume(s))

Step == \/ ResponseFails \/ Denied \/ DownloadAllowed \/ ResumeAllowed \/ ChunkFails
        \/ WriteChunk \/ RecordChunk \/ RejectChunk \/ CloseFiles \/ Finish

Next == Call \/ Step \/ Killed \/ Relogin \/ LinkDies

Spec == Init /\ [][Next]_vars

(* The calling thread runs, and Receive gives up after MAX_TIMEOUT. *)
FairSpec == Spec /\ WF_vars(Step)

-----------------------------------------------------------------------------
(* Properties *)

(* Every variable has its type, and a call that writes a file has a name   *)
(* for it and an id the server granted.                                    *)
CallTypeOK ==
  /\ pc \in {"idle", "response", "chunk", "record", "verify"}
  /\ op \in {"download", "resume"} /\ file \in Names
  /\ result \in {"none", "true", "false", "threw", "killed"}
  /\ own \in Ids \cup {NoId} /\ aligned \in BOOLEAN /\ calls \in Nat
  /\ pc \in {"chunk", "record", "verify"} => fid \in Ids /\ name # NoName
LoopTypeOK ==
  /\ fid \in Ids \cup {NoId} /\ source \in Files \cup {Absent}
  /\ name \in Names /\ temp \in Names
  /\ total \in Nat /\ remaining \in Nat
  /\ \A k \in DOMAIN retry_counts : retry_counts[k] \in 1..MaxRetries
DiskTypeOK ==
  /\ DOMAIN disk = Names /\ \A n \in Names : disk[n] = Absent \/ disk[n] \in Seq(Segment)
  /\ bad \in BOOLEAN /\ torn \subseteq Names
  /\ buf \in Record \cup {Absent}
  /\ ckp \in [Stems -> Record \cup {Absent}]
NetTypeOK == link \in {"up", "down"} /\ replies \in Seq(Reply)
ServerTypeOK ==
  /\ granted \in [Ids -> Files \cup {Absent}]
  /\ serving = Idle \/ serving \in Ids \X Nat
TypeOK == CallTypeOK /\ LoopTypeOK /\ DiskTypeOK /\ NetTypeOK /\ ServerTypeOK

(* A DownloadFile that returns true after the answer to its own request    *)
(* has made the local file the file of the server, undamaged, and what     *)
(* was kept for resuming it is gone, also if the disk was full meanwhile   *)
(* (ftc 388-507).                                                          *)
DownloadTrueExact ==
  pc = "idle" /\ op = "download" /\ result = "true" =>
    /\ disk[name] = Whole(granted[fid]) /\ (fid = own => disk[name] = Whole(file))
    /\ ckp[Stem[file]] = Absent

(* No checkpoint is ahead of the data: the local file it names exists and, *)
(* if no write to it failed, has at least the chunks it counts, also after *)
(* the process was killed, as each chunk is flushed before its record is   *)
(* written (ftc 431-443, 632-643).                                         *)
CheckpointBehindData ==
  \A s \in Stems : ckp[s] # Absent /\ ckp[s].name # NoName =>
    /\ disk[ckp[s].name] # Absent
    /\ ckp[s].name \notin torn => ckp[s].total <= Len(disk[ckp[s].name])

(* A DownloadFile that fails after it wrote a chunk leaves a checkpoint    *)
(* that names the local file, the id and all of its chunks, which are in   *)
(* the file if it could be written; a process that is killed loses at most *)
(* the last two records (ftc 436-443).                                     *)
FailedDownloadResumable ==
  pc = "idle" /\ op = "download" =>
    /\ result \in {"threw", "false"} /\ total >= 1 =>
         /\ ckp[Stem[file]] = [name |-> name, id |-> fid, total |-> total]
         /\ ~bad => Len(disk[name]) = total
    /\ result = "killed" /\ total >= 3 =>
         /\ ckp[Stem[file]].name = name /\ ckp[Stem[file]].id = fid
         /\ ckp[Stem[file]].total >= total - 2

(* A ResumeDownload that returns true, and no chunk of which failed its    *)
(* checksum, has completed the local file, if it began with the chunks     *)
(* that its checkpoint counts, and with no packet of an earlier call in    *)
(* the stream: a late answer to an earlier resume, of the same id, would   *)
(* make it append a chunk twice and return true; and if it could write     *)
(* what it received (ftc 566-667).                                         *)
ResumeTrueComplete ==
  /\ pc = "idle" /\ op = "resume" /\ result = "true"
  /\ aligned /\ retry_counts = << >> /\ ~bad
  => Len(disk[file]) = Chunks[granted[fid]] /\ InPlace(disk[file], granted[fid])

(* What a local file holds is never lost: calls make new files or append   *)
(* (ftc 365-372, 572).                                                     *)
LocalFilesKept ==
  [][\A n \in Names : disk[n] # Absent => disk'[n] # Absent /\ IsPrefix(disk[n], disk'[n])]_disk

(* Whether anything the client keeps leads to the local file *)
Referenced(n) ==
  \/ pc # "idle" /\ (n \in {name, temp} \/ (op = "resume" /\ n = file))
  \/ \E s \in Stems : ckp[s] # Absent /\ ckp[s].name = n
  \/ buf # Absent /\ buf.name = n

Phase == IF pc = "idle" THEN "rest" ELSE IF op = "download" THEN "transfer" ELSE "resume"

IsDownloaded(segs, f) == segs = Whole(f)

Promise == INSTANCE Transfer WITH
  Places  <- Names,
  None    <- Absent,
  IsCopy  <- IsDownloaded,
  phase   <- Phase,
  source  <- IF pc = "idle" THEN Absent ELSE source,
  outcome <- result,
  content <- disk,
  sealed  <- {n \in Names : disk[n] # Absent /\ ~Referenced(n)}

(* DownloadFile keeps the promise of Transfer: a download that returns     *)
(* true has made a whole copy of the file its answer described, under a    *)
(* name that no checkpoint leads to, so that no later download or resume   *)
(* changes it (ftc 365-372, 388-507).                                      *)
PromiseKept == Promise!Spec

(* Every call returns: each wait ends, a chunk fails its checksum at most  *)
(* MaxRetries times, and the others count towards the end of the file.     *)
EveryCallReturns == pc # "idle" ~> pc = "idle"

(* "If file download successful, then delete resume status of this file"   *)
(* (comment at ftc 703): when ResumeDownload deletes it and returns true,  *)
(* the local file has all chunks, if none of them was damaged.             *)
DeletedWhenDownloaded ==
  /\ pc = "idle" /\ op = "resume" /\ result = "true" /\ fid = own
  /\ \A k \in 1..Len(disk[file]) : disk[file][k].good
  => disk[file] = Whole(granted[own])

(* "Save info for resuming transfer", comment at ftc 436: ResumeDownload   *)
(* finds the info saved under the name that the user chose.                *)
SavedInfoIsFound ==
  pc = "response" /\ op = "resume" /\ file # NoName => temp = file

=============================================================================
