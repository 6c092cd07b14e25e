--------------------------- MODULE DownloadProofs ---------------------------
(***************************************************************************)
(* Proofs about Download, for every set of files, their chunks and stems,  *)
(* every number of retries and of calls.                                   *)
(***************************************************************************)
EXTENDS Download, TLAPS

-----------------------------------------------------------------------------
(* Type correctness.  A chunk that is still asked for has failed less than *)
(* MaxRetries times.                                                       *)

RetriesLeft ==
  pc # "idle" => \A k \in DOMAIN retry_counts : retry_counts[k] < MaxRetries

(* The server serves only what it granted. *)
ServesGranted == serving # Idle => granted[serving[1]] # Absent

(* A call that receives chunks has opened its local file. *)
FileOpen == pc \in {"chunk", "record", "verify"} => disk[name] # Absent

(* DownloadFile is called for a file of the server. *)
FileNamed == op = "download" => file \in Files

TypeInv == TypeOK /\ RetriesLeft /\ ServesGranted /\ FileOpen /\ FileNamed

(* The name in a checkpoint is a name, and its stem names a checkpoint. *)
LEMMA StemType == ASSUME NEW n \in Names PROVE Stem[n] \in Stems
BY DEF Stems

LEMMA EmptyFile == << >> # Absent /\ Len(<< >>) = 0
<1>1. << >> \in Seq(Segment) /\ Len(<< >>) = 0
  OBVIOUS
<1> QED BY <1>1, AbsentAssumption

LEMMA ReadType ==
  ASSUME DiskTypeOK, NEW s \in Stems
  PROVE  ReadState(ckp[s]) \in Record
BY DEF DiskTypeOK, ReadState, EmptyRecord, Record, Names

LEMMA RecordFields ==
  ASSUME NEW r \in Record
  PROVE  r.name \in Names /\ r.id \in Ids \cup {NoId} /\ r.total \in Nat
BY DEF Record

LEMMA MakeRecord ==
  ASSUME CallTypeOK, LoopTypeOK
  PROVE  [name |-> temp, id |-> fid, total |-> total] \in Record
BY DEF CallTypeOK, LoopTypeOK, Record

LEMMA HeadType ==
  ASSUME NetTypeOK, replies # << >>
  PROVE  /\ Head(replies) \in Reply /\ Tail(replies) \in Seq(Reply)
         /\ Head(replies).ok \in BOOLEAN
         /\ Head(replies).ok /\ Head(replies).type \in {"DOWNLOAD_RESPONSE", "RESUME_RESPONSE"} =>
              Head(replies).id \in Ids /\ Head(replies).n \in Nat
         /\ Head(replies).type = "FILE_CHUNK" =>
              Head(replies).id \in Ids /\ Head(replies).data \in Segment
<1>1. Head(replies) \in Reply /\ Tail(replies) \in Seq(Reply)
  BY DEF NetTypeOK
<1> QED BY <1>1 DEF Reply

LEMMA ChunkFields ==
  ASSUME NEW r, r \in Segment
  PROVE  r.at \in Nat /\ r.of \in Files
BY DEF Segment

(* The server puts a chunk into the stream, or nothing. *)
LEMMA SendType ==
  ASSUME NEW sent \in Seq(Reply), NEW id \in Ids, NEW k \in Nat,
         granted'[id] \in Files, SendFrom(sent, id, k)
  PROVE  replies' \in Seq(Reply)
<1>1. ASSUME NEW good \in BOOLEAN, NEW ok \in BOOLEAN PROVE Chunk(id, k, good, ok) \in Reply
  BY DEF Chunk, Reply, Segment
<1>2. ASSUME NEW r \in Reply PROVE Append(sent, r) \in Seq(Reply)
  OBVIOUS
<1> QED BY <1>1, <1>2 DEF SendFrom

LEMMA RefuseType ==
  ASSUME NetTypeOK, NEW t \in {"DOWNLOAD_RESPONSE", "RESUME_RESPONSE"}, Refuse(t)
  PROVE  replies' \in Seq(Reply)
<1>1. \A u \in {t, "ERR_PACKET"} : Refused(u) \in Reply
  BY DEF Refused, Reply
<1>2. ASSUME NEW r \in Reply PROVE Append(replies, r) \in Seq(Reply)
  BY DEF NetTypeOK
<1> QED BY <1>1, <1>2 DEF Refuse

LEMMA AllowedType ==
  ASSUME NetTypeOK, NEW t \in {"DOWNLOAD_RESPONSE", "RESUME_RESPONSE"}, NEW id \in Ids,
         NEW n \in Nat
  PROVE  Append(replies, Allowed(t, id, n)) \in Seq(Reply)
<1>1. Allowed(t, id, n) \in Reply
  BY DEF Allowed, Reply
<1> QED BY <1>1 DEF NetTypeOK

LEMMA GrantType ==
  ASSUME TypeOK, NEW id \in Ids, Grant(id), file' \in Files, UNCHANGED link
  PROVE  NetTypeOK' /\ ServerTypeOK' /\ ServesGranted'
<1>1. Chunks[file'] \in Nat
  BY ChunksAssumption
<1>2. granted' \in [Ids -> Files \cup {Absent}] /\ granted'[id] = file'
  BY DEF Grant, TypeOK, ServerTypeOK
<1>3. serving' \in Ids \X Nat
  BY DEF Grant
<1>4. Append(replies, Allowed("DOWNLOAD_RESPONSE", id, Chunks[file'])) \in Seq(Reply)
  BY <1>1, AllowedType DEF TypeOK
<1>5. replies' \in Seq(Reply)
  BY <1>2, <1>4, SendType, 0 \in Nat DEF Grant
<1>6. ServesGranted'
  BY <1>2, AbsentAssumption DEF Grant, ServesGranted
<1> QED BY <1>2, <1>3, <1>5, <1>6 DEF TypeOK, NetTypeOK, ServerTypeOK

LEMMA AllowResumeType ==
  ASSUME TypeOK, NEW id, NEW from \in Nat, AllowResume(id, from), UNCHANGED link
  PROVE  NetTypeOK' /\ ServerTypeOK' /\ ServesGranted'
<1>1. id \in Ids /\ granted[id] \in Files /\ granted' = granted /\ from <= Chunks[granted[id]]
  BY DEF AllowResume, TypeOK, ServerTypeOK
<1>2. Chunks[granted[id]] - from \in Nat
  BY <1>1, ChunksAssumption
<1>3. Append(replies, Allowed("RESUME_RESPONSE", id, Chunks[granted[id]] - from)) \in Seq(Reply)
  BY <1>1, <1>2, AllowedType DEF TypeOK
<1>4. replies' \in Seq(Reply)
  BY <1>1, <1>3, SendType DEF AllowResume
<1>5. ServesGranted'
  BY <1>1, AbsentAssumption DEF AllowResume, ServesGranted
<1> QED BY <1>1, <1>4, <1>5 DEF AllowResume, TypeOK, NetTypeOK, ServerTypeOK

LEMMA AcknowledgeType ==
  ASSUME TypeOK, ServesGranted, replies # << >>, fid \in Ids, NEW k \in Nat, NEW ok \in BOOLEAN,
         Acknowledge(k, ok)
  PROVE  replies' \in Seq(Reply) /\ ServerTypeOK' /\ ServesGranted'
<1>1. Tail(replies) \in Seq(Reply)
  BY HeadType DEF TypeOK
<1>2. CASE link = "up" /\ serving = <<fid, k>>
  <2> DEFINE next == IF ok THEN k + 1 ELSE k
  <2>2. next \in Nat
    OBVIOUS
  <2>3. fid # NoId
    BY NamesAssumption
  <2>4. granted' = granted /\ granted[fid] \in Files
    BY <1>2, <2>3 DEF Acknowledge, ServesGranted, Idle, TypeOK, ServerTypeOK
  <2>5. SendFrom(Tail(replies), fid, next) /\ serving' = <<fid, next>>
    BY <1>2 DEF Acknowledge
  <2> HIDE DEF next
  <2>6. replies' \in Seq(Reply)
    BY <1>1, <2>2, <2>4, <2>5, SendType
  <2>7. ServerTypeOK'
    BY <2>2, <2>4, <2>5 DEF TypeOK, ServerTypeOK
  <2>8. ServesGranted'
    BY <2>4, <2>5, AbsentAssumption DEF ServesGranted
  <2> QED BY <2>6, <2>7, <2>8
<1>3. CASE ~(link = "up" /\ serving = <<fid, k>>)
  BY <1>1, <1>3 DEF Acknowledge, TypeOK, ServerTypeOK, ServesGranted
<1> QED BY <1>2, <1>3

LEMMA InitType == Init => TypeInv
<1>1. Init => aligned \in BOOLEAN /\ bad \in BOOLEAN
  BY DEF Init
<1> QED BY <1>1 DEF Init, TypeInv, TypeOK, CallTypeOK, LoopTypeOK, DiskTypeOK, NetTypeOK,
                    ServerTypeOK, RetriesLeft, ServesGranted, FileOpen, FileNamed, Names

(* What a step does to the connection and the server *)
LEMMA NextNetType ==
  ASSUME TypeInv, [Next]_vars
  PROVE  NetTypeOK' /\ ServerTypeOK' /\ ServesGranted'
<1> USE DEF TypeInv, netVars, serverVars
<1>1. CASE UNCHANGED serverVars /\ link' \in {"up", "down"} /\ replies' \in Seq(Reply)
  BY <1>1 DEF TypeOK, NetTypeOK, ServerTypeOK, ServesGranted
<1>2. CASE UNCHANGED <<serverVars, netVars>>
  BY <1>2, <1>1 DEF TypeOK, NetTypeOK
<1>3. CASE UNCHANGED <<serverVars, link>> /\ (UNCHANGED replies \/ (replies # << >> /\ replies' = Tail(replies)))
  BY <1>3, <1>1, HeadType DEF TypeOK, NetTypeOK
<1>4. ASSUME NEW f \in Files, CallDownload(f) PROVE NetTypeOK' /\ ServerTypeOK' /\ ServesGranted'
  <2>1. file' \in Files /\ link' = link
    BY <1>4 DEF CallDownload, Begin
  <2>2. CASE \E id \in Ids : Grant(id)
    BY <2>1, <2>2, GrantType
  <2>3. CASE Refuse("DOWNLOAD_RESPONSE")
    BY <2>1, <2>3, <1>1, RefuseType DEF Refuse, TypeOK, NetTypeOK
  <2>4. CASE Lost
    BY <2>1, <2>4, <1>3 DEF Lost
  <2> QED BY <1>4, <2>2, <2>3, <2>4 DEF CallDownload
<1>5. ASSUME NEW s \in Stems, CallResume(s) PROVE NetTypeOK' /\ ServerTypeOK' /\ ServesGranted'
  <2> DEFINE state == ReadState(ckp[Stem[ckp[s].name]])
  <2>1. state.total \in Nat
    <3>1. ckp[s].name \in Names
      BY <1>5, RecordFields DEF CallResume, TypeOK, DiskTypeOK
    <3>2. state \in Record
      BY <3>1, StemType, ReadType DEF TypeOK
    <3> QED BY <3>2, RecordFields
  <2>2. link' = link
    BY <1>5 DEF CallResume, Begin
  <2>3. CASE AllowResume(state.id, state.total)
    BY <2>1, <2>2, <2>3, AllowResumeType
  <2>4. CASE Refuse("RESUME_RESPONSE")
    BY <2>2, <2>4, <1>1, RefuseType DEF Refuse, TypeOK, NetTypeOK
  <2>5. CASE Lost
    BY <2>2, <2>5, <1>3 DEF Lost
  <2> QED BY <1>5, <2>3, <2>4, <2>5 DEF CallResume
<1>6. CASE ResponseFails \/ Denied \/ DownloadAllowed \/ ResumeAllowed \/ ChunkFails
  BY <1>6, <1>3 DEF ResponseFails, Denied, DownloadAllowed, ResumeAllowed, ChunkFails, Received,
     NothingReceived
<1>7. ASSUME NEW ok \in BOOLEAN, ChunkReceived, Acknowledge(Head(replies).data.at, ok), UNCHANGED link
      PROVE  NetTypeOK' /\ ServerTypeOK' /\ ServesGranted'
  <2>1. replies # << >> /\ Head(replies).type = "FILE_CHUNK" /\ Head(replies).id = fid
    BY <1>7 DEF ChunkReceived, Received
  <2>2. Head(replies).data.at \in Nat /\ fid \in Ids
    BY <2>1, HeadType, ChunkFields DEF TypeOK
  <2> QED BY <1>7, <2>1, <2>2, AcknowledgeType DEF TypeOK, NetTypeOK
<1>8. CASE WriteChunk \/ RejectChunk
  BY <1>8, <1>7 DEF WriteChunk, RejectChunk
<1>9. CASE RecordChunk \/ CloseFiles \/ Finish \/ UNCHANGED vars
  BY <1>9, <1>2 DEF RecordChunk, CloseFiles, Finish, vars
<1>10. << >> \in Seq(Reply)
  OBVIOUS
<1>11. CASE Killed \/ Relogin
  <2>1. replies' = << >> /\ link' = "up" /\ serving' = Idle /\ granted' = granted
    BY <1>11 DEF Killed, Relogin
  <2>2. NetTypeOK'
    BY <2>1, <1>10 DEF NetTypeOK
  <2>3. ServerTypeOK' /\ ServesGranted'
    BY <2>1 DEF TypeOK, ServerTypeOK, ServesGranted
  <2> QED BY <2>2, <2>3
<1>12. CASE LinkDies
  <2>1. replies' \in Seq(Reply)
    BY <1>12, <1>10 DEF LinkDies, TypeOK, NetTypeOK
  <2> QED BY <1>12, <2>1, <1>1 DEF LinkDies
<1> QED
  BY <1>4, <1>5, <1>6, <1>8, <1>9, <1>11, <1>12 DEF Next, Call, Step

LEMMA CkpType ==
  ASSUME CallTypeOK, DiskTypeOK, NEW r \in Record \cup {Absent}
  PROVE  [ckp EXCEPT ![Stem[file]] = r] \in [Stems -> Record \cup {Absent}]
BY StemType DEF CallTypeOK, DiskTypeOK

LEMMA FlushedType ==
  ASSUME CallTypeOK, DiskTypeOK
  PROVE  Flushed \in [Stems -> Record \cup {Absent}]
BY CkpType DEF Flushed, DiskTypeOK

LEMMA LocalNamesType ==
  ASSUME CallTypeOK
  PROVE  LocalNames \subseteq Names
BY DEF CallTypeOK, LocalNames, Names

(* One local file is changed, or made. *)
LEMMA DiskUpdate ==
  ASSUME DiskTypeOK, NEW n \in Names, NEW d \in Seq(Segment)
  PROVE  DOMAIN [disk EXCEPT ![n] = d] = Names
         /\ \A m \in Names : [disk EXCEPT ![n] = d][m] = IF m = n THEN d ELSE disk[m]
BY DEF DiskTypeOK

(* A chunk is written whole, in part or not at all. *)
LEMMA Writes ==
  ASSUME TypeInv, WriteChunk
  PROVE  /\ Head(replies).data \in Segment /\ name \in Names /\ disk[name] \in Seq(Segment)
         /\ disk' = disk \/ \E d \in Segment : disk' = [disk EXCEPT ![name] = Append(disk[name], d)]
         /\ ~bad' => ~bad /\ disk' = [disk EXCEPT ![name] = Append(disk[name], Head(replies).data)]
         /\ name \notin torn' => ~bad'
<1> DEFINE data == Head(replies).data
<1>1. data \in Segment /\ name \in Names
  BY HeadType DEF WriteChunk, ChunkReceived, Received, TypeInv, TypeOK, LoopTypeOK
<1>2. disk[name] \in Seq(Segment)
  BY <1>1 DEF WriteChunk, ChunkReceived, TypeInv, TypeOK, FileOpen, DiskTypeOK
<1>3. [data EXCEPT !.good = FALSE] \in Segment
  BY <1>1 DEF Segment
<1>4. Write(data)
  BY DEF WriteChunk
<1> HIDE DEF data
<1>5. /\ disk' = disk \/ \E d \in Segment : disk' = [disk EXCEPT ![name] = Append(disk[name], d)]
      /\ ~bad' => ~bad /\ disk' = [disk EXCEPT ![name] = Append(disk[name], data)]
      /\ name \notin torn' => ~bad'
  BY <1>1, <1>3, <1>4 DEF Write, Appended
<1> QED BY <1>1, <1>2, <1>5 DEF data

(* A file to which a write has failed stays one. *)
LEMMA NextTorn ==
  ASSUME TypeInv, [Next]_vars
  PROVE  bad' \in BOOLEAN /\ torn' \subseteq Names /\ torn \subseteq torn'
<1> USE DEF TypeInv, TypeOK, DiskTypeOK, LoopTypeOK, diskVars
<1>1. CASE UNCHANGED <<bad, torn>>
  BY <1>1
<1>2. CASE Call
  BY <1>2 DEF Call, CallDownload, CallResume, Begin
<1>3. CASE WriteChunk
  BY <1>3 DEF WriteChunk, Write
<1> QED
  BY <1>1, <1>2, <1>3
     DEF Next, Step, ResponseFails, Denied, DownloadAllowed, ResumeAllowed, ChunkFails,
         RecordChunk, RejectChunk, CloseFiles, Finish, Killed, Relogin, LinkDies, vars

LEMMA NextDiskType ==
  ASSUME TypeInv, [Next]_vars
  PROVE  DiskTypeOK'
<1> USE DEF TypeInv, TypeOK, diskVars
<1>0. EmptyRecord \in Record /\ << >> \in Seq(Segment)
  BY DEF EmptyRecord, Record, Names
<1>1. CASE UNCHANGED disk /\ buf' \in Record \cup {Absent} /\ ckp' \in [Stems -> Record \cup {Absent}]
  BY <1>1, NextTorn DEF DiskTypeOK
<1>2. CASE UNCHANGED diskVars
  BY <1>2 DEF DiskTypeOK
<1>3. CASE UNCHANGED disk /\ CloseState
  BY <1>3, <1>1, FlushedType DEF CloseState
<1>4. CASE UNCHANGED <<disk, buf>> /\ SetState(Absent)
  BY <1>4, <1>1, CkpType DEF SetState, DiskTypeOK
<1>5. ASSUME NEW f \in Files, CallDownload(f) PROVE DiskTypeOK'
  <2>1. Stem[f] \in Stems
    BY StemType DEF Names
  <2>2. ckp' \in [Stems -> Record \cup {Absent}]
    BY <1>5, <1>0, <2>1 DEF CallDownload, DiskTypeOK
  <2> QED BY <1>5, <2>2, <1>1 DEF CallDownload, Begin, DiskTypeOK
<1>6. ASSUME NEW s \in Stems, CallResume(s) PROVE DiskTypeOK'
  BY <1>6, <1>1 DEF CallResume, Begin, DiskTypeOK
<1>7. CASE DownloadAllowed \/ ResumeAllowed
  <2>1. CASE UNCHANGED diskVars
    BY <2>1, <1>2
  <2>2. name' \in Names
    BY <1>7, LocalNamesType DEF DownloadAllowed, ResumeAllowed, CallTypeOK
  <2>3. CASE disk' \in {disk, [disk EXCEPT ![name'] = << >>]} /\ SetState(EmptyRecord) /\ UNCHANGED buf
    <3>1. ckp' \in [Stems -> Record \cup {Absent}]
      BY <2>3, <1>0, CkpType DEF SetState
    <3> QED BY <2>3, <2>2, <3>1, <1>0, <1>1, DiskUpdate, NextTorn DEF DiskTypeOK
  <2> QED BY <1>7, <2>1, <2>3 DEF DownloadAllowed, ResumeAllowed
<1>8. CASE WriteChunk
  <2>1. UNCHANGED <<buf, ckp>>
    BY <1>8 DEF WriteChunk
  <2>2. CASE UNCHANGED disk
    BY <2>1, <2>2, <1>1 DEF DiskTypeOK
  <2>3. ASSUME NEW d \in Segment, disk' = [disk EXCEPT ![name] = Append(disk[name], d)] PROVE DiskTypeOK'
    <3>1. Append(disk[name], d) \in Seq(Segment) /\ name \in Names
      BY <1>8, Writes
    <3> QED BY <2>1, <2>3, <3>1, DiskUpdate, NextTorn DEF DiskTypeOK
  <2> QED BY <1>8, <2>2, <2>3, Writes
<1>9. CASE RecordChunk
  BY <1>9, <1>1, FlushedType, MakeRecord DEF RecordChunk, SaveProgress
<1>10. CASE ChunkFails \/ CloseFiles \/ RejectChunk
  BY <1>10, <1>2, <1>3 DEF ChunkFails, CloseFiles, RejectChunk
<1>11. CASE Denied \/ Finish
  BY <1>11, <1>2, <1>4 DEF Denied, Finish
<1>12. CASE Killed
  BY <1>12, <1>1 DEF Killed, DiskTypeOK
<1>13. CASE ResponseFails \/ Relogin \/ LinkDies \/ UNCHANGED vars
  BY <1>13, <1>2 DEF ResponseFails, Relogin, LinkDies, vars
<1> QED
  BY <1>5, <1>6, <1>7, <1>8, <1>9, <1>10, <1>11, <1>12, <1>13 DEF Next, Call, Step

LEMMA PrefixOfAppend ==
  ASSUME NEW S, NEW q \in Seq(S), NEW x \in S
  PROVE  IsPrefix(q, q) /\ IsPrefix(q, Append(q, x))
BY DEF IsPrefix

(* What a local file holds stays in it. *)
LEMMA DiskKept ==
  ASSUME TypeInv, [Next]_vars, NEW n \in Names, disk[n] # Absent
  PROVE  disk'[n] # Absent /\ IsPrefix(disk[n], disk'[n])
<1> USE DEF TypeInv, TypeOK, diskVars
<1>0. disk[n] \in Seq(Segment)
  BY DEF DiskTypeOK
<1>1. CASE disk'[n] = disk[n]
  <2>1. IsPrefix(disk[n], disk[n])
    BY <1>0, IsPrefix(disk[n], disk[n]) \/ Len(disk[n]) \in Nat DEF IsPrefix
  <2> QED BY <1>1, <2>1
<1>2. CASE DownloadAllowed
  <2>1. CASE UNCHANGED disk
    BY <2>1, <1>1
  <2>2. CASE disk' = [disk EXCEPT ![name'] = << >>] /\ name' \in LocalNames
    <3>1. disk[name'] = Absent
      BY <2>2 DEF LocalNames
    <3> QED BY <2>2, <3>1, <1>1 DEF DiskTypeOK
  <2> QED BY <1>2, <2>1, <2>2 DEF DownloadAllowed
<1>3. CASE ResumeAllowed
  BY <1>3, <1>1 DEF ResumeAllowed, DiskTypeOK
<1>4. CASE WriteChunk
  <2> SUFFICES ASSUME NEW d \in Segment, disk' = [disk EXCEPT ![name] = Append(disk[name], d)]
               PROVE  disk'[n] # Absent /\ IsPrefix(disk[n], disk'[n])
    BY <1>1, <1>4, Writes
  <2>2. CASE name = n
    <3>1. disk'[n] = Append(disk[n], d)
      BY <2>2 DEF DiskTypeOK
    <3>2. disk'[n] \in Seq(Segment)
      BY <3>1, <1>0
    <3> QED BY <3>1, <3>2, <1>0, PrefixOfAppend, AbsentAssumption
  <2>3. CASE name # n
    BY <2>3, <1>1 DEF DiskTypeOK
  <2> QED BY <2>2, <2>3
<1>5. CASE UNCHANGED disk
  BY <1>5, <1>1
<1>6. CASE Call
  BY <1>6, <1>5 DEF Call, CallDownload, CallResume, Begin
<1> QED
  BY <1>2, <1>3, <1>4, <1>5, <1>6
     DEF Next, Step, ResponseFails, Denied, ChunkFails, RecordChunk, RejectChunk, CloseFiles,
         Finish, Killed, Relogin, LinkDies, vars

LEMMA NextFileOpen ==
  ASSUME TypeInv, [Next]_vars
  PROVE  FileOpen'
<1> USE DEF TypeInv, TypeOK
<1>0. << >> # Absent
  BY EmptyFile
<1>1. CASE DownloadAllowed
  <2>1. CASE pc' = "idle"
    BY <2>1 DEF FileOpen
  <2>2. CASE name' \in Names /\ disk' = [disk EXCEPT ![name'] = << >>]
    BY <2>2, <1>0 DEF FileOpen, DiskTypeOK
  <2> QED BY <1>1, <2>1, <2>2, LocalNamesType DEF DownloadAllowed, Return
<1>2. CASE ResumeAllowed
  <2>1. name' \in Names
    BY <1>2 DEF ResumeAllowed, CallTypeOK
  <2> QED BY <1>2, <2>1, <1>0 DEF ResumeAllowed, Return, FileOpen, DiskTypeOK
<1>3. CASE pc' \in {"idle", "response"}
  BY <1>3 DEF FileOpen
<1>4. CASE pc \in {"chunk", "record", "verify"} /\ UNCHANGED name
  BY <1>4, DiskKept DEF FileOpen, LoopTypeOK
<1>5. CASE Call
  BY <1>5, <1>3 DEF Call, CallDownload, CallResume, Begin
<1>6. CASE ResponseFails \/ Denied \/ ChunkFails \/ Finish \/ Killed \/ Relogin
  BY <1>6, <1>3 DEF ResponseFails, Denied, ChunkFails, Finish, Killed, Relogin, Return
<1>7. CASE WriteChunk \/ RecordChunk \/ RejectChunk \/ CloseFiles
  BY <1>7, <1>3, <1>4
     DEF WriteChunk, RecordChunk, RejectChunk, CloseFiles, ChunkReceived, Return, loopVars
<1>8. CASE LinkDies \/ UNCHANGED vars
  BY <1>8 DEF LinkDies, FileOpen, vars, loopVars, diskVars
<1> QED
  BY <1>1, <1>2, <1>5, <1>6, <1>7, <1>8 DEF Next, Step

(* The counts of failed checksums *)
LEMMA RetriesType ==
  ASSUME LoopTypeOK, RetriesLeft, RejectChunk
  PROVE  /\ \A k \in DOMAIN retry_counts' : retry_counts'[k] \in 1..MaxRetries
         /\ RetriesLeft'
<1> DEFINE k == Head(replies).data.at + 1
<1>1. pc # "idle" /\ pc' \in {pc, "idle"}
  BY DEF RejectChunk, ChunkReceived, Return
<1>2. \A j \in DOMAIN retry_counts : retry_counts[j] \in 1..MaxRetries /\ retry_counts[j] < MaxRetries
  BY <1>1 DEF LoopTypeOK, RetriesLeft
<1>3. Retried(k) \in 1..MaxRetries
  BY <1>2, ChunksAssumption DEF Retried
<1>4. pc' # "idle" => Retried(k) < MaxRetries
  BY <1>3, ChunksAssumption DEF RejectChunk, RetriesExhausted, Return
<1>5. retry_counts' = [j \in DOMAIN retry_counts \cup {k} |-> IF j = k THEN Retried(k) ELSE retry_counts[j]]
  BY DEF RejectChunk
<1> HIDE DEF k
<1> QED BY <1>2, <1>3, <1>4, <1>5 DEF RetriesLeft

(* A chunk is received only while chunks remain. *)
LEMMA RemainingType ==
  ASSUME LoopTypeOK, ChunkReceived
  PROVE  (IF op = "resume" THEN remaining - 1 ELSE remaining) \in Nat
BY DEF LoopTypeOK, ChunkReceived, MoreChunks

LEMMA NextCallType ==
  ASSUME TypeInv, [Next]_vars
  PROVE  CallTypeOK' /\ LoopTypeOK' /\ RetriesLeft' /\ FileNamed'
<1> USE DEF TypeInv, TypeOK, FileNamed, callVars, loopVars
<1>1. CASE /\ UNCHANGED <<callVars, fid, name, retry_counts, calls>>
           /\ pc' = pc \/ pc' = "idle" \/ (pc \in {"chunk", "record", "verify"} /\ pc' \in {"chunk", "record", "verify"})
           /\ source' = source /\ temp' = temp /\ total' \in Nat /\ remaining' \in Nat
           /\ result' \in {result, "true", "false", "threw", "killed"}
  BY <1>1 DEF CallTypeOK, LoopTypeOK, RetriesLeft
<1>2. CASE UNCHANGED <<callVars, loopVars, calls>> /\ \E r \in {"true", "false", "threw", "killed"} : Return(r)
  BY <1>2, <1>1 DEF Return, LoopTypeOK
<1>3. ASSUME NEW f \in Files, CallDownload(f) PROVE CallTypeOK' /\ LoopTypeOK' /\ RetriesLeft' /\ FileNamed'
  <2>1. aligned' \in BOOLEAN
    BY <1>3 DEF CallDownload
  <2> QED BY <1>3, <2>1 DEF CallDownload, Begin, CallTypeOK, LoopTypeOK, RetriesLeft, Names
<1>4. ASSUME NEW s \in Stems, CallResume(s) PROVE CallTypeOK' /\ LoopTypeOK' /\ RetriesLeft' /\ FileNamed'
  <2> DEFINE f == ckp[s].name
             state == ReadState(ckp[Stem[f]])
  <2>1. f \in Names
    BY <1>4, RecordFields DEF CallResume, DiskTypeOK
  <2>2. state \in Record
    BY <2>1, StemType, ReadType
  <2>3. state.name \in Names /\ state.id \in Ids \cup {NoId} /\ state.total \in Nat
    BY <2>2, RecordFields
  <2>4. /\ pc' = "response" /\ op' = "resume" /\ file' = f /\ result' = "none"
        /\ fid' = NoId /\ source' = Absent /\ name' = NoName
        /\ remaining' = 0 /\ retry_counts' = << >> /\ calls' = calls + 1
        /\ temp' = state.name /\ total' = state.total /\ own' = state.id
    BY <1>4 DEF CallResume, Begin
  <2>5. aligned' \in BOOLEAN
    BY <1>4 DEF CallResume
  <2> HIDE DEF f, state
  <2> QED BY <2>1, <2>3, <2>4, <2>5 DEF CallTypeOK, LoopTypeOK, RetriesLeft, Names
<1>5. CASE DownloadAllowed
  <2>1. Head(replies).id \in Ids
    BY <1>5, HeadType DEF DownloadAllowed, Received, Expected
  <2>2. granted[Head(replies).id] \in Files \cup {Absent}
    BY <2>1 DEF ServerTypeOK
  <2>3. name' \in Names
    BY <1>5, LocalNamesType DEF DownloadAllowed
  <2>4. name' # NoName
    BY <1>5, NamesAssumption DEF DownloadAllowed, LocalNames
  <2> QED BY <1>5, <2>1, <2>2, <2>3, <2>4 DEF DownloadAllowed, Return, CallTypeOK, LoopTypeOK, RetriesLeft
<1>6. CASE ResumeAllowed
  <2>1. Head(replies).id \in Ids /\ Head(replies).n \in Nat
    BY <1>6, HeadType DEF ResumeAllowed, Received, Expected
  <2> QED BY <1>6, <2>1 DEF ResumeAllowed, Return, CallTypeOK, LoopTypeOK, RetriesLeft
<1>7. CASE WriteChunk
  BY <1>7, <1>1, RemainingType DEF WriteChunk, ChunkReceived, LoopTypeOK
<1>8. CASE RejectChunk
  BY <1>8, RemainingType, RetriesType DEF RejectChunk, Return, ChunkReceived, CallTypeOK, LoopTypeOK
<1>9. CASE RecordChunk \/ CloseFiles
  BY <1>9, <1>1 DEF RecordChunk, CloseFiles, LoopTypeOK
<1>10. CASE ResponseFails \/ Denied \/ ChunkFails \/ Finish \/ Killed
  BY <1>10, <1>2 DEF ResponseFails, Denied, ChunkFails, Finish, Killed
<1>11. CASE Relogin \/ LinkDies \/ UNCHANGED vars
  BY <1>11, <1>1 DEF Relogin, LinkDies, vars, LoopTypeOK
<1> QED
  BY <1>3, <1>4, <1>5, <1>6, <1>7, <1>8, <1>9, <1>10, <1>11 DEF Next, Call, Step

LEMMA NextType == ASSUME TypeInv, [Next]_vars PROVE TypeInv'
BY NextNetType, NextDiskType, NextFileOpen, NextCallType DEF TypeInv, TypeOK

LEMMA TypeInvariance == Spec => []TypeInv
BY InitType, NextType, PTL DEF Spec

(* Every reachable state is well typed; in particular a call that receives *)
(* chunks acts on an id the server granted, writes a local file that has a *)
(* name, and no chunk fails its checksum more often than MaxRetries times. *)
THEOREM TypeCorrect == Spec => []TypeOK
<1>1. TypeInv => TypeOK BY DEF TypeInv
<1> QED BY <1>1, TypeInvariance, PTL

(* What a local file holds is never lost, whatever happens to the process, *)
(* the connection and the answers (ftc 365-372, 572).                      *)
THEOREM FilesKept == Spec => LocalFilesKept
<1>1. ASSUME TypeInv, [Next]_vars
      PROVE  [\A n \in Names : disk[n] # Absent => disk'[n] # Absent /\ IsPrefix(disk[n], disk'[n])]_disk
  BY <1>1, DiskKept
<1> QED BY <1>1, TypeInvariance, PTL DEF Spec, LocalFilesKept

-----------------------------------------------------------------------------
(* No checkpoint is ahead of the data.  Beyond the property itself: the    *)
(* record not yet flushed and the progress of the call are behind their    *)
(* data too; and the name that a checkpoint holds is the file that a       *)
(* resume will append to.  The latter needs that a name belongs to the     *)
(* stem of its checkpoint, unless it is a copy's, whose own stem no other  *)
(* name has.                                                               *)

Behind(n, t) == n # NoName => disk[n] # Absent /\ (n \notin torn => t <= Len(disk[n]))

Belongs(s, n) ==
  \/ n = NoName \/ Stem[n] = s
  \/ n \in Copies /\ \A c \in Copies : Stem[c] # s

Sound(s, r) == r # Absent => Behind(r.name, r.total) /\ Belongs(s, r.name)

Checkpoints == \A s \in Stems : Sound(s, ckp[s])

Unflushed == Sound(Stem[file], buf)

(* The progress of the call, and the name its records will have *)
Progress ==
  /\ pc = "response" /\ op = "resume" /\ file # NoName => temp \in {NoName, file} /\ Behind(temp, total)
  /\ pc = "response" /\ op = "download" => total = 0
  /\ pc \in {"chunk", "record"} =>
       /\ temp \in {NoName, name} /\ Behind(temp, total) /\ Belongs(Stem[file], temp)

BufEmpty == pc \in {"idle", "response", "verify"} => buf = Absent

BehindInv == TypeInv /\ Checkpoints /\ Unflushed /\ Progress /\ BufEmpty

LEMMA InitBehind == Init => BehindInv
BY InitType DEF Init, BehindInv, Checkpoints, Unflushed, Progress, BufEmpty, Sound

(* Local files only grow: what is behind stays behind. *)
LEMMA StaysBehind ==
  ASSUME TypeInv, [Next]_vars, NEW n \in Names, NEW t \in Nat, Behind(n, t)
  PROVE  n # NoName => disk'[n] # Absent /\ (n \notin torn' => t <= Len(disk'[n]))
<1> SUFFICES ASSUME n # NoName PROVE disk'[n] # Absent /\ (n \notin torn' => t <= Len(disk'[n]))
  OBVIOUS
<1>1. disk[n] # Absent /\ (n \notin torn' => t <= Len(disk[n]))
  BY NextTorn DEF Behind
<1>2. disk'[n] # Absent /\ IsPrefix(disk[n], disk'[n])
  BY <1>1, DiskKept
<1>3. disk[n] \in Seq(Segment) /\ disk'[n] \in Seq(Segment)
  BY <1>1, <1>2, NextDiskType DEF TypeInv, TypeOK, DiskTypeOK
<1> QED BY <1>1, <1>2, <1>3 DEF IsPrefix

LEMMA StaysSound ==
  ASSUME TypeInv, [Next]_vars, NEW s \in Stems, NEW r \in Record \cup {Absent}, Sound(s, r)
  PROVE  r # Absent => /\ r.name # NoName =>
                            /\ disk'[r.name] # Absent
                            /\ r.name \notin torn' => r.total <= Len(disk'[r.name])
                       /\ Belongs(s, r.name)
<1> SUFFICES ASSUME r # Absent
             PROVE  /\ r.name # NoName =>
                         /\ disk'[r.name] # Absent
                         /\ r.name \notin torn' => r.total <= Len(disk'[r.name])
                    /\ Belongs(s, r.name)
  OBVIOUS
<1>1. r.name \in Names /\ r.total \in Nat
  BY RecordFields
<1> QED BY <1>1, StaysBehind DEF Sound

LEMMA CheckpointsKept ==
  ASSUME BehindInv, [Next]_vars,
         \A s \in Stems : ckp'[s] \in {ckp[s], Absent, EmptyRecord, Flushed[s]}
  PROVE  Checkpoints'
<1> USE DEF BehindInv, TypeInv, TypeOK
<1> SUFFICES ASSUME NEW s \in Stems PROVE Sound(s, ckp[s])'
  BY DEF Checkpoints
<1>1. CASE ckp'[s] \in {Absent, EmptyRecord}
  BY <1>1 DEF Sound, Behind, Belongs, EmptyRecord
<1>2. ASSUME NEW r \in Record \cup {Absent}, Sound(s, r), ckp'[s] = r PROVE Sound(s, ckp[s])'
  BY <1>2, StaysSound DEF Sound, Behind, Belongs
<1>3. Sound(s, ckp[s]) /\ ckp[s] \in Record \cup {Absent}
  BY DEF Checkpoints, DiskTypeOK
<1>4. Sound(s, Flushed[s]) /\ Flushed[s] \in Record \cup {Absent}
  BY <1>3, FlushedType DEF Flushed, Unflushed, CallTypeOK, DiskTypeOK
<1> QED BY <1>1, <1>2, <1>3, <1>4

LEMMA NextCheckpoints ==
  ASSUME BehindInv, [Next]_vars
  PROVE  Checkpoints'
<1> USE DEF BehindInv, TypeInv, TypeOK, diskVars
<1>1. CASE UNCHANGED ckp
  BY <1>1, CheckpointsKept
<1>2. CASE ckp' = Flushed
  BY <1>2, CheckpointsKept
<1>3. CASE SetState(Absent) \/ SetState(EmptyRecord)
  BY <1>3, CheckpointsKept DEF SetState, DiskTypeOK
<1>4. ASSUME NEW f \in Files, CallDownload(f) PROVE Checkpoints'
  BY <1>4, CheckpointsKept DEF CallDownload, DiskTypeOK
<1>5. ASSUME NEW s \in Stems, CallResume(s) PROVE Checkpoints'
  BY <1>5, <1>1 DEF CallResume
<1> QED
  BY <1>1, <1>2, <1>3, <1>4, <1>5
     DEF Next, Call, Step, ResponseFails, Denied, DownloadAllowed, ResumeAllowed, ChunkFails,
         WriteChunk, RecordChunk, SaveProgress, CloseState, RejectChunk, CloseFiles, Finish,
         Killed, Relogin, LinkDies, vars

LEMMA NextUnflushed ==
  ASSUME BehindInv, [Next]_vars
  PROVE  Unflushed' /\ BufEmpty'
<1> USE DEF BehindInv, TypeInv, TypeOK, diskVars, callVars, loopVars
<1>1. CASE buf' = Absent
  BY <1>1 DEF Unflushed, Sound, BufEmpty
<1>2. CASE UNCHANGED <<buf, file>> /\ pc \in {"chunk", "record"} /\ pc' \in {"chunk", "record"}
  <2>1. Stem[file] \in Stems /\ buf \in Record \cup {Absent}
    BY StemType DEF CallTypeOK, DiskTypeOK
  <2> QED BY <1>2, <2>1, StaysSound DEF Unflushed, Sound, Behind, Belongs, BufEmpty
<1>3. CASE Call
  BY <1>3, <1>1 DEF Call, CallDownload, CallResume, Begin, BufEmpty
<1>4. CASE pc \in {"idle", "response", "verify"} /\ UNCHANGED buf
  BY <1>4, <1>1 DEF BufEmpty
<1>5. CASE RecordChunk
  BY <1>5 DEF RecordChunk, SaveProgress, Unflushed, Sound, Behind, Belongs, Progress, BufEmpty
<1>6. CASE RejectChunk
  BY <1>6, <1>1, <1>2 DEF RejectChunk, ChunkReceived, CloseState
<1>7. CASE LinkDies \/ UNCHANGED vars
  BY <1>7, <1>2, <1>4 DEF LinkDies, vars, CallTypeOK
<1> QED
  BY <1>1, <1>2, <1>3, <1>4, <1>5, <1>6, <1>7
     DEF Next, Step, ResponseFails, Denied, DownloadAllowed, ResumeAllowed, ChunkFails,
         WriteChunk, ChunkReceived, CloseState, CloseFiles, Finish, Killed, Relogin

(* The record that CallResume reads is of the file it is called with. *)
LEMMA ResumesOwnFile ==
  ASSUME BehindInv, NEW s \in Stems, ckp[s] # Absent, ckp[s].name # NoName
  PROVE  ReadState(ckp[Stem[ckp[s].name]]).name \in {NoName, ckp[s].name}
<1> DEFINE f == ckp[s].name
           state == ReadState(ckp[Stem[f]])
<1> SUFFICES state.name \in {NoName, f}
  OBVIOUS
<1>1. f \in Names /\ Stem[f] \in Stems /\ Belongs(s, f)
  BY RecordFields, StemType DEF BehindInv, TypeInv, TypeOK, DiskTypeOK, Checkpoints, Sound
<1>2. CASE Stem[f] = s
  BY <1>2 DEF ReadState
<1>3. CASE f \in Copies
  <2>1. state.name = NoName \/ Belongs(Stem[f], state.name)
    BY <1>1 DEF BehindInv, Checkpoints, Sound, ReadState, EmptyRecord
  <2>2. state.name \in Names
    BY <1>1, ReadType, RecordFields DEF BehindInv, TypeInv, TypeOK
  <2> HIDE DEF f, state
  <2> QED BY <1>3, <2>1, <2>2, NamesAssumption DEF Belongs
<1> QED BY <1>1, <1>2, <1>3 DEF Belongs

LEMMA NextProgress ==
  ASSUME BehindInv, [Next]_vars
  PROVE  Progress'
<1> USE DEF BehindInv, TypeInv, TypeOK, diskVars, callVars, loopVars
<1>1. CASE pc' \in {"idle", "verify"}
  BY <1>1 DEF Progress
<1>2. ASSUME NEW f \in Files, CallDownload(f) PROVE Progress'
  BY <1>2 DEF CallDownload, Begin, Progress
<1>3. ASSUME NEW s \in Stems, CallResume(s) PROVE Progress'
  <2> DEFINE f == ckp[s].name
             state == ReadState(ckp[Stem[f]])
  <2>1. pc' = "response" /\ op' = "resume" /\ file' = f /\ temp' = state.name /\ total' = state.total /\ UNCHANGED <<disk, torn>>
    BY <1>3 DEF CallResume, Begin
  <2>2. f # NoName => state.name \in {NoName, f}
    BY <1>3, ResumesOwnFile DEF CallResume
  <2>3. f \in Names
    BY <1>3, RecordFields DEF CallResume, DiskTypeOK
  <2>4. Behind(state.name, state.total)
    BY <2>3, StemType DEF Checkpoints, Sound, ReadState, Behind, EmptyRecord
  <2> HIDE DEF f, state
  <2> QED BY <2>1, <2>2, <2>4 DEF Progress, Behind
<1>4. CASE DownloadAllowed
  <2>1. CASE pc' = "idle"
    BY <2>1, <1>1
  <2>2. CASE pc' = "chunk" /\ disk' = [disk EXCEPT ![name'] = << >>]
    <3>1. name' \in LocalNames /\ temp' = name' /\ total' = 0 /\ file' = file /\ file \in Files
      BY <1>4 DEF DownloadAllowed, Progress, FileNamed
    <3>2. name' \in Names /\ disk'[name'] = << >> /\ << >> \in Seq(Segment)
      BY <2>2, <3>1, LocalNamesType DEF DiskTypeOK
    <3>3. Belongs(Stem[file], name')
      BY <3>1, NamesAssumption DEF Belongs, LocalNames, Names
    <3>4. disk'[name'] # Absent /\ 0 <= Len(disk'[name'])
      BY <3>2, EmptyFile
    <3> QED BY <2>2, <3>1, <3>3, <3>4 DEF Progress, Behind, Belongs
  <2> QED BY <1>4, <2>1, <2>2 DEF DownloadAllowed, Return
<1>5. CASE ResumeAllowed
  <2>1. CASE pc' = "idle"
    BY <2>1, <1>1
  <2>2. CASE pc' = "chunk" /\ file # NoName
    <3>1. temp \in {NoName, file} /\ Behind(temp, total) /\ name' = file /\ UNCHANGED <<file, temp, total>>
      BY <1>5, <2>2 DEF ResumeAllowed, Progress
    <3>2. temp # NoName => disk'[temp] # Absent /\ (temp \notin torn' => total <= Len(disk'[temp]))
      BY <3>1, StaysBehind DEF LoopTypeOK
    <3> QED BY <2>2, <3>1, <3>2 DEF Progress, Behind, Belongs
  <2> QED BY <1>5, <2>1, <2>2 DEF ResumeAllowed, Return
<1>6. CASE WriteChunk
  <2>1. temp \in {NoName, name} /\ Behind(temp, total) /\ Belongs(Stem[file], temp)
    BY <1>6 DEF WriteChunk, ChunkReceived, Progress
  <2>2. Head(replies).data \in Segment /\ disk[name] \in Seq(Segment) /\ name \in Names
    BY <1>6, Writes
  <2>3. name \notin torn' => Len(disk'[name]) = Len(disk[name]) + 1 /\ name \notin torn
    <3> SUFFICES ASSUME name \notin torn' PROVE Len(disk'[name]) = Len(disk[name]) + 1 /\ name \notin torn
      OBVIOUS
    <3>1. disk'[name] = Append(disk[name], Head(replies).data)
      BY <1>6, <2>2, Writes DEF DiskTypeOK
    <3> QED BY <2>2, <3>1, NextTorn
  <2>4. disk[name] # Absent /\ disk'[name] # Absent
    BY <2>2, AbsentAssumption, DiskKept
  <2>5. pc' = "record" /\ total' = total + 1 /\ UNCHANGED <<file, name, temp>>
    BY <1>6 DEF WriteChunk
  <2>6. temp # NoName => disk'[name] # Absent /\ (name \notin torn' => total + 1 <= Len(disk'[name]))
    BY <2>1, <2>2, <2>3, <2>4 DEF Behind, LoopTypeOK
  <2> QED BY <2>1, <2>5, <2>6 DEF Progress, Behind, Belongs
<1>7. CASE /\ pc \in {"chunk", "record"} /\ pc' \in {"chunk", "record"}
           /\ UNCHANGED <<op, file, name, temp, total, disk, torn>>
  BY <1>7 DEF Progress, Behind, Belongs
<1>8. CASE RecordChunk
  BY <1>8, <1>7 DEF RecordChunk
<1>9. CASE RejectChunk
  BY <1>9, <1>1, <1>7 DEF RejectChunk, ChunkReceived, Return
<1>10. CASE LinkDies \/ UNCHANGED vars
  BY <1>10 DEF LinkDies, vars, Progress, Behind, Belongs
<1> QED
  BY <1>1, <1>2, <1>3, <1>4, <1>5, <1>6, <1>8, <1>9, <1>10
     DEF Next, Call, Step, ResponseFails, Denied, ChunkFails, CloseFiles, Finish, Killed,
         Relogin, Return

LEMMA NextBehind == ASSUME BehindInv, [Next]_vars PROVE BehindInv'
BY NextType, NextCheckpoints, NextUnflushed, NextProgress DEF BehindInv

LEMMA BehindInvariance == Spec => []BehindInv
BY InitBehind, NextBehind, PTL DEF Spec

(* No checkpoint on disk counts chunks that its file does not have, unless *)
(* a write to this file failed, also after the process was killed between  *)
(* any two steps (ftc 431-443, 632-643).                                   *)
THEOREM CheckpointsBehind == Spec => []CheckpointBehindData
<1>1. BehindInv => CheckpointBehindData
  BY DEF BehindInv, Checkpoints, Sound, Behind, CheckpointBehindData
<1> QED BY <1>1, BehindInvariance, PTL

-----------------------------------------------------------------------------
(* What a download leaves behind.  The record not yet flushed is one chunk *)
(* behind the one on disk; between the write of a chunk and that of its    *)
(* record both are one chunk further behind.                               *)

RecordOf(t) == [name |-> name, id |-> fid, total |-> t]

Saved(t) ==
  /\ t >= 1 => buf = RecordOf(t)
  /\ t >= 2 => ckp[Stem[file]] = RecordOf(t - 1)

Counted ==
  op = "download" =>
    /\ pc = "response" => total = 0
    /\ pc \in {"chunk", "record"} => temp = name
    /\ pc \in {"chunk", "record", "verify"} /\ ~bad => Len(disk[name]) = total
    /\ pc = "chunk" => Saved(total)
    /\ pc = "record" => total >= 1 /\ Saved(total - 1)
    /\ pc = "verify" /\ total >= 1 => ckp[Stem[file]] = RecordOf(total)

ResumableInv == TypeInv /\ Counted /\ FailedDownloadResumable

LEMMA InitResumable == Init => ResumableInv
BY InitType DEF Init, ResumableInv, Counted, FailedDownloadResumable

LEMMA FlushedRecord ==
  ASSUME TypeInv, NEW t \in Nat, pc \in {"chunk", "record"}, buf = RecordOf(t)
  PROVE  Flushed[Stem[file]] = RecordOf(t)
<1>1. RecordOf(t) \in Record
  BY DEF RecordOf, Record, TypeInv, TypeOK, CallTypeOK, LoopTypeOK
<1>2. Stem[file] \in Stems
  BY StemType DEF TypeInv, TypeOK, CallTypeOK
<1>3. DOMAIN ckp = Stems
  BY DEF TypeInv, TypeOK, DiskTypeOK
<1> QED BY <1>1, <1>2, <1>3, AbsentAssumption DEF Flushed

LEMMA NextResumable ==
  ASSUME ResumableInv, [Next]_vars
  PROVE  Counted' /\ FailedDownloadResumable'
<1> USE DEF ResumableInv, diskVars, callVars, loopVars
<1>0. /\ file \in Names /\ Stem[file] \in Stems /\ name \in Names /\ total \in Nat
      /\ DOMAIN ckp = Stems /\ DOMAIN disk = Names
  BY StemType DEF TypeInv, TypeOK, CallTypeOK, LoopTypeOK, DiskTypeOK
<1>1. CASE Call
  BY <1>1 DEF Call, CallDownload, CallResume, Begin, Counted, FailedDownloadResumable
<1>2. CASE UNCHANGED <<pc, result, op, file, fid, name, temp, total, diskVars>>
  BY <1>2 DEF Counted, FailedDownloadResumable, Saved, RecordOf
<1>3. CASE op = "resume" /\ op' = op
  BY <1>3 DEF Counted, FailedDownloadResumable
<1>4. CASE pc = "response" /\ pc' = "idle" /\ op = "download" /\ UNCHANGED <<op, total>>
  BY <1>4 DEF Counted, FailedDownloadResumable
<1>5. CASE DownloadAllowed
  <2>1. CASE pc' = "idle"
    BY <2>1, <1>5, <1>4 DEF DownloadAllowed
  <2>2. CASE pc' = "chunk" /\ disk' = [disk EXCEPT ![name'] = << >>]
    <3>1. name' \in Names
      BY <1>5, LocalNamesType DEF DownloadAllowed, TypeInv, TypeOK
    <3>2. Len(disk'[name']) = 0
      BY <2>2, <3>1, <1>0
    <3>3. total = 0 /\ total' = 0 /\ temp' = name'
      BY <1>5 DEF DownloadAllowed, Counted
    <3> QED BY <2>2, <3>2, <3>3 DEF Counted, FailedDownloadResumable, Saved
  <2> QED BY <1>5, <2>1, <2>2 DEF DownloadAllowed, Return
<1>6. ASSUME op = "download", pc = "chunk", CloseState,
             UNCHANGED <<op, file, fid, name, total, disk, bad>>
      PROVE  total >= 1 => ckp'[Stem[file]] = RecordOf(total) /\ (~bad => Len(disk[name]) = total)
  BY <1>6, FlushedRecord, <1>0 DEF Counted, Saved, CloseState
<1>7. CASE ChunkFails \/ RejectChunk
  <2>1. CASE op = "download" /\ pc' = "idle"
    BY <1>7, <2>1, <1>6 DEF ChunkFails, RejectChunk, ChunkReceived, Return, Counted, FailedDownloadResumable, RecordOf
  <2>2. CASE pc' # "idle"
    BY <1>7, <2>2, <1>2 DEF ChunkFails, RejectChunk, Return
  <2> QED BY <1>7, <2>1, <2>2, <1>3 DEF ChunkFails, RejectChunk, TypeInv, TypeOK, CallTypeOK
<1>8. CASE WriteChunk
  <2>1. CASE op = "download"
    <3>1. Head(replies).data \in Segment /\ disk[name] \in Seq(Segment)
      BY <1>8, Writes
    <3>2. ~bad' => ~bad /\ disk'[name] = Append(disk[name], Head(replies).data)
      BY <1>8, <1>0, Writes
    <3>3. ~bad' => ~bad /\ Len(disk'[name]) = Len(disk[name]) + 1
      BY <3>1, <3>2
    <3>4. pc' = "record" /\ total' = total + 1 /\ UNCHANGED <<op, file, fid, name, temp, buf, ckp>>
      BY <1>8 DEF WriteChunk
    <3>5. (~bad => Len(disk[name]) = total) /\ Saved(total) /\ temp = name
      BY <1>8, <2>1 DEF WriteChunk, ChunkReceived, Counted
    <3>6. total' - 1 = total /\ total' >= 1
      BY <3>4, <1>0
    <3> QED BY <3>3, <3>4, <3>5, <3>6 DEF Counted, FailedDownloadResumable, Saved, RecordOf
  <2> QED BY <1>8, <2>1, <1>3 DEF WriteChunk, TypeInv, TypeOK, CallTypeOK
<1>9. CASE RecordChunk
  <2>1. CASE op = "download"
    <3>1. pc' = "chunk" /\ UNCHANGED <<op, file, fid, name, temp, total, disk, bad>> /\ ckp' = Flushed
      BY <1>9 DEF RecordChunk, SaveProgress
    <3>2. pc = "record" /\ temp = name /\ total >= 1 /\ Saved(total - 1)
          /\ (~bad => Len(disk[name]) = total)
      BY <1>9, <2>1 DEF RecordChunk, Counted
    <3>3. buf' = RecordOf(total)
      BY <1>9, <3>2 DEF RecordChunk, SaveProgress, RecordOf
    <3>4. total >= 2 => ckp'[Stem[file]] = RecordOf(total - 1)
      BY <3>1, <3>2, <1>0, FlushedRecord DEF Saved
    <3> QED BY <3>1, <3>2, <3>3, <3>4 DEF Counted, FailedDownloadResumable, Saved, RecordOf
  <2> QED BY <1>9, <2>1, <1>3 DEF RecordChunk, TypeInv, TypeOK, CallTypeOK
<1>10. CASE CloseFiles
  <2>1. CASE op = "download"
    BY <1>10, <2>1, <1>6 DEF CloseFiles, Counted, FailedDownloadResumable, RecordOf
  <2> QED BY <1>10, <2>1, <1>3 DEF CloseFiles, TypeInv, TypeOK, CallTypeOK
<1>11. CASE Finish
  BY <1>11, <1>3 DEF Finish, Return, Counted, FailedDownloadResumable, RecordOf
<1>12. CASE Killed
  <2>1. CASE op = "download"
    <3>1. pc' = "idle" /\ result' = "killed" /\ UNCHANGED <<op, file, fid, name, total, ckp>> /\ pc # "idle"
      BY <1>12 DEF Killed, Return
    <3>2. pc \in {"response", "chunk", "record", "verify"}
      BY <3>1 DEF TypeInv, TypeOK, CallTypeOK
    <3>3. total >= 3 => ckp[Stem[file]] \in {RecordOf(total), RecordOf(total - 1), RecordOf(total - 2)}
      BY <2>1, <3>2, <1>0 DEF Counted, Saved
    <3>4. \A t \in Nat : RecordOf(t).name = name /\ RecordOf(t).id = fid /\ RecordOf(t).total = t
      BY DEF RecordOf
    <3> QED BY <2>1, <3>1, <3>3, <3>4, <1>0 DEF Counted, FailedDownloadResumable
  <2> QED BY <1>12, <2>1, <1>3 DEF Killed, TypeInv, TypeOK, CallTypeOK
<1>13. CASE ResponseFails \/ Denied
  BY <1>13, <1>3, <1>4 DEF ResponseFails, Denied, Return, TypeInv, TypeOK, CallTypeOK
<1>14. CASE ResumeAllowed
  BY <1>14, <1>3 DEF ResumeAllowed
<1>15. CASE Relogin \/ LinkDies \/ UNCHANGED vars
  BY <1>15, <1>2 DEF Relogin, LinkDies, vars
<1> QED
  BY <1>1, <1>5, <1>7, <1>8, <1>9, <1>10, <1>11, <1>12, <1>13, <1>14, <1>15 DEF Next, Step

(* A download that fails after it wrote a chunk leaves a checkpoint with   *)
(* all of its chunks; a killed process loses at most the last two records  *)
(* (ftc 436-443).                                                          *)
THEOREM FailedResumable == Spec => []FailedDownloadResumable
<1>1. ResumableInv /\ [Next]_vars => ResumableInv'
  BY NextResumable, NextType DEF ResumableInv
<1>2. ResumableInv => FailedDownloadResumable
  BY DEF ResumableInv
<1> QED BY InitResumable, <1>1, <1>2, PTL DEF Spec

-----------------------------------------------------------------------------
(* What a download that returns true has written.  The checksum is of the  *)
(* file the response describes, and the answer to the own request          *)
(* describes the file that was asked for.                                  *)

Described ==
  op = "download" =>
    /\ own \in Ids => granted[own] = file
    /\ pc \in {"chunk", "record", "verify"} => source = granted[fid]

ExactInv == TypeInv /\ Described /\ DownloadTrueExact

LEMMA InitExact == Init => ExactInv
BY InitType, NamesAssumption DEF Init, ExactInv, Described, DownloadTrueExact

LEMMA NextExact ==
  ASSUME ExactInv, [Next]_vars
  PROVE  Described' /\ DownloadTrueExact'
<1> USE DEF ExactInv, diskVars, callVars, loopVars, serverVars
<1>1. ASSUME NEW f \in Files, CallDownload(f) PROVE Described' /\ DownloadTrueExact'
  <2>1. pc' = "response" /\ file' = f
    BY <1>1 DEF CallDownload, Begin
  <2>2. own' \in Ids => granted'[own'] = file'
    BY <1>1, NamesAssumption DEF CallDownload, Grant, TypeInv, TypeOK, ServerTypeOK
  <2> QED BY <2>1, <2>2 DEF Described, DownloadTrueExact
<1>2. ASSUME NEW s \in Stems, CallResume(s) PROVE Described' /\ DownloadTrueExact'
  BY <1>2 DEF CallResume, Begin, Described, DownloadTrueExact
<1>3. CASE UNCHANGED <<pc, result, op, file, fid, source, name, disk, ckp, granted, own>>
  BY <1>3 DEF Described, DownloadTrueExact
<1>4. CASE /\ pc # "idle" /\ UNCHANGED <<op, file, own, granted, fid, source>>
           /\ pc' = pc \/ (pc' = "idle" /\ result' # "true") \/ pc \in {"chunk", "record", "verify"}
           /\ pc' # "idle" \/ result' # "true"
  BY <1>4 DEF Described, DownloadTrueExact
<1>5. CASE DownloadAllowed
  BY <1>5 DEF DownloadAllowed, Return, Described, DownloadTrueExact
<1>6. CASE Finish
  <2>1. CASE op = "download" /\ result' = "true"
    <3>1. disk[name] = Whole(source) /\ source = granted[fid] /\ fid \in Ids
      BY <1>6, <2>1 DEF Finish, Return, ChecksumMatches, Described, TypeInv, TypeOK, CallTypeOK
    <3>2. fid = own => granted[fid] = file
      BY <2>1, <3>1 DEF Described
    <3>3. ckp'[Stem[file]] = Absent
      BY <1>6, <2>1, StemType DEF Finish, SetState, Return, TypeInv, TypeOK, CallTypeOK, DiskTypeOK
    <3> QED BY <1>6, <2>1, <3>1, <3>2, <3>3 DEF Finish, Return, Described, DownloadTrueExact
  <2>2. CASE op = "resume"
    BY <1>6, <2>2 DEF Finish, Described, DownloadTrueExact
  <2>3. CASE result' # "true"
    BY <1>6, <2>3, <1>4 DEF Finish, Return
  <2> QED BY <2>1, <2>2, <2>3 DEF TypeInv, TypeOK, CallTypeOK
<1>7. CASE ResumeAllowed
  BY <1>7 DEF ResumeAllowed, Described, DownloadTrueExact
<1>8. CASE WriteChunk \/ RejectChunk
  BY <1>8, <1>4 DEF WriteChunk, RejectChunk, ChunkReceived, Acknowledge, Return
<1>9. CASE ResponseFails \/ Denied \/ ChunkFails \/ Killed
  BY <1>9, <1>4 DEF ResponseFails, Denied, ChunkFails, Killed, Return
<1>10. CASE RecordChunk \/ CloseFiles
  BY <1>10, <1>4 DEF RecordChunk, CloseFiles
<1>11. CASE Relogin \/ LinkDies \/ UNCHANGED vars
  BY <1>11, <1>3 DEF Relogin, LinkDies, vars
<1> QED
  BY <1>1, <1>2, <1>5, <1>6, <1>7, <1>8, <1>9, <1>10, <1>11 DEF Next, Call, Step

(* A DownloadFile that returns true after the answer to its own request    *)
(* has made the local file the file of the server, undamaged, and what     *)
(* was kept for resuming it is gone, also if the disk was full meanwhile   *)
(* (ftc 388-507).                                                          *)
THEOREM DownloadExact == Spec => []DownloadTrueExact
<1>1. ExactInv /\ [Next]_vars => ExactInv'
  BY NextExact, NextType DEF ExactInv
<1>2. ExactInv => DownloadTrueExact
  BY DEF ExactInv
<1> QED BY InitExact, <1>1, <1>2, PTL DEF Spec

-----------------------------------------------------------------------------
(* What a resume that returns true has completed.  As long as no chunk has *)
(* failed its checksum and no write has failed, a resume that began with   *)
(* the chunks its record counts and with an empty stream is in step with   *)
(* the server: the only packets in the stream are its answer and the chunk *)
(* after those that the local file has.                                    *)

InStep == op = "resume" /\ aligned /\ retry_counts = << >> /\ ~bad

Following(r, id, f, n) ==
  \/ r = << >>
  \/ \E p \in Reply : r = <<p>> /\ p.type = "FILE_CHUNK" /\ p.id = id /\ p.data.of = f /\ p.data.at = n

Serves == link = "up" => serving = <<own, total>>

Holds ==
  /\ own \in Ids /\ granted[own] \in Files
  /\ disk[file] # Absent /\ Len(disk[file]) = total /\ InPlace(disk[file], granted[own])

Answer ==
  /\ Head(replies) = Allowed("RESUME_RESPONSE", own, Chunks[granted[own]] - total)
  /\ total <= Chunks[granted[own]]
  /\ Following(Tail(replies), own, granted[own], total) /\ Serves

Aligned ==
  InStep =>
    /\ pc # "idle" => Holds
    /\ pc = "response" => replies = << >> \/ ~Head(replies).ok \/ Answer
    /\ pc \in {"chunk", "record"} =>
         /\ fid = own /\ name = file
         /\ remaining = Chunks[granted[own]] - total
         /\ Following(replies, own, granted[own], total) /\ Serves
    /\ pc = "verify" => fid = own /\ total = Chunks[granted[own]]

AlignedInv == TypeInv /\ Aligned /\ ResumeTrueComplete

LEMMA InitAligned == Init => AlignedInv
BY InitType DEF Init, AlignedInv, Aligned, InStep, ResumeTrueComplete

(* The server sends the chunk it is asked for, or nothing. *)
Sends(sent, r, id, f, k) ==
  \/ r = sent
  \/ \E p \in Reply : /\ p.type = "FILE_CHUNK" /\ p.id = id /\ p.data.of = f /\ p.data.at = k
                      /\ r = Append(sent, p)

LEMMA SentFollows ==
  ASSUME NEW id \in Ids, NEW k \in Nat, NEW sent \in Seq(Reply),
         granted'[id] \in Files, SendFrom(sent, id, k)
  PROVE  Sends(sent, replies', id, granted'[id], k)
<1>1. ASSUME NEW good \in BOOLEAN, NEW ok \in BOOLEAN
      PROVE  /\ Chunk(id, k, good, ok) \in Reply
             /\ Chunk(id, k, good, ok).type = "FILE_CHUNK" /\ Chunk(id, k, good, ok).id = id
             /\ Chunk(id, k, good, ok).data.of = granted'[id] /\ Chunk(id, k, good, ok).data.at = k
  <2>1. [of |-> granted'[id], at |-> k, good |-> good] \in Segment
    BY DEF Segment
  <2> QED BY <2>1 DEF Chunk, Reply
<1> QED BY <1>1 DEF SendFrom, Sends

LEMMA TailOfPair ==
  ASSUME NEW S, NEW a \in S, NEW p \in S
  PROVE  Tail(Append(<<a>>, p)) = <<p>>
<1> DEFINE q == Append(<<a>>, p)
           t == Tail(q)
           u == <<p>>
<1>1. <<a>> \in Seq(S) /\ Len(<<a>>) = 1
  OBVIOUS
<1>2. q \in Seq(S) /\ Len(q) = 2
  BY <1>1
<1>3. q[2] = p
  BY <1>1
<1> HIDE DEF q
<1>4. t \in Seq(S) /\ Len(t) = 1
  BY <1>2
<1>5. t[1] = p
  BY <1>2, <1>3
<1>6. u \in Seq(S) /\ Len(u) = 1 /\ u[1] = p
  OBVIOUS
<1> HIDE DEF t, u
<1>7. t = u
  <2>1. t \in [1..1 -> S] /\ u \in [1..1 -> S]
    BY <1>4, <1>6
  <2>2. \A i \in 1..1 : t[i] = u[i]
    BY <1>5, <1>6
  <2> QED BY <2>1, <2>2
<1> QED BY <1>7 DEF t, u, q

(* A resume that begins in step *)
LEMMA ResumeBegins ==
  ASSUME TypeInv, NEW s \in Stems, CallResume(s)
  PROVE  Aligned'
<1> DEFINE f == ckp[s].name
           state == ReadState(ckp[Stem[f]])
<1>1. /\ pc' = "response" /\ own' = state.id /\ total' = state.total /\ file' = f
      /\ disk' = disk /\ link' = link
      /\ aligned' => replies = << >> /\ Kept(f, state)
      /\ AllowResume(state.id, state.total) \/ Refuse("RESUME_RESPONSE") \/ Lost
  BY DEF CallResume, Begin
<1>2. state \in Record
  BY StemType, ReadType, RecordFields DEF CallResume, TypeInv, TypeOK, DiskTypeOK
<1>3. state.total \in Nat
  BY <1>2, RecordFields
<1> HIDE DEF f, state
<1> SUFFICES ASSUME aligned' PROVE Holds' /\ (replies' = << >> \/ ~Head(replies').ok \/ Answer')
  BY <1>1 DEF Aligned, InStep
<1>4. granted' = granted
  BY <1>1 DEF AllowResume, Refuse, Lost, serverVars
<1>5. /\ state.id \in Ids /\ granted[state.id] \in Files
      /\ disk[f] # Absent /\ Len(disk[f]) = state.total /\ InPlace(disk[f], granted[state.id])
  BY <1>1 DEF Kept, TypeInv, TypeOK, ServerTypeOK
<1>6. Holds'
  BY <1>1, <1>4, <1>5 DEF Holds, InPlace
<1>7. CASE AllowResume(state.id, state.total)
  <2> DEFINE answer == Allowed("RESUME_RESPONSE", state.id, Chunks[granted[state.id]] - state.total)
  <2>1. /\ state.total <= Chunks[granted[state.id]] /\ serving' = <<state.id, state.total>>
        /\ SendFrom(Append(replies, answer), state.id, state.total)
    BY <1>7 DEF AllowResume
  <2>2. answer \in Reply /\ Append(replies, answer) = <<answer>>
    <3>1. Chunks[granted[state.id]] - state.total \in Nat
      BY <1>3, <1>5, <2>1, ChunksAssumption
    <3>2. answer \in Reply
      BY <3>1, <1>5 DEF Allowed, Reply
    <3> QED BY <3>2, <1>1
  <2> HIDE DEF answer
  <2>3. Sends(<<answer>>, replies', state.id, granted'[state.id], state.total)
    <3>1. <<answer>> \in Seq(Reply) /\ SendFrom(<<answer>>, state.id, state.total)
      BY <2>1, <2>2
    <3>2. state.id \in Ids /\ granted'[state.id] \in Files
      BY <1>4, <1>5
    <3> QED BY <3>1, <3>2, <1>3, SentFollows
  <2>4. Head(replies') = answer
    BY <2>2, <2>3 DEF Sends
  <2>5. Following(Tail(replies'), state.id, granted'[state.id], state.total)
    <3>1. \A p \in Reply : Tail(Append(<<answer>>, p)) = <<p>>
      BY <2>2, TailOfPair
    <3>2. Tail(<<answer>>) = << >>
      BY <2>2
    <3> QED BY <2>3, <3>1, <3>2 DEF Following, Sends
  <2>6. Serves'
    BY <1>1, <2>1 DEF Serves
  <2>7. Answer'
    BY <1>1, <1>4, <2>1, <2>4, <2>5, <2>6 DEF Answer, answer
  <2> QED BY <1>6, <2>7
<1>8. CASE Refuse("RESUME_RESPONSE")
  <2>1. PICK t : replies' = Append(<< >>, Refused(t))
    BY <1>1, <1>8 DEF Refuse
  <2>2. Head(replies').ok = FALSE
    BY <2>1 DEF Refused
  <2> QED BY <1>6, <2>2
<1>9. CASE Lost
  BY <1>1, <1>6, <1>9 DEF Lost
<1> QED BY <1>1, <1>7, <1>8, <1>9

(* A chunk that is acknowledged brings the next one. *)
LEMMA AlignedWrite ==
  ASSUME AlignedInv, WriteChunk
  PROVE  Aligned'
<1> SUFFICES ASSUME InStep' PROVE Aligned'
  BY DEF Aligned
<1>0. ~bad /\ disk' = [disk EXCEPT ![name] = Append(disk[name], Head(replies).data)]
  BY Writes DEF InStep, AlignedInv
<1>1. /\ pc = "chunk" /\ pc' = "record" /\ total' = total + 1 /\ remaining > 0
      /\ remaining' = remaining - 1 /\ replies # << >>
      /\ UNCHANGED <<op, file, own, aligned, fid, name, retry_counts, link>>
      /\ Acknowledge(Head(replies).data.at, TRUE)
  BY DEF WriteChunk, ChunkReceived, Received, MoreChunks, InStep, callVars
<1>2. /\ Holds /\ fid = own /\ name = file /\ remaining = Chunks[granted[own]] - total
      /\ Following(replies, own, granted[own], total) /\ Serves
  BY <1>0, <1>1 DEF AlignedInv, Aligned, InStep
<1>3. PICK p \in Reply : /\ replies = <<p>> /\ p.type = "FILE_CHUNK" /\ p.id = own
                         /\ p.data.of = granted[own] /\ p.data.at = total
  BY <1>1, <1>2 DEF Following
<1>4. Head(replies) = p /\ Tail(replies) = << >>
  BY <1>3
<1>5. granted' = granted /\ total \in Nat /\ Chunks[granted[own]] \in Nat
  BY <1>1, <1>2, ChunksAssumption DEF Acknowledge, AlignedInv, TypeInv, TypeOK, LoopTypeOK, Holds
<1>6. Holds'
  <2>1. p.data \in Segment /\ disk[file] \in Seq(Segment) /\ file \in DOMAIN disk
    BY <1>1, <1>2, <1>3, <1>4, HeadType DEF Holds, AlignedInv, TypeInv, TypeOK, CallTypeOK, DiskTypeOK
  <2>2. disk'[file] = Append(disk[file], p.data)
    BY <1>0, <1>2, <1>4, <2>1
  <2>3. disk'[file] \in Seq(Segment) /\ Len(disk'[file]) = total + 1
    BY <2>1, <2>2, <1>2 DEF Holds
  <2>4. InPlace(disk'[file], granted[own])
    <3> SUFFICES ASSUME NEW k \in 1..Len(disk'[file])
                 PROVE  disk'[file][k].of = granted[own] /\ disk'[file][k].at = k - 1
      BY DEF InPlace
    <3>1. CASE k \in 1..Len(disk[file])
      <4>1. disk'[file][k] = disk[file][k]
        BY <2>1, <2>2, <3>1
      <4> QED BY <3>1, <4>1, <1>2 DEF Holds, InPlace
    <3>2. CASE k = total + 1
      <4>1. disk'[file][k] = p.data
        BY <2>1, <2>2, <3>2, <1>2 DEF Holds
      <4> QED BY <3>2, <4>1, <1>3, <1>5
    <3> QED BY <3>1, <3>2, <2>3, <1>2, <1>5 DEF Holds
  <2>5. disk'[file] # Absent
    BY <2>3, AbsentAssumption
  <2> QED BY <2>3, <2>4, <2>5, <1>1, <1>2, <1>5 DEF Holds
<1>7. remaining' = Chunks[granted'[own']] - total'
  BY <1>1, <1>2, <1>5
<1>8. Following(replies', own', granted'[own'], total') /\ Serves'
  <2>1. CASE link = "up"
    <3>1. serving = <<fid, Head(replies).data.at>>
      BY <1>2, <1>3, <1>4, <2>1 DEF Serves
    <3>2. serving' = <<own, total + 1>> /\ SendFrom(<< >>, own, total + 1)
      BY <1>1, <1>2, <1>3, <1>4, <2>1, <3>1 DEF Acknowledge
    <3>0. << >> \in Seq(Reply) /\ total + 1 \in Nat /\ own \in Ids /\ granted'[own] \in Files
      BY <1>2, <1>5 DEF Holds
    <3>3. Sends(<< >>, replies', own, granted'[own], total + 1)
      BY <3>0, <3>2, SentFollows
    <3>4. \A q : Append(<< >>, q) = <<q>>
      OBVIOUS
    <3> QED BY <3>2, <3>3, <3>4, <1>1 DEF Following, Serves, Sends
  <2>2. CASE link # "up"
    BY <2>2, <1>1, <1>4 DEF Acknowledge, Following, Serves
  <2> QED BY <2>1, <2>2
<1> QED BY <1>1, <1>2, <1>6, <1>7, <1>8 DEF Aligned

LEMMA NextAligned ==
  ASSUME AlignedInv, [Next]_vars
  PROVE  Aligned' /\ ResumeTrueComplete'
<1> USE DEF AlignedInv, Aligned, InStep, ResumeTrueComplete
<1>1. CASE UNCHANGED <<pc, result, callVars, loopVars, disk, bad, netVars, serverVars>>
  BY <1>1 DEF callVars, loopVars, netVars, serverVars, Holds, Answer, Serves
<1>2. CASE ~aligned'
  BY <1>2
<1>3. CASE pc' = "idle" /\ result' # "true"
  BY <1>3
<1>4. ASSUME NEW f \in Files, CallDownload(f) PROVE Aligned' /\ ResumeTrueComplete'
  BY <1>4, <1>2 DEF CallDownload
<1>5. ASSUME NEW s \in Stems, CallResume(s) PROVE Aligned' /\ ResumeTrueComplete'
  <2>1. pc' = "response"
    BY <1>5 DEF CallResume, Begin
  <2> HIDE DEF Aligned
  <2>2. Aligned'
    BY <1>5, ResumeBegins
  <2> QED BY <2>1, <2>2
<1>6. CASE DownloadAllowed
  BY <1>6 DEF DownloadAllowed, callVars, Return
<1>7. CASE ResumeAllowed
  <2>1. CASE pc' = "idle"
    BY <1>7, <2>1, <1>3 DEF ResumeAllowed, Return
  <2> SUFFICES ASSUME pc' = "chunk", InStep' PROVE Aligned'
    BY <1>7, <2>1 DEF ResumeAllowed, Return
  <2>2. /\ pc = "response" /\ Head(replies).ok /\ replies # << >> /\ replies' = Tail(replies)
        /\ fid' = Head(replies).id /\ remaining' = Head(replies).n /\ name' = file
        /\ disk' = IF disk[file] = Absent THEN [disk EXCEPT ![file] = << >>] ELSE disk
        /\ UNCHANGED <<op, file, own, aligned, total, retry_counts, bad, link, granted, serving>>
    BY <1>7 DEF ResumeAllowed, Return, Received, callVars, serverVars
  <2>3. Holds /\ Answer
    BY <2>2
  <2>4. Head(replies).id = own /\ Head(replies).n = Chunks[granted[own]] - total
    BY <2>3 DEF Answer, Allowed
  <2>5. Holds'
    BY <2>2, <2>3 DEF Holds
  <2>6. Serves' /\ Following(replies', own', granted'[own'], total')
    BY <2>2, <2>3 DEF Answer, Serves
  <2> QED BY <2>2, <2>4, <2>5, <2>6
<1>8. CASE WriteChunk
  <2>1. pc' = "record"
    BY <1>8 DEF WriteChunk
  <2> HIDE DEF Aligned
  <2>2. Aligned'
    BY <1>8, AlignedWrite
  <2> QED BY <2>1, <2>2
<1>9. CASE RejectChunk
  <2>1. retry_counts' # << >>
    <3>1. Head(replies).data.at + 1 \in DOMAIN retry_counts'
      BY <1>9 DEF RejectChunk
    <3> QED BY <3>1
  <2> QED BY <2>1
<1>10. CASE RecordChunk
  BY <1>10 DEF RecordChunk, callVars, loopVars, netVars, serverVars, Holds, Serves
<1>11. CASE CloseFiles
  <2>1. CASE InStep'
    <3>1. /\ pc = "chunk" /\ pc' = "verify" /\ ~MoreChunks
          /\ UNCHANGED <<op, file, fid, own, aligned, total, remaining, retry_counts, disk, bad, granted>>
      BY <1>11 DEF CloseFiles, callVars, loopVars, serverVars
    <3>2. Holds /\ fid = own /\ remaining = Chunks[granted[own]] - total /\ remaining <= 0
      BY <2>1, <3>1 DEF MoreChunks, TypeInv, TypeOK, LoopTypeOK
    <3>3. remaining \in Nat /\ total \in Nat /\ Chunks[granted[own]] \in Nat
      BY <3>2, ChunksAssumption DEF Holds, TypeInv, TypeOK, LoopTypeOK
    <3>4. total = Chunks[granted[own]]
      BY <3>2, <3>3
    <3>5. Holds'
      BY <3>1, <3>2 DEF Holds
    <3> QED BY <3>1, <3>2, <3>4, <3>5
  <2> QED BY <1>11, <2>1 DEF CloseFiles
<1>12. CASE Finish
  <2>1. CASE InStep'
    <3>1. /\ pc = "verify" /\ pc' = "idle"
          /\ UNCHANGED <<op, file, fid, own, aligned, retry_counts, disk, bad, granted>>
      BY <1>12 DEF Finish, Return, callVars, loopVars, serverVars
    <3>2. Holds /\ fid = own /\ total = Chunks[granted[own]]
      BY <2>1, <3>1
    <3> QED BY <3>1, <3>2 DEF Holds
  <2> QED BY <1>12, <2>1 DEF Finish, Return
<1>13. CASE ResponseFails \/ Denied \/ ChunkFails \/ Killed
  BY <1>13, <1>3 DEF ResponseFails, Denied, ChunkFails, Killed, Return
<1>14. CASE Relogin
  BY <1>14 DEF Relogin, callVars, loopVars, diskVars
<1>15. CASE LinkDies
  <2>1. UNCHANGED <<pc, result, callVars, loopVars, disk, bad, serverVars>> /\ link' = "down"
    BY <1>15 DEF LinkDies, diskVars
  <2>2. CASE replies' = << >>
    BY <2>1, <2>2 DEF callVars, loopVars, serverVars, Holds, Serves, Following
  <2>3. CASE replies' = replies
    BY <2>1, <2>3 DEF callVars, loopVars, serverVars, Holds, Answer, Serves
  <2> QED BY <1>15, <2>2, <2>3 DEF LinkDies
<1>16. CASE UNCHANGED vars
  BY <1>16, <1>1 DEF vars, diskVars
<1> QED
  BY <1>4, <1>5, <1>6, <1>7, <1>8, <1>9, <1>10, <1>11, <1>12, <1>13, <1>14, <1>15, <1>16
     DEF Next, Call, Step

(* A ResumeDownload that returns true, and no chunk of which failed its    *)
(* checksum, has completed the local file, if it began with the chunks its *)
(* checkpoint counts and with nothing of an earlier call unread, and if    *)
(* every chunk could be written (ftc 566-667).                             *)
THEOREM ResumeComplete == Spec => []ResumeTrueComplete
<1>1. AlignedInv /\ [Next]_vars => AlignedInv'
  BY NextAligned, NextType DEF AlignedInv
<1>2. AlignedInv => ResumeTrueComplete
  BY DEF AlignedInv
<1> QED BY InitAligned, <1>1, <1>2, PTL DEF Spec

-----------------------------------------------------------------------------
(* Download implements Transfer.                                           *)

Sealed == {n \in Names : disk[n] # Absent /\ ~Referenced(n)}

(* What a call has to do with a local file *)
Busy(n) == pc # "idle" /\ (n \in {name, temp} \/ (op = "resume" /\ n = file))

(* A record names it. *)
Linked(n) ==
  \/ \E s \in Stems : ckp[s] # Absent /\ ckp[s].name = n
  \/ buf # Absent /\ buf.name = n

LEMMA ReferencedParts ==
  ASSUME NEW n
  PROVE  (Referenced(n) <=> Busy(n) \/ Linked(n)) /\ (Referenced(n)' <=> Busy(n)' \/ Linked(n)')
BY DEF Referenced, Busy, Linked

-----------------------------------------------------------------------------
(* Beyond BehindInv: the empty name names no file; a call that waits for   *)
(* its answer has no source; and the file that DownloadFile writes is      *)
(* named by no checkpoint but that of the call.                            *)

NoNamelessFile == disk[NoName] = Absent

SourceOpen == pc = "response" => source = Absent

Alone ==
  op = "download" /\ pc \in {"chunk", "record", "verify"} =>
    \A s \in Stems : ckp[s] # Absent /\ ckp[s].name = name => s = Stem[file]

TransferInv == BehindInv /\ NoNamelessFile /\ SourceOpen /\ Alone

LEMMA LocalNamesFresh ==
  ASSUME op = "download", FileNamed, NEW n \in LocalNames
  PROVE  n # NoName /\ n \in Names /\ disk[n] = Absent
BY NamesAssumption DEF LocalNames, FileNamed, Names

LEMMA DiskSteps ==
  ASSUME TypeInv, [Next]_vars
  PROVE  \/ UNCHANGED disk
         \/ pc = "response" /\ name' # NoName /\ disk[name'] = Absent /\ name' \in Names
            /\ disk' = [disk EXCEPT ![name'] = << >>]
         \/ pc = "chunk" /\ name # NoName /\ name \in Names
            /\ \E d : disk' = [disk EXCEPT ![name] = d]
<1> USE DEF TypeInv, TypeOK, diskVars
<1>1. CASE Call
  BY <1>1 DEF Call, CallDownload, CallResume, Begin
<1>2. CASE DownloadAllowed
  BY <1>2, LocalNamesFresh DEF DownloadAllowed
<1>3. CASE ResumeAllowed
  BY <1>3 DEF ResumeAllowed, CallTypeOK
<1>4. CASE WriteChunk
  <2>1. pc = "chunk" /\ name # NoName /\ name \in Names
    BY <1>4 DEF WriteChunk, ChunkReceived, CallTypeOK, LoopTypeOK
  <2> QED BY <1>4, <2>1, Writes
<1>5. CASE UNCHANGED disk
  BY <1>5
<1> QED
  BY <1>1, <1>2, <1>3, <1>4, <1>5
     DEF Next, Step, ResponseFails, Denied, ChunkFails, RecordChunk, RejectChunk, CloseFiles,
         Finish, Killed, Relogin, LinkDies, vars

LEMMA RecordSteps ==
  ASSUME TypeInv, [Next]_vars
  PROVE  /\ \A s \in Stems : ckp'[s] \in {ckp[s], Absent, EmptyRecord, Flushed[s]}
         /\ buf' \in {buf, Absent, [name |-> temp, id |-> fid, total |-> total]}
         /\ buf' = buf \/ buf' = Absent \/ pc = "record"
<1> USE DEF TypeInv, TypeOK, diskVars
<1>1. ASSUME NEW f \in Files, CallDownload(f) PROVE \A s \in Stems : ckp'[s] \in {ckp[s], EmptyRecord}
  BY <1>1 DEF CallDownload, DiskTypeOK
<1>2. ASSUME NEW r, SetState(r) PROVE \A s \in Stems : ckp'[s] \in {ckp[s], r}
  BY <1>2 DEF SetState, DiskTypeOK
<1>3. /\ (\E f \in Files : CallDownload(f)) \/ SetState(Absent) \/ SetState(EmptyRecord)
         \/ UNCHANGED ckp \/ ckp' = Flushed
      /\ buf' \in {buf, Absent, [name |-> temp, id |-> fid, total |-> total]}
      /\ buf' = buf \/ buf' = Absent \/ pc = "record"
  BY DEF Next, Call, Step, CallDownload, CallResume, Begin, ResponseFails, Denied, DownloadAllowed,
         ResumeAllowed, ChunkFails, WriteChunk, RecordChunk, SaveProgress, CloseState, RejectChunk,
         CloseFiles, Finish, Killed, Relogin, LinkDies, vars
<1> QED BY <1>1, <1>2, <1>3

(* A record is made for a name that is busy. *)
LEMMA LinkedKept ==
  ASSUME TypeInv, [Next]_vars, NEW n \in Names \ {NoName}, ~Linked(n), ~Busy(n)
  PROVE  ~Linked(n)'
<1>1. \A s \in Stems : Flushed[s] = Absent \/ Flushed[s].name # n
  BY StemType DEF Linked, Flushed, TypeInv, TypeOK, CallTypeOK, DiskTypeOK
<1>2. \A s \in Stems : ckp'[s] = Absent \/ ckp'[s].name # n
  BY <1>1, RecordSteps DEF Linked, EmptyRecord
<1>3. buf' = Absent \/ buf'.name # n
  BY RecordSteps DEF Linked, Busy
<1> QED BY <1>2, <1>3 DEF Linked

LEMMA BusySteps ==
  ASSUME TypeInv, [Next]_vars, NEW n \in Names \ {NoName}, disk[n] # Absent, ~Linked(n), ~Busy(n)
  PROVE  ~Busy(n)'
<1> USE DEF TypeInv, TypeOK, diskVars, callVars, loopVars
<1>1. CASE pc' = "idle"
  BY <1>1 DEF Busy
<1>2. CASE pc # "idle" /\ UNCHANGED <<op, file, name, temp>>
  BY <1>2 DEF Busy
<1>3. ASSUME NEW f \in Files, CallDownload(f) PROVE ~Busy(n)'
  BY <1>3 DEF CallDownload, Begin, Busy
<1>4. ASSUME NEW s \in Stems, CallResume(s) PROVE ~Busy(n)'
  <2>1. ckp[s] # Absent /\ op' = "resume" /\ file' = ckp[s].name /\ name' = NoName
        /\ temp' = ReadState(ckp[Stem[ckp[s].name]]).name
    BY <1>4 DEF CallResume, Begin
  <2>2. file' # n /\ file' \in Names
    BY <2>1, RecordFields DEF Linked, DiskTypeOK
  <2>3. temp' # n
    BY <2>1, <2>2, StemType DEF Linked, ReadState, EmptyRecord
  <2> QED BY <2>1, <2>2, <2>3 DEF Busy
<1>5. CASE DownloadAllowed
  BY <1>5, LocalNamesFresh DEF DownloadAllowed, Busy
<1>6. CASE ResumeAllowed
  BY <1>6 DEF ResumeAllowed, Busy
<1>7. CASE WriteChunk \/ RecordChunk \/ CloseFiles
  BY <1>7, <1>2 DEF WriteChunk, ChunkReceived, RecordChunk, CloseFiles
<1>8. CASE RejectChunk
  BY <1>8, <1>2 DEF RejectChunk, ChunkReceived
<1>9. CASE LinkDies \/ UNCHANGED vars
  BY <1>9, <1>1, <1>2 DEF LinkDies, vars
<1> QED
  BY <1>1, <1>3, <1>4, <1>5, <1>6, <1>7, <1>8, <1>9
     DEF Next, Call, Step, ResponseFails, Denied, ChunkFails, Finish, Killed, Relogin, Return

(* What is sealed stays sealed. *)
LEMMA SealedKept == ASSUME TypeInv, NoNamelessFile, [Next]_vars PROVE Sealed \subseteq Sealed'
<1> SUFFICES ASSUME NEW n \in Names, disk[n] # Absent, ~Referenced(n)
             PROVE  disk'[n] # Absent /\ ~Referenced(n)'
  BY DEF Sealed
<1>1. n # NoName
  BY DEF NoNamelessFile
<1> QED BY <1>1, DiskKept, LinkedKept, BusySteps, ReferencedParts

-----------------------------------------------------------------------------
(* The invariant *)

LEMMA NextNoNamelessFile == ASSUME TypeInv, NoNamelessFile, [Next]_vars PROVE NoNamelessFile'
<1> NoName \in Names /\ DOMAIN disk = Names
  BY DEF TypeInv, TypeOK, DiskTypeOK, Names
<1> QED BY DiskSteps DEF NoNamelessFile

LEMMA NextSourceOpen == ASSUME SourceOpen, [Next]_vars PROVE SourceOpen'
BY DEF SourceOpen, Next, Call, Step, CallDownload, CallResume, Begin, ResponseFails, Denied,
       DownloadAllowed, ResumeAllowed, ChunkFails, WriteChunk, RecordChunk, RejectChunk,
       ChunkReceived, CloseFiles, Finish, Killed, Relogin, LinkDies, vars, loopVars, Return

LEMMA NextAlone == ASSUME BehindInv, Alone, [Next]_vars PROVE Alone'
<1> SUFFICES ASSUME op' = "download", pc' \in {"chunk", "record", "verify"}, NEW s \in Stems,
                    ckp'[s] # Absent, ckp'[s].name = name'
             PROVE  s = Stem[file']
  BY DEF Alone
<1> USE DEF BehindInv, TypeInv, TypeOK, diskVars, callVars, loopVars
<1>1. CASE DownloadAllowed
  <2>1. name' \in LocalNames /\ op = "download" /\ SetState(EmptyRecord) /\ UNCHANGED file
    BY <1>1 DEF DownloadAllowed, Return
  <2>2. name' # NoName /\ disk[name'] = Absent
    BY <2>1, LocalNamesFresh
  <2>3. ckp'[s] = ckp[s] \/ ckp'[s] = EmptyRecord
    BY <2>1 DEF SetState, DiskTypeOK
  <2>4. ckp'[s] = ckp[s]
    BY <2>2, <2>3 DEF EmptyRecord
  <2> QED BY <2>2, <2>4 DEF Checkpoints, Sound, Behind
<1>2. CASE /\ pc \in {"chunk", "record", "verify"} /\ UNCHANGED <<op, file, name>>
           /\ UNCHANGED ckp \/ ckp' = Flushed
  <2>1. s = Stem[file] \/ ckp'[s] = ckp[s]
    BY <1>2 DEF Flushed, DiskTypeOK
  <2> QED BY <1>2, <2>1 DEF Alone
<1>3. CASE WriteChunk \/ RecordChunk \/ CloseFiles
  BY <1>3, <1>2 DEF WriteChunk, ChunkReceived, RecordChunk, SaveProgress, CloseFiles, CloseState
<1>4. CASE RejectChunk
  BY <1>4, <1>2 DEF RejectChunk, ChunkReceived, CloseState
<1>5. CASE LinkDies \/ UNCHANGED vars
  BY <1>5, <1>2 DEF LinkDies, vars
<1>6. CASE Call \/ ResponseFails \/ Denied \/ ResumeAllowed \/ ChunkFails
  BY <1>6 DEF Call, CallDownload, CallResume, Begin, ResponseFails, Denied, ResumeAllowed,
     ChunkFails, Return
<1>7. CASE Finish \/ Killed \/ Relogin
  BY <1>7 DEF Finish, Killed, Relogin, Return
<1> QED BY <1>1, <1>3, <1>4, <1>5, <1>6, <1>7 DEF Next, Step

LEMMA NextTransferInv == ASSUME TransferInv, [Next]_vars PROVE TransferInv'
BY NextBehind, NextNoNamelessFile, NextSourceOpen, NextAlone DEF TransferInv, BehindInv

-----------------------------------------------------------------------------
(* Each step of Download is one of Transfer, or none. *)

Begins == /\ pc = "idle" /\ pc' = "response" /\ op' \in {"download", "resume"}
          /\ source' = Absent /\ result' = "none" /\ UNCHANGED disk
Rests == pc = "idle" /\ pc' = "idle" /\ UNCHANGED <<result, disk>>
Goes == /\ pc # "idle" /\ pc' # "idle" /\ UNCHANGED <<op, result>>
        /\ source' = source \/ (source = Absent /\ source' \in Files)
Ends == /\ pc # "idle" /\ pc' = "idle" /\ UNCHANGED disk
        /\ result' \in {"true", "false", "threw", "killed"}

LEMMA CallSteps == ASSUME TypeInv, TypeInv', SourceOpen, [Next]_vars PROVE Begins \/ Rests \/ Goes \/ Ends
<1> USE DEF callVars, loopVars, diskVars, serverVars, Begins, Rests, Goes, Ends, Return
<1>1. CASE Call
  BY <1>1 DEF Call, CallDownload, CallResume, Begin
<1>2. CASE ResponseFails \/ Denied \/ ChunkFails
  BY <1>2 DEF ResponseFails, Denied, ChunkFails
<1>3. CASE DownloadAllowed
  <2>1. source = Absent /\ source' \in Files \cup {Absent}
    BY <1>3 DEF DownloadAllowed, SourceOpen, TypeInv, TypeOK, LoopTypeOK
  <2> QED BY <1>3, <2>1 DEF DownloadAllowed
<1>4. CASE ResumeAllowed
  BY <1>4 DEF ResumeAllowed
<1>5. CASE WriteChunk \/ RecordChunk \/ CloseFiles
  BY <1>5 DEF WriteChunk, ChunkReceived, RecordChunk, CloseFiles
<1>6. CASE RejectChunk
  BY <1>6 DEF RejectChunk, ChunkReceived
<1>7. CASE Finish
  BY <1>7 DEF Finish
<1>8. CASE Killed \/ Relogin
  BY <1>8 DEF Killed, Relogin
<1>9. CASE LinkDies \/ UNCHANGED vars
  BY <1>9 DEF LinkDies, vars
<1> QED BY <1>1, <1>2, <1>3, <1>4, <1>5, <1>6, <1>7, <1>8, <1>9 DEF Next, Step

LEMMA WriteUnsealed ==
  ASSUME TypeInv, [Next]_vars
  PROVE  UNCHANGED disk \/ \E n \in Names \ Sealed : disk' = [disk EXCEPT ![n] = disk'[n]]
<1>0. DOMAIN disk = Names
  BY DEF TypeInv, TypeOK, DiskTypeOK
<1>1. ASSUME NEW n \in Names, NEW d, disk' = [disk EXCEPT ![n] = d]
      PROVE  disk' = [disk EXCEPT ![n] = disk'[n]]
  BY <1>0, <1>1
<1>2. CASE pc = "response" /\ disk[name'] = Absent /\ name' \in Names /\ disk' = [disk EXCEPT ![name'] = << >>]
  <2>1. name' \notin Sealed
    BY <1>2 DEF Sealed
  <2> QED BY <1>1, <1>2, <2>1
<1>3. CASE pc = "chunk" /\ name \in Names /\ \E d : disk' = [disk EXCEPT ![name] = d]
  <2>1. name \notin Sealed
    BY <1>3, ReferencedParts DEF Sealed, Busy
  <2> QED BY <1>1, <1>3, <2>1
<1> QED BY <1>2, <1>3, DiskSteps

(* The local file of a download that returns true is sealed by this step.  *)
LEMMA SuccessSeals ==
  ASSUME TransferInv, [Next]_vars, pc # "idle", pc' = "idle", op = "download", result' = "true"
  PROVE  \E n \in Sealed' \ Sealed : IsDownloaded(disk[n], source)
<1> USE DEF TransferInv, BehindInv, TypeInv, TypeOK, callVars, diskVars, loopVars
<1>1. CASE Finish
  <2>1. /\ pc = "verify" /\ disk[name] = Whole(source) /\ SetState(Absent)
        /\ UNCHANGED <<name, file, disk, buf>>
    BY <1>1 DEF Finish, Return, ChecksumMatches
  <2>2. name \in Names /\ disk[name] # Absent /\ buf = Absent
    BY <2>1 DEF LoopTypeOK, FileOpen, BufEmpty
  <2>3. \A s \in Stems : ~(ckp'[s] # Absent /\ ckp'[s].name = name)
    BY <2>1 DEF SetState, Alone, DiskTypeOK
  <2>4. ~Linked(name)'
    BY <2>1, <2>2, <2>3 DEF Linked
  <2>5. ~Referenced(name)' /\ Referenced(name)
    <3>1. ~Busy(name)' /\ Busy(name)
      BY DEF Busy
    <3>2. name' = name
      BY <2>1
    <3> QED BY <2>4, <3>1, <3>2, ReferencedParts
  <2>6. name \in Sealed' /\ name \notin Sealed
    BY <2>1, <2>2, <2>5 DEF Sealed
  <2> QED BY <2>1, <2>6 DEF IsDownloaded
<1>2. CASE Call \/ ResponseFails \/ Denied \/ DownloadAllowed \/ ResumeAllowed \/ ChunkFails
  BY <1>2 DEF Call, CallDownload, CallResume, Begin, ResponseFails, Denied, DownloadAllowed,
     ResumeAllowed, ChunkFails, Return
<1>3. CASE WriteChunk \/ RecordChunk \/ CloseFiles \/ RejectChunk \/ Killed
  BY <1>3 DEF WriteChunk, RecordChunk, CloseFiles, RejectChunk, ChunkReceived, Killed, Return
<1>4. CASE Relogin \/ LinkDies \/ UNCHANGED vars
  BY <1>4 DEF Relogin, LinkDies, vars
<1> QED BY <1>1, <1>2, <1>3, <1>4 DEF Next, Step

LEMMA PromiseStep ==
  ASSUME TransferInv, TransferInv', [Next]_vars
  PROVE  [Promise!Next]_(Promise!vars)
<1>0. TypeInv /\ TypeInv' /\ SourceOpen /\ NoNamelessFile
  BY DEF TransferInv, BehindInv
<1>1. Sealed \subseteq Sealed'
  BY <1>0, SealedKept
<1>2. Promise!Seal
  BY <1>1 DEF Promise!Seal, Sealed
<1>3. CASE Begins
  BY <1>2, <1>3 DEF Begins, Promise!Next, Promise!Start, Phase
<1>4. CASE Rests
  BY <1>2, <1>4 DEF Rests, Promise!Next, Promise!Rest, Phase
<1>5. CASE Goes
  <2>1. UNCHANGED disk \/ Promise!Write
    BY <1>0, WriteUnsealed DEF Promise!Write, Sealed
  <2>2. Promise!Proceed
    BY <1>2, <1>5, <2>1 DEF Goes, Promise!Proceed, Phase
  <2> QED BY <2>2 DEF Promise!Next
<1>6. CASE Ends
  <2>1. ASSUME NEW r, result' = r PROVE Promise!End(r)
    BY <1>2, <1>6, <2>1 DEF Ends, Promise!End, Phase
  <2>2. CASE result' = "true"
    <3>1. op = "download" => \E n \in Sealed' \ Sealed : IsDownloaded(disk[n], source)
      BY <1>6, <2>2, SuccessSeals DEF Ends
    <3>2. Promise!Succeed
      BY <1>6, <2>1, <2>2, <3>1 DEF Ends, Promise!Succeed, Phase, Sealed
    <3> QED BY <3>2 DEF Promise!Next
  <2>3. CASE result' \in {"false", "threw", "killed"}
    BY <2>1, <2>3 DEF Promise!Next, Promise!Fail
  <2> QED BY <1>6, <2>2, <2>3 DEF Ends
<1> QED BY <1>0, <1>3, <1>4, <1>5, <1>6, CallSteps

(* Download implements Transfer: a download that returns true has made a   *)
(* whole copy of the file its answer described, under a name that no       *)
(* checkpoint holds, so that nothing the client does later changes it      *)
(* (ftc 365-372, 388-507).                                                 *)
THEOREM DownloadImplementsTransfer == Spec => PromiseKept
<1>1. Init => Promise!Init
  BY DEF Init, Promise!Init, Phase
<1>2. Init => TransferInv
  BY InitBehind DEF Init, TransferInv, NoNamelessFile, SourceOpen, Alone, Names
<1>3. TransferInv /\ [Next]_vars => TransferInv'
  BY NextTransferInv
<1>4. TransferInv /\ TransferInv' /\ [Next]_vars => [Promise!Next]_(Promise!vars)
  BY PromiseStep
<1> QED BY <1>1, <1>2, <1>3, <1>4, PTL DEF Spec, PromiseKept, Promise!Spec

=============================================================================
