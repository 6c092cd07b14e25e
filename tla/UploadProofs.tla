---------------------------- MODULE UploadProofs ----------------------------
(***************************************************************************)
(* Proofs about Upload, for every set of files, sizes, chunk size, number  *)
(* of retries and of calls.                                                *)
(***************************************************************************)
EXTENDS Upload, TLAPS

USE DEF Stems

-----------------------------------------------------------------------------
(* Arithmetic of chunks *)

LEMMA DivBounds ==
  ASSUME NEW n \in Nat, NEW c \in Nat \ {0}
  PROVE  n \div c \in Nat /\ (n \div c) * c <= n /\ n < (n \div c) * c + c
BY SMT

(* The loop runs over exactly the chunks that begin inside the file. *)
LEMMA ChunkCountBounds ==
  ASSUME NEW n \in Nat, NEW c \in Nat \ {0}
  PROVE  /\ ChunkCount(n, c) \in Nat
         /\ \A k \in Nat : k < ChunkCount(n, c) <=> k * c < n
<1>1. n + c - 1 \in Nat
  OBVIOUS
<1>2. ChunkCount(n, c) \in Nat
  BY <1>1, DivBounds DEF ChunkCount
<1>3. ASSUME NEW k \in Nat PROVE k < ChunkCount(n, c) <=> k * c < n
  BY <1>1, DivBounds, SMT DEF ChunkCount
<1> QED BY <1>2, <1>3

LEMMA ModSmall ==
  ASSUME NEW m \in Nat, NEW n \in Nat, n < m
  PROVE  n % m = n
BY SMT

LEMMA ModNat ==
  ASSUME NEW m \in Nat \ {0}, NEW n \in Int
  PROVE  n % m \in Nat
BY SMT

-----------------------------------------------------------------------------
(* Type correctness *)

LEMMA ChunkSizeType ==
  ASSUME TypeOK PROVE CurrentChunkSize \in Nat
<1>1. SizeMod \in Nat \ {0}
  BY ChunkAssumption, FilesAssumption DEF TypeOK, CallTypeOK
<1>2. FileSize[file] - total_sent \in Int
  BY FilesAssumption DEF TypeOK, CallTypeOK
<1> QED BY <1>1, <1>2, ModNat DEF TypeOK, CallTypeOK, CurrentChunkSize

LEMMA InitType == Init => TypeOK
BY DEF Init, TypeOK, CallTypeOK, DiskTypeOK, NetTypeOK, ServerTypeOK, Record

LEMMA AnswerType ==
  ASSUME NEW t \in {"UPLOAD_RESPONSE", "RESUME_RESPONSE", "FILE_CHUNK_ACK", "ERR_PACKET"},
         NEW id \in Ids \cup {NoId}, NEW ok \in BOOLEAN, ok => id \in Ids,
         NEW n \in Nat, NEW pos \in Nat
  PROVE  Answer(t, id, ok, n, pos) \in Reply
BY DEF Answer, Reply

LEMMA HeadType ==
  ASSUME NetTypeOK, replies # << >>
  PROVE  /\ Head(replies) \in Reply /\ Tail(replies) \in Seq(Reply)
         /\ Head(replies) = replies[1]
BY DEF NetTypeOK

LEMMA PostType ==
  ASSUME NetTypeOK, NEW r \in Reply, Post(r)
  PROVE  replies' \in Seq(Reply)
BY DEF NetTypeOK, Post

LEMMA ReplyFields ==
  ASSUME NEW r \in Reply
  PROVE  /\ r.id \in Ids \cup {NoId} /\ r.n \in Nat /\ r.pos \in Nat
         /\ r.ok \in BOOLEAN /\ (r.ok => r.id \in Ids)
BY DEF Reply

LEMMA CkpType ==
  ASSUME CallTypeOK, DiskTypeOK, NEW r \in Record \cup {Absent}
  PROVE  [ckp EXCEPT ![Stem[file]] = r] \in [Stems -> Record \cup {Absent}]
BY DEF CallTypeOK, DiskTypeOK

LEMMA RecordTypes == EmptyRecord \in Record /\ \A id \in Ids : \A n \in Nat : [id |-> id, size |-> n] \in Record
BY DEF EmptyRecord, Record

LEMMA StateType ==
  ASSUME DiskTypeOK, NEW f \in Files, ckp[Stem[f]] # Absent
  PROVE  ckp[Stem[f]] \in Record /\ ckp[Stem[f]].id \in Ids \cup {NoId} /\ ckp[Stem[f]].size \in Nat
BY DEF DiskTypeOK, Record

(* The answer to a resume is well formed: what remains is not negative. *)
LEMMA AllowResumeReply ==
  ASSUME TypeOK, NEW id, AllowResume(id)
  PROVE  \E r \in Reply : Post(r) /\ r.type = "RESUME_RESPONSE" /\ r.id = id
<1> DEFINE size == FileSize[granted[id]]
           held == Len(got[id])
           count == ChunkCount(size, ChunkSize)
           pos == IF held < count THEN held * ChunkSize ELSE size
<1>1. id \in Ids /\ size \in Nat /\ held \in Nat /\ ChunkSize \in Nat \ {0}
  BY FilesAssumption, ChunkAssumption DEF AllowResume, TypeOK, ServerTypeOK
<1>2. count \in Nat
  BY <1>1, ChunkCountBounds
<1>3. held * ChunkSize \in Nat
  BY <1>1
<1> HIDE DEF size, held, count
<1>4. pos \in Nat
  BY <1>1, <1>3
<1> HIDE DEF pos
<1>5. held <= count /\ Post(Answer("RESUME_RESPONSE", id, TRUE, count - held, pos))
  BY DEF AllowResume, size, held, count, pos
<1>6. count - held \in Nat
  BY <1>1, <1>2, <1>5
<1>7. Answer("RESUME_RESPONSE", id, TRUE, count - held, pos) \in Reply
  BY <1>1, <1>4, <1>6, AnswerType
<1> QED BY <1>5, <1>7 DEF Answer

LEMMA NextDiskType == TypeOK /\ [Next]_vars => DiskTypeOK'
<1> SUFFICES ASSUME TypeOK, [Next]_vars PROVE DiskTypeOK'
  OBVIOUS
<1> USE DEF diskVars
<1>1. CASE UNCHANGED diskVars
  BY <1>1 DEF TypeOK, DiskTypeOK
<1>2. CASE UploadAllowed
  BY <1>2, CkpType, RecordTypes DEF TypeOK, DiskTypeOK, UploadAllowed
<1>3. ASSUME CloseState PROVE DiskTypeOK'
  BY <1>3, CkpType DEF TypeOK, DiskTypeOK, CloseState
<1>4. CASE ChunkAcked
  <2>1. CASE UNCHANGED diskVars
    BY <2>1, <1>1
  <2>2. CASE SaveProgress /\ fid \in Ids
    BY <2>2, CkpType, RecordTypes DEF TypeOK, CallTypeOK, DiskTypeOK, SaveProgress
  <2>3. CASE ckp' = [ckp EXCEPT ![Stem[file]] = EmptyRecord] /\ UNCHANGED buf
    BY <2>3, CkpType, RecordTypes DEF TypeOK, DiskTypeOK
  <2> QED
    BY <1>4, <2>1, <2>2, <2>3 DEF ChunkAcked, TypeOK, CallTypeOK
<1>5. CASE ResumeSaves
  <2>1. [id |-> fid, size |-> i] \in Record
    BY <1>5, RecordTypes DEF ResumeSaves, TypeOK, CallTypeOK
  <2> QED
    BY <1>5, <2>1, CkpType DEF TypeOK, DiskTypeOK, ResumeSaves
<1>6. CASE Finish
  BY <1>6, CkpType DEF TypeOK, DiskTypeOK, Finish, RemoveState
<1>7. CASE Killed
  BY <1>7 DEF TypeOK, DiskTypeOK, Killed
<1>8. CASE ReadFails \/ AckFails
  BY <1>8, <1>1, <1>3 DEF ReadFails, AckFails, AttemptFails
<1>9. CASE Call
  BY <1>9, <1>1 DEF Call, CallUpload, CallResume, Begin
<1> QED
  BY <1>1, <1>2, <1>4, <1>5, <1>6, <1>7, <1>8, <1>9
     DEF Next, Step, ResponseFails, Denied, ResumeAllowed, ResumeDividesByZero, SendChunk,
         Relogin, LinkDies, vars

LEMMA NextNetType == TypeOK /\ [Next]_vars => NetTypeOK'
<1> SUFFICES ASSUME TypeOK, [Next]_vars PROVE NetTypeOK'
  OBVIOUS
<1> USE DEF netVars
<1>1. CASE UNCHANGED replies /\ link' \in {"up", "down"}
  BY <1>1 DEF TypeOK, NetTypeOK
<1>2. CASE replies' = << >> /\ link' \in {"up", "down"}
  BY <1>2 DEF NetTypeOK
<1>3. CASE replies # << >> /\ Consume /\ UNCHANGED link
  BY <1>3, HeadType DEF TypeOK, NetTypeOK, Consume
<1>4. ASSUME NEW r \in Reply, Post(r), UNCHANGED link PROVE NetTypeOK'
  BY <1>4, PostType DEF TypeOK, NetTypeOK
<1>5. ASSUME NEW type \in {"UPLOAD_RESPONSE", "RESUME_RESPONSE"}, Refuse(type), UNCHANGED link
      PROVE  NetTypeOK'
  BY <1>5, <1>4, AnswerType DEF Refuse
<1>6. ASSUME NEW f \in Files, CallUpload(f) PROVE NetTypeOK'
  BY <1>6, <1>1, <1>4, <1>5, AnswerType DEF CallUpload, Begin, Grant, Lost, TypeOK, NetTypeOK
<1>7. ASSUME NEW f \in Files, CallResume(f) PROVE NetTypeOK'
  <2>1. ASSUME NEW id \in Ids, AllowResume(id), UNCHANGED link PROVE NetTypeOK'
    BY <2>1, <1>4, AllowResumeReply
  <2> QED
    BY <1>7, <2>1, <1>1, <1>5 DEF CallResume, Begin, AllowResume, Lost, TypeOK, NetTypeOK
<1>8. CASE SendChunk
  <2>1. fid \in Ids /\ i \in Nat
    BY <1>8 DEF SendChunk, TypeOK, CallTypeOK
  <2>2. \A t \in {"FILE_CHUNK_ACK", "ERR_PACKET"} : \A ok \in BOOLEAN : Answer(t, fid, ok, i, 0) \in Reply
    BY <2>1, AnswerType
  <2> QED
    BY <1>8, <2>2, <1>1, <1>4 DEF SendChunk, StoreChunk, Lost, TypeOK, NetTypeOK
<1>9. CASE UNCHANGED netVars
  BY <1>9 DEF TypeOK, NetTypeOK
<1>10. CASE Killed \/ Relogin \/ ResumeDividesByZero
  BY <1>10, <1>2 DEF Killed, Relogin, ResumeDividesByZero
<1>11. CASE LinkDies
  BY <1>11, <1>1, <1>2 DEF LinkDies
<1>12. CASE ResponseFails \/ Denied \/ UploadAllowed \/ ResumeAllowed \/ AckFails \/ ChunkAcked
  BY <1>12, <1>1, <1>3 DEF ResponseFails, Denied, UploadAllowed, ResumeAllowed, AckFails, ChunkAcked,
     Received, NothingReceived, TypeOK, NetTypeOK
<1>13. CASE ReadFails \/ ResumeSaves \/ Finish
  BY <1>13, <1>9 DEF ReadFails, ResumeSaves, Finish
<1> QED
  BY <1>6, <1>7, <1>8, <1>9, <1>10, <1>11, <1>12, <1>13 DEF Next, Step, Call, vars

LEMMA NextServerType == TypeOK /\ [Next]_vars => ServerTypeOK'
<1> SUFFICES ASSUME TypeOK, [Next]_vars PROVE ServerTypeOK'
  OBVIOUS
<1> USE DEF serverVars
<1>1. CASE UNCHANGED serverVars
  BY <1>1 DEF TypeOK, ServerTypeOK
<1>2. ASSUME NEW f \in Files, CallUpload(f) PROVE ServerTypeOK'
  BY <1>2, <1>1 DEF CallUpload, Begin, Grant, Refuse, Lost, TypeOK, ServerTypeOK
<1>3. ASSUME NEW f \in Files, CallResume(f) PROVE ServerTypeOK'
  BY <1>3, <1>1 DEF CallResume, AllowResume, Refuse, Lost
<1>4. CASE SendChunk
  <2> DEFINE seg == [file |-> file, at |-> cursor, len |-> CurrentChunkSize]
  <2>1. seg \in Segment /\ fid \in Ids /\ i \in Nat
    BY <1>4, ChunkSizeType DEF SendChunk, Segment, TypeOK, CallTypeOK
  <2> HIDE DEF seg
  <2>2. got[fid] \in Seq(Segment)
    BY <2>1 DEF TypeOK, ServerTypeOK
  <2>3. Append(got[fid], seg) \in Seq(Segment)
    BY <2>1, <2>2
  <2>4. i < Len(got[fid]) => [got[fid] EXCEPT ![i + 1] = seg] \in Seq(Segment)
    BY <2>1, <2>2
  <2>5. got' \in [Ids -> Seq(Segment)] /\ (UNCHANGED granted)
    BY <1>4, <2>1, <2>2, <2>3, <2>4 DEF SendChunk, StoreChunk, Lost, TypeOK, ServerTypeOK, seg
  <2> QED BY <2>5 DEF TypeOK, ServerTypeOK
<1> QED
  BY <1>1, <1>2, <1>3, <1>4
     DEF Next, Step, Call, ResponseFails, Denied, UploadAllowed, ResumeAllowed,
         ResumeDividesByZero, ReadFails, AckFails, ChunkAcked, ResumeSaves, Finish, Killed,
         Relogin, LinkDies, vars

LEMMA NextCallType == TypeOK /\ [Next]_vars => CallTypeOK'
<1> SUFFICES ASSUME TypeOK, [Next]_vars PROVE CallTypeOK'
  OBVIOUS
<1> USE DEF TypeOK, CallTypeOK, callVars, loopVars, Return
<1>1. ASSUME NEW f \in Files, CallUpload(f) PROVE CallTypeOK'
  BY <1>1 DEF CallUpload, Begin
<1>2. ASSUME NEW f \in Files, CallResume(f) PROVE CallTypeOK'
  BY <1>2, StateType DEF CallResume, Begin
<1>3. CASE UNCHANGED <<callVars, loopVars, calls>> /\ \E r \in {"true", "false", "threw", "killed"} : Return(r)
  BY <1>3
<1>4. CASE UploadAllowed
  BY <1>4, HeadType, ReplyFields, ChunkAssumption DEF UploadAllowed, Received
<1>5. CASE ResumeAllowed
  <2>1. replies # << >> /\ Head(replies).ok
    BY <1>5 DEF ResumeAllowed, Received
  <2>2. Head(replies).id \in Ids /\ Head(replies).n \in Nat /\ Head(replies).pos \in Nat
    BY <2>1, HeadType, ReplyFields
  <2>3. i' \in Nat
    <3>1. ChunkCount(FileSize[file], chunk_size) \in Nat
      BY <1>5, FilesAssumption, ChunkCountBounds DEF ResumeAllowed
    <3>2. SizeMod \in Nat \ {0}
      BY ChunkAssumption, FilesAssumption
    <3> QED BY <1>5, <2>2, <3>1, <3>2, ModNat DEF ResumeAllowed, FirstUnsent
  <2> QED BY <1>5, <2>2, <2>3 DEF ResumeAllowed
<1>6. CASE SendChunk
  BY <1>6, ChunkSizeType DEF SendChunk
<1>7. CASE ReadFails
  BY <1>7 DEF ReadFails, AttemptFails
<1>8. CASE AckFails
  BY <1>8 DEF AckFails, AttemptFails
<1>9. CASE ChunkAcked
  BY <1>9, ChunkSizeType DEF ChunkAcked
<1>10. CASE ResumeSaves
  BY <1>10 DEF ResumeSaves
<1>11. CASE ResponseFails \/ Denied \/ ResumeDividesByZero \/ Finish \/ Killed
  BY <1>11, <1>3 DEF ResponseFails, Denied, ResumeDividesByZero, Finish, Killed
<1>12. CASE Relogin \/ LinkDies \/ UNCHANGED vars
  BY <1>12 DEF Relogin, LinkDies, vars
<1> QED
  BY <1>1, <1>2, <1>4, <1>5, <1>6, <1>7, <1>8, <1>9, <1>10, <1>11, <1>12 DEF Next, Step, Call

LEMMA NextType == TypeOK /\ [Next]_vars => TypeOK'
BY NextDiskType, NextNetType, NextServerType, NextCallType DEF TypeOK

(* Every reachable state is well typed; in particular a call in its loop   *)
(* acts on an id some response named, with a chunk size above zero.        *)
THEOREM TypeCorrect == Spec => []TypeOK
BY InitType, NextType, PTL DEF Spec

-----------------------------------------------------------------------------
(* The inductive invariant.  UploadFile never rewinds the file it reads,   *)
(* so an attempt that fails after its read leaves the cursor ahead of the  *)
(* bytes acknowledged; the end of the file is then reached too early and   *)
(* the call cannot return true.  What remains is the call whose every      *)
(* attempt succeeded at once: there the stream of replies is in step with  *)
(* the requests, or else, if the id came from the answer to an earlier     *)
(* call, the next answer is about another id and the attempt fails.        *)

IsGrant(r) == r.type = "UPLOAD_RESPONSE" /\ r.ok

Saved(id) ==
  \/ \E s \in Stems : ckp[s] # Absent /\ ckp[s].id = id
  \/ buf # Absent /\ buf.id = id

(* Nothing was sent under the id, and the client does not know it yet. *)
Untouched(id) == got[id] = << >> /\ fid # id /\ ~Saved(id)

Mentioned(id) == \E k \in 1..Len(replies) : replies[k].id = id

(* An id is known to the client only once its grant was received. *)
IdInv ==
  /\ \A id \in Ids : granted[id] = Absent => Untouched(id) /\ ~Mentioned(id)
  /\ \A id \in Ids, k \in 1..Len(replies) :
       IsGrant(replies[k]) /\ replies[k].id = id =>
         /\ Untouched(id)
         /\ \A j \in 1..Len(replies) : j # k => replies[j].id # id

(* A positive acknowledgement is of a chunk the server holds. *)
AckInv ==
  \A k \in 1..Len(replies) :
    replies[k].type = "FILE_CHUNK_ACK" /\ replies[k].ok => replies[k].n < Len(got[replies[k].id])

OwnInv ==
  /\ op = "upload" /\ own \in Ids => granted[own] = file
  /\ pc = "save" => op = "resume"
  /\ op = "resume" \/ pc \in {"idle", "response"} \/ ZeroSized => buf = Absent

(* While UploadFile waits, the answer to its request is the last one.      *)
ResponseInv ==
  pc = "response" /\ op = "upload" =>
    /\ i = 0 /\ total_sent = 0 /\ cursor = 0 /\ retries = 0
    /\ link = "up" => replies # << >>
    /\ replies # << >> /\ own \in Ids =>
         IsGrant(replies[Len(replies)]) /\ replies[Len(replies)].id = own
    /\ link = "up" /\ own = NoId => ~replies[Len(replies)].ok

(* The bytes before chunk n *)
Before(n) == IF n * ChunkSize < FileSize[file] THEN n * ChunkSize ELSE FileSize[file]

InFlight == IF pc = "ack" THEN CurrentChunkSize ELSE 0

LoopInv ==
  op = "upload" /\ pc \in {"chunk", "ack"} =>
    /\ chunk_size = ChunkSize
    /\ total_sent = Before(i)
    /\ total_sent + InFlight <= cursor /\ cursor <= FileSize[file]
    /\ i <= Len(got[fid])
    /\ FileSize[file] = 0 => i = 0
    /\ pc = "ack" => MoreChunks

(* No byte was read that is not acknowledged or in flight. *)
NoWastedRead == cursor = total_sent + InFlight

ChunkInv ==
  op = "upload" /\ pc = "chunk" /\ NoWastedRead =>
    /\ fid = own => /\ replies = << >>
                    /\ Len(got[fid]) = i /\ Prefix(got[fid], file, total_sent)
    /\ fid # own => /\ i = 0 /\ ~Mentioned(fid)
                    /\ link = "up" => replies # << >>

WaitInv ==
  op = "upload" /\ pc = "ack" /\ NoWastedRead =>
    /\ fid = own => /\ Len(replies) <= 1
                    /\ replies # << >> /\ AckValid(replies[1]) =>
                         Len(got[fid]) = i + 1 /\ Prefix(got[fid], file, cursor)
    /\ fid # own => i = 0 /\ (replies # << >> => replies[1].id # fid)

Inv == /\ TypeOK /\ IdInv /\ AckInv /\ OwnInv /\ ResponseInv /\ LoopInv
       /\ ChunkInv /\ WaitInv /\ UploadTrueExact

(* What the checkpoint holds of an upload in progress *)
CheckpointInv ==
  /\ op = "upload" /\ pc = "response" => i = 0
  /\ op = "upload" /\ ~ZeroSized /\ pc \in {"chunk", "ack"} =>
       /\ i >= 1 => buf = [id |-> fid, size |-> ChunkSize]
       /\ i >= 2 => ckp[Stem[file]] = [id |-> fid, size |-> ChunkSize]
  /\ FailedUploadResumable

-----------------------------------------------------------------------------
(* Replies: receiving shortens the sequence, sending extends it *)

LEMMA TailElements ==
  ASSUME NetTypeOK, replies # << >>, Consume
  PROVE  /\ Len(replies') = Len(replies) - 1
         /\ \A k \in 1..Len(replies') : k + 1 \in 1..Len(replies) /\ replies'[k] = replies[k + 1]
BY DEF NetTypeOK, Consume

LEMMA AppendElements ==
  ASSUME NetTypeOK, NEW r, Post(r)
  PROVE  /\ Len(replies') = Len(replies) + 1 /\ Len(replies) \in Nat
         /\ replies'[Len(replies) + 1] = r
         /\ \A k \in 1..Len(replies) : replies'[k] = replies[k]
BY DEF NetTypeOK, Post

LEMMA ElementType ==
  ASSUME NetTypeOK, NEW k \in 1..Len(replies)
  PROVE  replies[k] \in Reply
BY DEF NetTypeOK

(* Some replies are received or lost, none is added. *)
Shrinks ==
  \/ UNCHANGED replies
  \/ replies' = << >>
  \/ replies # << >> /\ Consume

LEMMA ShrinkElements ==
  ASSUME NetTypeOK, Shrinks
  PROVE  \E d \in {0, 1} :
           /\ \A k \in 1..Len(replies') : k + d \in 1..Len(replies) /\ replies'[k] = replies[k + d]
           /\ replies' # replies /\ replies' # << >> => d = 1
<1>1. CASE UNCHANGED replies
  <2>1. \A k \in 1..Len(replies') : k + 0 \in 1..Len(replies) /\ replies'[k] = replies[k + 0]
    BY <1>1 DEF NetTypeOK
  <2> QED BY <1>1, <2>1
<1>2. CASE replies' = << >>
  BY <1>2
<1>3. CASE replies # << >> /\ Consume
  BY <1>3, TailElements
<1> QED BY <1>1, <1>2, <1>3 DEF Shrinks

(* What a step may do to the ids the client knows *)
KeepsUntouched == \A id \in Ids : Untouched(id) /\ fid' # id => Untouched(id)'

LEMMA IdInvShrinks ==
  ASSUME TypeOK, TypeOK', IdInv, Shrinks, KeepsUntouched, UNCHANGED granted,
         \/ fid' \in {fid, NoId}
         \/ replies # << >> /\ Consume /\ fid' = Head(replies).id
  PROVE  IdInv'
<1>1. PICK d \in {0, 1} :
        /\ \A k \in 1..Len(replies') : k + d \in 1..Len(replies) /\ replies'[k] = replies[k + d]
        /\ replies' # replies /\ replies' # << >> => d = 1
  BY ShrinkElements DEF TypeOK
<1>2. ASSUME NEW id \in Ids, granted[id] = Absent PROVE Untouched(id)' /\ ~Mentioned(id)'
  <2>1. Untouched(id) /\ ~Mentioned(id)
    BY <1>2 DEF IdInv
  <2>2. fid' # id
    <3>1. CASE fid' \in {fid, NoId}
      BY <3>1, <2>1, NamesAssumption DEF Untouched
    <3>2. CASE replies # << >> /\ fid' = Head(replies).id
      BY <3>2, <2>1, HeadType DEF Mentioned, TypeOK, NetTypeOK
    <3> QED BY <3>1, <3>2
  <2>3. ~Mentioned(id)'
    BY <2>1, <1>1 DEF Mentioned
  <2> QED BY <2>1, <2>2, <2>3 DEF KeepsUntouched
<1>3. ASSUME NEW id \in Ids, NEW k \in 1..Len(replies'), IsGrant(replies'[k]), replies'[k].id = id
      PROVE  Untouched(id)' /\ \A j \in 1..Len(replies') : j # k => replies'[j].id # id
  <2>1. k \in Nat /\ k + d \in 1..Len(replies) /\ replies'[k] = replies[k + d]
    BY <1>1
  <2>2. /\ Untouched(id)
        /\ \A j \in 1..Len(replies) : j # k + d => replies[j].id # id
    BY <1>3, <2>1 DEF IdInv
  <2>4. fid' # id
    <3>1. CASE fid' \in {fid, NoId}
      BY <3>1, <2>2, NamesAssumption DEF Untouched
    <3>2. CASE replies # << >> /\ Consume /\ fid' = Head(replies).id
      <4>1. Len(replies') = Len(replies) - 1 /\ replies' # << >> /\ Len(replies) \in Nat
        BY <3>2, TailElements DEF TypeOK, NetTypeOK
      <4>2. d = 1
        BY <4>1, <1>1
      <4>3. 1 \in 1..Len(replies) /\ 1 # k + d /\ Head(replies) = replies[1]
        BY <4>1, <4>2, <3>2, HeadType DEF TypeOK, NetTypeOK
      <4> QED BY <3>2, <4>3, <2>2
    <3> QED BY <3>1, <3>2
  <2>5. \A j \in 1..Len(replies') : j # k => replies'[j].id # id
    BY <1>1, <2>1, <2>2
  <2> QED BY <2>2, <2>4, <2>5 DEF KeepsUntouched
<1> QED BY <1>2, <1>3 DEF IdInv

(* A reply about an id the client knows already, or about none *)
LEMMA IdInvAppends ==
  ASSUME TypeOK, TypeOK', IdInv, KeepsUntouched, UNCHANGED granted, fid' \in {fid, NoId},
         NEW r \in Reply, Post(r), ~IsGrant(r), r.id \in Ids => ~Untouched(r.id)
  PROVE  IdInv'
<1>1. /\ Len(replies') = Len(replies) + 1 /\ Len(replies) \in Nat
      /\ replies'[Len(replies) + 1] = r
      /\ \A k \in 1..Len(replies) : replies'[k] = replies[k]
  BY AppendElements DEF TypeOK
<1>2. ASSUME NEW id \in Ids, granted[id] = Absent PROVE Untouched(id)' /\ ~Mentioned(id)'
  <2>1. Untouched(id) /\ ~Mentioned(id)
    BY <1>2 DEF IdInv
  <2>2. ~Mentioned(id)'
    BY <1>1, <2>1 DEF Mentioned
  <2>3. fid' # id
    BY <2>1, NamesAssumption DEF Untouched
  <2> QED BY <2>1, <2>2, <2>3 DEF KeepsUntouched
<1>3. ASSUME NEW id \in Ids, NEW k \in 1..Len(replies'), IsGrant(replies'[k]), replies'[k].id = id
      PROVE  Untouched(id)' /\ \A j \in 1..Len(replies') : j # k => replies'[j].id # id
  <2>1. k \in 1..Len(replies) /\ replies'[k] = replies[k]
    BY <1>1, <1>3
  <2>2. Untouched(id)
    BY <1>3, <2>1 DEF IdInv
  <2>3. fid' # id
    BY <2>2, NamesAssumption DEF Untouched
  <2>4. \A j \in 1..Len(replies') : j # k => replies'[j].id # id
    BY <1>1, <1>3, <2>1, <2>2 DEF IdInv
  <2> QED BY <2>2, <2>3, <2>4 DEF KeepsUntouched
<1> QED BY <1>2, <1>3 DEF IdInv

(* An id granted for the first time *)
LEMMA IdInvGrants ==
  ASSUME TypeOK, TypeOK', IdInv, NEW g \in Ids, Grant(g), fid' = NoId, UNCHANGED diskVars
  PROVE  IdInv'
<1> USE DEF diskVars
<1>1. /\ Len(replies') = Len(replies) + 1 /\ Len(replies) \in Nat
      /\ replies'[Len(replies) + 1] = Answer("UPLOAD_RESPONSE", g, TRUE, 0, 0)
      /\ \A k \in 1..Len(replies) : replies'[k] = replies[k]
  BY AppendElements DEF TypeOK, Grant
<1>2. \A id \in Ids : Untouched(id) => Untouched(id)'
  BY NamesAssumption DEF Grant, Untouched, Saved
<1>3. Untouched(g) /\ ~Mentioned(g)
  BY DEF Grant, IdInv
<1>4. granted'[g] # Absent /\ \A id \in Ids : id # g => granted'[id] = granted[id]
  <2>1. file' \in Files /\ file' # Absent
    BY NamesAssumption DEF TypeOK, CallTypeOK
  <2> QED BY <2>1 DEF Grant, TypeOK, ServerTypeOK
<1>5. ASSUME NEW id \in Ids, granted'[id] = Absent PROVE Untouched(id)' /\ ~Mentioned(id)'
  BY <1>1, <1>2, <1>4, <1>5 DEF IdInv, Mentioned, Answer
<1>6. ASSUME NEW id \in Ids, NEW k \in 1..Len(replies'), IsGrant(replies'[k]), replies'[k].id = id
      PROVE  Untouched(id)' /\ \A j \in 1..Len(replies') : j # k => replies'[j].id # id
  <2>1. CASE k = Len(replies) + 1
    <3>1. id = g
      BY <1>1, <1>6, <2>1 DEF Answer
    <3>2. \A j \in 1..Len(replies') : j # k => replies'[j].id # id
      <4> TAKE j \in 1..Len(replies')
      <4> HAVE j # k
      <4>1. j \in 1..Len(replies) /\ replies'[j] = replies[j]
        BY <1>1, <2>1
      <4> QED BY <4>1, <3>1, <1>3 DEF Mentioned
    <3> QED BY <3>1, <3>2, <1>2, <1>3
  <2>2. CASE k \in 1..Len(replies)
    <3>1. Untouched(id) /\ replies'[k] = replies[k]
      BY <1>1, <1>6, <2>2 DEF IdInv
    <3>2. \A j \in 1..Len(replies') : j # k => replies'[j].id # id
      BY <1>1, <1>3, <1>6, <2>2, <3>1 DEF IdInv, Mentioned, Answer
    <3> QED BY <1>2, <3>1, <3>2
  <2> QED BY <1>1, <1>6, <2>1, <2>2
<1> QED BY <1>5, <1>6 DEF IdInv

-----------------------------------------------------------------------------
(* Each step keeps the ids in order *)

(* The checkpoint only ever receives the id the call acts on, or the       *)
(* record that was buffered.                                               *)
LEMMA DiskKeeps ==
  ASSUME TypeOK, UNCHANGED got,
         \/ UNCHANGED diskVars
         \/ (buf' = Absent /\ UNCHANGED ckp)
         \/ CloseState
         \/ SaveProgress
         \/ RemoveState
         \/ /\ UNCHANGED buf
            /\ \/ ckp' = [ckp EXCEPT ![Stem[file]] = EmptyRecord]
               \/ ckp' = [ckp EXCEPT ![Stem[file]] = [id |-> fid, size |-> i]]
  PROVE  KeepsUntouched
<1> SUFFICES ASSUME NEW id \in Ids, Untouched(id), fid' # id PROVE Untouched(id)'
  BY DEF KeepsUntouched
<1>1. ckp \in [Stems -> Record \cup {Absent}] /\ Stem[file] \in Stems /\ fid # id /\ NoId # id
  BY NamesAssumption DEF TypeOK, DiskTypeOK, CallTypeOK, Untouched
<1>2. ~Saved(id)
  BY DEF Untouched
<1>3. CASE UNCHANGED diskVars \/ (buf' = Absent /\ UNCHANGED ckp)
  BY <1>2, <1>3 DEF Untouched, Saved, diskVars
<1>4. CASE CloseState
  BY <1>1, <1>2, <1>4 DEF CloseState, Untouched, Saved
<1>5. CASE SaveProgress
  BY <1>1, <1>2, <1>5 DEF SaveProgress, Untouched, Saved
<1>6. CASE RemoveState
  BY <1>1, <1>2, <1>6 DEF RemoveState, Untouched, Saved
<1>7. CASE /\ UNCHANGED buf
           /\ \/ ckp' = [ckp EXCEPT ![Stem[file]] = EmptyRecord]
              \/ ckp' = [ckp EXCEPT ![Stem[file]] = [id |-> fid, size |-> i]]
  BY <1>1, <1>2, <1>7 DEF EmptyRecord, Untouched, Saved
<1> QED BY <1>3, <1>4, <1>5, <1>6, <1>7

LEMMA RefuseReply ==
  ASSUME NEW t \in {"UPLOAD_RESPONSE", "RESUME_RESPONSE"}, Refuse(t)
  PROVE  \E r \in Reply : Post(r) /\ ~IsGrant(r) /\ r.id = NoId /\ ~r.ok
<1>1. PICK u \in {t, "ERR_PACKET"} : Post(Answer(u, NoId, FALSE, 0, 0))
  BY DEF Refuse
<1>2. Answer(u, NoId, FALSE, 0, 0) \in Reply
  BY AnswerType
<1> QED BY <1>1, <1>2 DEF Answer, IsGrant

(* What the server does with a chunk *)
LEMMA StoreChunkReply ==
  ASSUME TypeOK, pc = "chunk", NEW seg \in Segment, StoreChunk(seg)
  PROVE  \E r \in Reply :
           /\ Post(r) /\ ~IsGrant(r) /\ r.id = fid /\ r.n = i /\ r.type # "UPLOAD_RESPONSE"
           /\ r.ok => i < Len(got'[fid])
           /\ \A id \in Ids : Len(got[id]) <= Len(got'[id]) /\ (id # fid => got'[id] = got[id])
           /\ UNCHANGED granted
<1>1. fid \in Ids /\ i \in Nat /\ got \in [Ids -> Seq(Segment)]
  BY DEF TypeOK, CallTypeOK, ServerTypeOK
<1>2. \A t \in {"FILE_CHUNK_ACK", "ERR_PACKET"}, ok \in BOOLEAN : Answer(t, fid, ok, i, 0) \in Reply
  BY <1>1, AnswerType
<1>3. got[fid] \in Seq(Segment) /\ Len(got[fid]) \in Nat
  BY <1>1
<1>4. CASE Len(got[fid]) = i /\ got' = [got EXCEPT ![fid] = Append(@, seg)]
           /\ Post(Answer("FILE_CHUNK_ACK", fid, TRUE, i, 0)) /\ UNCHANGED granted
  <2>1. Len(got'[fid]) = i + 1 /\ \A id \in Ids : id # fid => got'[id] = got[id]
    BY <1>1, <1>3, <1>4
  <2>2. \A id \in Ids : Len(got[id]) <= Len(got'[id])
    BY <1>1, <1>4, <2>1
  <2>3. Answer("FILE_CHUNK_ACK", fid, TRUE, i, 0) \in Reply
    BY <1>2
  <2>4. i < Len(got'[fid])
    BY <1>1, <2>1
  <2> QED BY <1>4, <2>1, <2>2, <2>3, <2>4 DEF Answer, IsGrant
<1>5. CASE i < Len(got[fid]) /\ (UNCHANGED got \/ got' = [got EXCEPT ![fid][i + 1] = seg])
           /\ Post(Answer("FILE_CHUNK_ACK", fid, TRUE, i, 0)) /\ UNCHANGED granted
  <2> DEFINE s == [got[fid] EXCEPT ![i + 1] = seg]
  <2>1. Len(s) = Len(got[fid])
    BY <1>1, <1>3
  <2> HIDE DEF s
  <2>2. CASE got' = [got EXCEPT ![fid] = s]
    <3>1. got'[fid] = s /\ \A id \in Ids : id # fid => got'[id] = got[id]
      BY <1>1, <2>2
    <3>2. \A id \in Ids : Len(got[id]) <= Len(got'[id])
      BY <1>1, <2>1, <3>1
    <3> QED BY <1>1, <1>2, <1>5, <2>1, <3>1, <3>2 DEF Answer, IsGrant
  <2>3. CASE UNCHANGED got
    <3>1. \A id \in Ids : Len(got[id]) <= Len(got'[id])
      BY <1>1, <2>3
    <3> QED BY <1>1, <1>2, <1>5, <2>3, <3>1 DEF Answer, IsGrant
  <2> QED BY <1>5, <2>2, <2>3 DEF s
<1>6. CASE (\E t \in {"FILE_CHUNK_ACK", "ERR_PACKET"} : Post(Answer(t, fid, FALSE, i, 0)))
           /\ UNCHANGED got /\ UNCHANGED granted
  <2>1. \A id \in Ids : Len(got[id]) <= Len(got'[id])
    BY <1>1, <1>6
  <2> QED BY <1>1, <1>2, <1>6, <2>1 DEF Answer, IsGrant
<1> QED BY <1>4, <1>5, <1>6 DEF StoreChunk

LEMMA SegmentType ==
  ASSUME TypeOK
  PROVE  [file |-> file, at |-> cursor, len |-> CurrentChunkSize] \in Segment
BY ChunkSizeType DEF Segment, TypeOK, CallTypeOK

LEMMA NextIdInv == TypeOK /\ TypeOK' /\ IdInv /\ [Next]_vars => IdInv'
<1> SUFFICES ASSUME TypeOK, TypeOK', IdInv, [Next]_vars PROVE IdInv'
  OBVIOUS
<1> USE DEF callVars, diskVars, netVars, serverVars
<1>1. ASSUME UNCHANGED <<granted, got>>, Shrinks, KeepsUntouched, UNCHANGED fid PROVE IdInv'
  BY <1>1, IdInvShrinks
<1>2. ASSUME UNCHANGED <<granted, got, diskVars>>, KeepsUntouched, fid' = NoId,
             \/ UNCHANGED replies
             \/ \E t \in {"UPLOAD_RESPONSE", "RESUME_RESPONSE"} : Refuse(t)
      PROVE  IdInv'
  <2>1. CASE UNCHANGED replies
    BY <1>2, <2>1, IdInvShrinks DEF Shrinks
  <2>2. ASSUME NEW t \in {"UPLOAD_RESPONSE", "RESUME_RESPONSE"}, Refuse(t) PROVE IdInv'
    <3>1. PICK r \in Reply : Post(r) /\ ~IsGrant(r) /\ r.id = NoId
      BY <2>2, RefuseReply
    <3> QED BY <1>2, <3>1, IdInvAppends, NamesAssumption
  <2> QED BY <1>2, <2>1, <2>2
<1>3. ASSUME NEW f \in Files, CallUpload(f) PROVE IdInv'
  <2>1. fid' = NoId /\ UNCHANGED diskVars
    BY <1>3 DEF CallUpload, Begin
  <2>2. ASSUME NEW id \in Ids, Grant(id) PROVE IdInv'
    BY <2>1, <2>2, IdInvGrants
  <2>3. CASE Refuse("UPLOAD_RESPONSE") \/ Lost
    <3>1. UNCHANGED <<granted, got>>
      BY <2>3 DEF Refuse, Lost
    <3>2. KeepsUntouched
      BY <2>1, <3>1, DiskKeeps
    <3> QED BY <2>1, <2>3, <3>1, <3>2, <1>2 DEF Lost
  <2> QED BY <1>3, <2>2, <2>3 DEF CallUpload
<1>4. ASSUME NEW f \in Files, CallResume(f) PROVE IdInv'
  <2>1. fid' = NoId /\ UNCHANGED diskVars /\ UNCHANGED <<granted, got>>
    BY <1>4 DEF CallResume, Begin, AllowResume, Refuse, Lost
  <2>2. KeepsUntouched
    BY <2>1, DiskKeeps
  <2>3. CASE Refuse("RESUME_RESPONSE") \/ Lost
    BY <2>1, <2>2, <2>3, <1>2 DEF Lost
  <2>4. CASE AllowResume(ckp[Stem[f]].id)
    <3> DEFINE id == ckp[Stem[f]].id
    <3>1. id \in Ids /\ ckp[Stem[f]] # Absent /\ Stem[f] \in Stems
      BY <1>4, <2>4 DEF CallResume, AllowResume
    <3>2. ~Untouched(id)
      BY <3>1 DEF Untouched, Saved
    <3>3. PICK r \in Reply : Post(r) /\ r.type = "RESUME_RESPONSE" /\ r.id = id
      BY <2>4, AllowResumeReply
    <3> QED BY <2>1, <2>2, <3>2, <3>3, IdInvAppends DEF IsGrant
  <2> QED BY <1>4, <2>3, <2>4 DEF CallResume
<1>5. CASE UploadAllowed \/ ResumeAllowed
  <2>1. KeepsUntouched /\ UNCHANGED granted
    BY <1>5, DiskKeeps DEF UploadAllowed, ResumeAllowed
  <2>2. replies # << >> /\ Consume /\ fid' = Head(replies).id
    BY <1>5 DEF UploadAllowed, ResumeAllowed, Received
  <2> QED BY <2>1, <2>2, IdInvShrinks DEF Shrinks
<1>6. CASE SendChunk
  <2>1. CASE Lost
    BY <1>6, <2>1, <1>1, DiskKeeps DEF SendChunk, Lost, Shrinks
  <2>2. ASSUME StoreChunk([file |-> file, at |-> cursor, len |-> CurrentChunkSize]) PROVE IdInv'
    <3>1. PICK r \in Reply :
            /\ Post(r) /\ ~IsGrant(r) /\ r.id = fid
            /\ \A id \in Ids : id # fid => got'[id] = got[id]
            /\ UNCHANGED granted
      BY <1>6, <2>2, StoreChunkReply, SegmentType DEF SendChunk
    <3>2. KeepsUntouched
      BY <1>6, <3>1 DEF SendChunk, KeepsUntouched, Untouched, Saved
    <3>3. r.id \in Ids => ~Untouched(r.id)
      BY <3>1 DEF Untouched
    <3> QED BY <1>6, <3>1, <3>2, <3>3, IdInvAppends DEF SendChunk
  <2> QED BY <1>6, <2>1, <2>2 DEF SendChunk
<1>7. CASE ReadFails \/ AckFails
  BY <1>7, <1>1, DiskKeeps
     DEF ReadFails, AckFails, AttemptFails, Shrinks, NothingReceived, Received
<1>8. CASE ChunkAcked
  BY <1>8, <1>1, DiskKeeps DEF ChunkAcked, Shrinks
<1>9. CASE ResumeSaves \/ Finish
  BY <1>9, <1>1, DiskKeeps DEF ResumeSaves, Finish, Shrinks
<1>10. CASE ResponseFails \/ Denied \/ ResumeDividesByZero
  BY <1>10, <1>1, DiskKeeps
     DEF ResponseFails, Denied, ResumeDividesByZero, Shrinks, NothingReceived, Received
<1>11. CASE Killed \/ Relogin \/ LinkDies
  BY <1>11, <1>1, DiskKeeps DEF Killed, Relogin, LinkDies, Shrinks
<1>12. CASE UNCHANGED vars
  BY <1>12, <1>1, DiskKeeps DEF vars, Shrinks
<1> QED
  BY <1>3, <1>4, <1>5, <1>6, <1>7, <1>8, <1>9, <1>10, <1>11, <1>12 DEF Next, Step, Call

-----------------------------------------------------------------------------
(* Acknowledgements *)

IsAck(r) == r.type = "FILE_CHUNK_ACK" /\ r.ok

LEMMA AckInvAppends ==
  ASSUME TypeOK, AckInv, NEW r \in Reply, Post(r),
         \A id \in Ids : Len(got[id]) <= Len(got'[id]),
         IsAck(r) => r.n < Len(got'[r.id]),
         TypeOK'
  PROVE  AckInv'
<1>1. /\ Len(replies') = Len(replies) + 1 /\ Len(replies) \in Nat
      /\ replies'[Len(replies) + 1] = r
      /\ \A k \in 1..Len(replies) : replies'[k] = replies[k]
  BY AppendElements DEF TypeOK
<1>2. ASSUME NEW k \in 1..Len(replies'), IsAck(replies'[k])
      PROVE  replies'[k].n < Len(got'[replies'[k].id])
  <2>1. CASE k = Len(replies) + 1
    BY <1>1, <1>2, <2>1
  <2>2. CASE k \in 1..Len(replies)
    <3> DEFINE s == replies[k]
    <3>1. s \in Reply /\ replies'[k] = s
      BY <2>2, <1>1, ElementType DEF TypeOK
    <3> HIDE DEF s
    <3>2. s.id \in Ids /\ s.n \in Nat
      BY <3>1, <1>2, ReplyFields DEF IsAck
    <3>3. Len(got[s.id]) \in Nat /\ Len(got'[s.id]) \in Nat
      BY <3>2 DEF TypeOK, ServerTypeOK
    <3>4. s.n < Len(got[s.id])
      BY <1>2, <2>2, <3>1 DEF AckInv, IsAck, s
    <3>5. Len(got[s.id]) <= Len(got'[s.id])
      BY <3>2
    <3> QED BY <3>1, <3>2, <3>3, <3>4, <3>5
  <2> QED BY <1>1, <2>1, <2>2
<1> QED BY <1>2 DEF AckInv, IsAck

LEMMA NextAckInv == TypeOK /\ TypeOK' /\ AckInv /\ [Next]_vars => AckInv'
<1> SUFFICES ASSUME TypeOK, TypeOK', AckInv, [Next]_vars PROVE AckInv'
  OBVIOUS
<1> USE DEF callVars, diskVars, netVars, serverVars
<1>1. ASSUME UNCHANGED got, Shrinks PROVE AckInv'
  <2>1. PICK d \in {0, 1} :
          \A k \in 1..Len(replies') : k + d \in 1..Len(replies) /\ replies'[k] = replies[k + d]
    BY <1>1, ShrinkElements DEF TypeOK
  <2> QED BY <1>1, <2>1 DEF AckInv
<1>2. ASSUME UNCHANGED got, NEW r \in Reply, Post(r), ~IsAck(r) PROVE AckInv'
  <2>1. \A id \in Ids : Len(got[id]) <= Len(got'[id])
    BY <1>2 DEF TypeOK, ServerTypeOK
  <2> QED BY <1>2, <2>1, AckInvAppends
<1>3. ASSUME UNCHANGED got, NEW t \in {"UPLOAD_RESPONSE", "RESUME_RESPONSE"}, Refuse(t) PROVE AckInv'
  BY <1>3, <1>2, RefuseReply DEF IsAck
<1>4. ASSUME NEW f \in Files, CallUpload(f) PROVE AckInv'
  <2>1. ASSUME NEW id \in Ids, Grant(id) PROVE AckInv'
    BY <2>1, <1>2, AnswerType DEF Grant, Answer, IsAck
  <2> QED BY <1>4, <2>1, <1>1, <1>3 DEF CallUpload, Refuse, Lost, Shrinks
<1>5. ASSUME NEW f \in Files, CallResume(f) PROVE AckInv'
  <2>1. ASSUME NEW id, AllowResume(id) PROVE AckInv'
    <3>1. PICK r \in Reply : Post(r) /\ r.type = "RESUME_RESPONSE" /\ r.id = id
      BY <2>1, AllowResumeReply
    <3> QED BY <2>1, <3>1, <1>2 DEF AllowResume, IsAck
  <2> QED BY <1>5, <2>1, <1>1, <1>3 DEF CallResume, Refuse, Lost, Shrinks
<1>6. CASE SendChunk
  <2>1. CASE Lost
    BY <2>1, <1>1 DEF Lost, Shrinks
  <2>2. ASSUME StoreChunk([file |-> file, at |-> cursor, len |-> CurrentChunkSize]) PROVE AckInv'
    <3>1. PICK r \in Reply :
           /\ Post(r) /\ r.id = fid /\ r.n = i
           /\ r.ok => i < Len(got'[fid])
           /\ \A id \in Ids : Len(got[id]) <= Len(got'[id])
      BY <1>6, <2>2, StoreChunkReply, SegmentType DEF SendChunk
    <3> QED BY <3>1, AckInvAppends DEF IsAck
  <2> QED BY <1>6, <2>1, <2>2 DEF SendChunk
<1>7. CASE ReadFails \/ AckFails \/ ChunkAcked \/ ResumeSaves \/ Finish
  BY <1>7, <1>1
     DEF ReadFails, AckFails, ChunkAcked, ResumeSaves, Finish, Shrinks, NothingReceived, Received
<1>8. CASE ResponseFails \/ Denied \/ UploadAllowed \/ ResumeAllowed \/ ResumeDividesByZero
  BY <1>8, <1>1
     DEF ResponseFails, Denied, UploadAllowed, ResumeAllowed, ResumeDividesByZero, Shrinks,
         NothingReceived, Received
<1>9. CASE Killed \/ Relogin \/ LinkDies \/ UNCHANGED vars
  BY <1>9, <1>1 DEF Killed, Relogin, LinkDies, vars, Shrinks
<1> QED BY <1>4, <1>5, <1>6, <1>7, <1>8, <1>9 DEF Next, Step, Call

(* The acknowledgement UploadFile takes is of a chunk the server holds,    *)
(* even if it answers an earlier attempt.                                  *)
LEMMA AckedIsHeld ==
  ASSUME TypeOK, AckInv, replies # << >>, AckValid(Head(replies))
  PROVE  i < Len(got[fid])
<1>1. 1 \in 1..Len(replies) /\ Head(replies) = replies[1]
  BY HeadType DEF TypeOK, NetTypeOK
<1> QED BY <1>1 DEF AckInv, AckValid

-----------------------------------------------------------------------------
(* The id a call asked for, and the answer to its request *)

LEMMA NextOwnInv == TypeOK /\ TypeOK' /\ IdInv /\ OwnInv /\ [Next]_vars => OwnInv'
<1> SUFFICES ASSUME TypeOK, TypeOK', IdInv, OwnInv, [Next]_vars PROVE OwnInv'
  OBVIOUS
<1> USE DEF callVars, diskVars, netVars, serverVars, OwnInv, ZeroSized
<1>1. ASSUME NEW f \in Files, CallUpload(f) PROVE OwnInv'
  <2>1. buf' = Absent /\ pc' = "response" /\ op' = "upload"
    BY <1>1 DEF CallUpload, Begin
  <2>2. own' \in Ids => granted'[own'] = file'
    BY <1>1, NamesAssumption DEF CallUpload, Grant, TypeOK, ServerTypeOK
  <2> QED BY <2>1, <2>2
<1>2. ASSUME NEW f \in Files, CallResume(f) PROVE OwnInv'
  BY <1>2 DEF CallResume, Begin
<1>3. CASE ResponseFails \/ Denied \/ ResumeAllowed \/ ResumeDividesByZero \/ UploadAllowed
  BY <1>3 DEF ResponseFails, Denied, ResumeAllowed, ResumeDividesByZero, UploadAllowed, Return
<1>4. CASE SendChunk
  BY <1>4 DEF SendChunk, StoreChunk, Lost
<1>5. CASE ReadFails \/ AckFails
  <2>1. UNCHANGED <<op, own, granted, file>>
    BY <1>5 DEF ReadFails, AckFails
  <2>2. /\ pc' \in {"idle", "chunk"}
        /\ pc' = "idle" \/ op = "resume" \/ ZeroSized => buf' = Absent
    BY <1>5 DEF ReadFails, AckFails, AttemptFails, CloseState, Return, ZeroSized
  <2> QED BY <2>1, <2>2
<1>6. CASE ChunkAcked
  BY <1>6 DEF ChunkAcked, SaveProgress, Return, ZeroSized
<1>7. CASE ResumeSaves \/ Finish \/ Killed
  BY <1>7 DEF ResumeSaves, Finish, RemoveState, Killed, Return
<1>8. CASE Relogin \/ LinkDies \/ UNCHANGED vars
  BY <1>8 DEF Relogin, LinkDies, vars
<1> QED BY <1>1, <1>2, <1>3, <1>4, <1>5, <1>6, <1>7, <1>8 DEF Next, Step, Call

LEMMA NextResponseInv == TypeOK /\ TypeOK' /\ ResponseInv /\ [Next]_vars => ResponseInv'
<1> SUFFICES ASSUME TypeOK, TypeOK', ResponseInv, [Next]_vars PROVE ResponseInv'
  OBVIOUS
<1> USE DEF callVars, loopVars, netVars, ResponseInv
<1>1. ASSUME NEW f \in Files, CallUpload(f) PROVE ResponseInv'
  <2>1. i' = 0 /\ total_sent' = 0 /\ cursor' = 0 /\ retries' = 0 /\ UNCHANGED link
    BY <1>1 DEF CallUpload, Begin
  <2>2. ASSUME NEW r \in Reply, Post(r) PROVE replies' # << >> /\ replies'[Len(replies')] = r
    BY <2>2, AppendElements DEF TypeOK, NetTypeOK
  <2>3. ASSUME NEW id \in Ids, Grant(id), own' = id PROVE ResponseInv'
    <3>1. Answer("UPLOAD_RESPONSE", id, TRUE, 0, 0) \in Reply
      BY AnswerType
    <3>2. replies' # << >> /\ replies'[Len(replies')] = Answer("UPLOAD_RESPONSE", id, TRUE, 0, 0)
      BY <2>2, <2>3, <3>1 DEF Grant
    <3>3. IsGrant(replies'[Len(replies')]) /\ replies'[Len(replies')].id = own' /\ own' # NoId
      BY <2>3, <3>2, NamesAssumption DEF Answer, IsGrant
    <3> QED BY <2>1, <3>2, <3>3 DEF IsGrant
  <2>4. CASE Refuse("UPLOAD_RESPONSE") /\ own' = NoId
    BY <2>1, <2>2, <2>4, RefuseReply, NamesAssumption
  <2>5. CASE Lost /\ own' = NoId
    BY <2>1, <2>5, NamesAssumption DEF Lost
  <2> QED BY <1>1, <2>3, <2>4, <2>5 DEF CallUpload
<1>2. ASSUME NEW f \in Files, CallResume(f) PROVE ResponseInv'
  BY <1>2 DEF CallResume, Begin
<1>3. CASE LinkDies
  BY <1>3 DEF LinkDies
<1>4. CASE pc' # "response"
  BY <1>4
<1>5. CASE UNCHANGED vars
  BY <1>5 DEF vars
<1>6. CASE Step \/ Killed \/ Relogin
  <2>1. pc' # "response"
    BY <1>6 DEF Step, ResponseFails, Denied, UploadAllowed, ResumeAllowed, ResumeDividesByZero,
       SendChunk, ReadFails, AckFails, AttemptFails, ChunkAcked, ResumeSaves, Finish, Killed,
       Relogin, Return
  <2> QED BY <2>1, <1>4
<1> QED BY <1>1, <1>2, <1>3, <1>5, <1>6 DEF Next, Call

-----------------------------------------------------------------------------
(* The loop of UploadFile *)

LEMMA BeforeFacts ==
  ASSUME NEW s \in Nat, NEW c \in Nat \ {0}, NEW k \in Nat, k < ChunkCount(s, c)
  PROVE  LET b == k * c
             next == IF (k + 1) * c < s THEN (k + 1) * c ELSE s
             left == s - b
             cur == IF left < c THEN left ELSE c
         IN  b \in Nat /\ b < s /\ left \in Nat /\ cur \in Nat \ {0} /\ next = b + cur
<1>1. k * c < s /\ k * c \in Nat
  BY ChunkCountBounds
<1>2. (k + 1) * c = k * c + c
  BY SMT
<1> QED BY <1>1, <1>2

(* The chunk UploadFile sends next: never empty, and up to the next place. *)
LEMMA CurrentChunk ==
  ASSUME TypeOK, LoopInv, op = "upload", pc \in {"chunk", "ack"}, MoreChunks
  PROVE  /\ CurrentChunkSize \in Nat
         /\ ~ZeroSized => /\ CurrentChunkSize > 0
                          /\ total_sent < FileSize[file]
                          /\ total_sent + CurrentChunkSize =
                               IF (i + 1) * ChunkSize < FileSize[file]
                               THEN (i + 1) * ChunkSize ELSE FileSize[file]
         /\ ZeroSized => CurrentChunkSize = 0 /\ i = 0 /\ total_sent = 0
<1>1. /\ FileSize[file] \in Nat /\ ChunkSize \in Nat \ {0} /\ i \in Nat /\ SizeMod \in Nat
      /\ FileSize[file] + ChunkSize < SizeMod
      /\ chunk_size = ChunkSize /\ total_sent = Before(i)
  BY FilesAssumption, ChunkAssumption DEF TypeOK, CallTypeOK, LoopInv
<1>2. CASE ZeroSized
  <2>1. FileSize[file] = 0 /\ i = 0
    BY <1>2 DEF ZeroSized, LoopInv
  <2>2. total_sent = 0
    BY <1>1, <2>1 DEF Before
  <2>3. (FileSize[file] - total_sent) % SizeMod = 0
    BY <1>1, <2>1, <2>2, ModSmall
  <2>4. CurrentChunkSize = 0
    BY <1>1, <2>3 DEF CurrentChunkSize
  <2> QED BY <1>2, <2>1, <2>2, <2>4
<1>3. CASE ~ZeroSized
  <2>1. i < ChunkCount(FileSize[file], ChunkSize)
    BY <1>1, <1>3 DEF MoreChunks
  <2>2. i * ChunkSize \in Nat /\ i * ChunkSize < FileSize[file]
    BY <1>1, <2>1, BeforeFacts
  <2>3. total_sent = i * ChunkSize
    BY <1>1, <2>2 DEF Before
  <2>4. FileSize[file] - total_sent \in Nat /\ FileSize[file] - total_sent < SizeMod
    BY <1>1, <2>2, <2>3
  <2>5. (FileSize[file] - total_sent) % SizeMod = FileSize[file] - total_sent
    BY <1>1, <2>4, ModSmall
  <2>6. CurrentChunkSize = IF FileSize[file] - total_sent < ChunkSize
                           THEN FileSize[file] - total_sent ELSE ChunkSize
    BY <1>1, <2>5 DEF CurrentChunkSize
  <2>7. (i + 1) * ChunkSize = i * ChunkSize + ChunkSize
    BY <1>1
  <2> QED BY <1>1, <1>3, <2>2, <2>3, <2>6, <2>7
<1> QED BY <1>2, <1>3

LEMMA NextLoopInv ==
  TypeOK /\ TypeOK' /\ AckInv /\ OwnInv /\ ResponseInv /\ LoopInv /\ [Next]_vars => LoopInv'
<1> SUFFICES ASSUME TypeOK, TypeOK', AckInv, OwnInv, ResponseInv, LoopInv, [Next]_vars,
                    op' = "upload", pc' \in {"chunk", "ack"}
             PROVE  LoopInv'
  BY DEF LoopInv
<1> USE DEF callVars, loopVars, diskVars, netVars, serverVars
<1>0. FileSize[file] \in Nat /\ ChunkSize \in Nat \ {0}
  BY FilesAssumption, ChunkAssumption DEF TypeOK, CallTypeOK
<1>1. CASE UploadAllowed
  <2>1. /\ i' = 0 /\ total_sent' = 0 /\ cursor' = 0 /\ chunk_size' = ChunkSize /\ pc' = "chunk"
        /\ file' = file
    BY <1>1 DEF UploadAllowed, ResponseInv, Return
  <2>2. Len(got'[fid']) \in Nat
    BY <2>1 DEF TypeOK, ServerTypeOK, CallTypeOK
  <2>3. Before(i)' = 0
    BY <1>0, <2>1 DEF Before
  <2>4. InFlight' = 0
    BY <2>1 DEF InFlight
  <2> QED BY <1>0, <2>1, <2>2, <2>3, <2>4 DEF LoopInv
<1>2. CASE SendChunk
  <2>1. /\ op = "upload" /\ pc = "chunk" /\ MoreChunks /\ ReadOk
        /\ cursor' = cursor + CurrentChunkSize /\ pc' = "ack"
        /\ UNCHANGED <<op, file, fid, chunk_size, i, total_sent>>
    BY <1>2 DEF SendChunk
  <2>2. /\ CurrentChunkSize' = CurrentChunkSize /\ MoreChunks' /\ Before(i)' = Before(i)
    BY <2>1 DEF CurrentChunkSize, MoreChunks, ZeroSized, Before
  <2>3. InFlight' = CurrentChunkSize /\ InFlight = 0
    BY <2>1, <2>2 DEF InFlight
  <2>4. CurrentChunkSize \in Nat
    BY <2>1, CurrentChunk
  <2>5. cursor \in Nat /\ total_sent \in Nat /\ i \in Nat
    BY DEF TypeOK, CallTypeOK
  <2>6. cursor' <= FileSize[file]
    BY <2>1, <2>4, <2>5, <1>0 DEF ReadOk, LoopInv
  <2>7. Len(got[fid]) \in Nat /\ Len(got'[fid]) \in Nat /\ fid \in Ids
    BY <2>1 DEF TypeOK, ServerTypeOK, CallTypeOK
  <2>8. Len(got[fid]) <= Len(got'[fid])
    <3>1. CASE Lost
      BY <3>1, <2>7 DEF Lost
    <3>2. CASE StoreChunk([file |-> file, at |-> cursor, len |-> CurrentChunkSize])
      BY <2>1, <2>7, <3>2, StoreChunkReply, SegmentType
    <3> QED BY <1>2, <3>1, <3>2 DEF SendChunk
  <2>9. i <= Len(got'[fid])
    BY <2>1, <2>5, <2>7, <2>8 DEF LoopInv
  <2> QED BY <2>1, <2>2, <2>3, <2>4, <2>5, <2>6, <2>9 DEF LoopInv
<1>3. CASE ReadFails \/ AckFails
  <2>1. /\ op = "upload" /\ pc \in {"chunk", "ack"} /\ pc' = "chunk"
        /\ UNCHANGED <<op, file, fid, chunk_size, i, total_sent, cursor, got>>
    BY <1>3 DEF ReadFails, AckFails, AttemptFails, Return
  <2>2. Before(i)' = Before(i) /\ InFlight' = 0
    BY <2>1 DEF Before, InFlight
  <2>3. InFlight \in Nat /\ total_sent \in Nat /\ cursor \in Nat
    BY ChunkSizeType DEF InFlight, TypeOK, CallTypeOK
  <2> QED BY <2>1, <2>2, <2>3 DEF LoopInv
<1>4. CASE ChunkAcked
  <2>1. /\ op = "upload" /\ pc = "ack" /\ pc' = "chunk" /\ ~ZeroSized /\ i' = i + 1
        /\ total_sent' = total_sent + CurrentChunkSize
        /\ replies # << >> /\ AckValid(Head(replies))
        /\ UNCHANGED <<op, file, fid, chunk_size, cursor, got>>
    BY <1>4 DEF ChunkAcked, Return
  <2>2. MoreChunks /\ CurrentChunkSize \in Nat
    BY <2>1, CurrentChunk DEF LoopInv
  <2>3. i \in Nat /\ total_sent \in Nat /\ cursor \in Nat
    BY DEF TypeOK, CallTypeOK
  <2>4. Before(i)' = total_sent'
    BY <2>1, <2>2, CurrentChunk DEF Before
  <2>5. total_sent' <= cursor' /\ cursor' <= FileSize[file]
    BY <2>1, <2>2 DEF LoopInv, InFlight
  <2>6. i < Len(got[fid]) /\ Len(got[fid]) \in Nat
    BY <2>1, AckedIsHeld DEF TypeOK, ServerTypeOK, CallTypeOK
  <2>7. FileSize[file] # 0
    BY <2>1 DEF ZeroSized
  <2> QED BY <2>1, <2>3, <2>4, <2>5, <2>6, <2>7 DEF LoopInv, InFlight
<1>5. CASE LinkDies \/ Relogin \/ UNCHANGED vars
  <2>1. UNCHANGED <<pc, op, file, fid, chunk_size, i, total_sent, cursor, got>>
    BY <1>5 DEF LinkDies, Relogin, vars
  <2> QED
    BY <2>1 DEF LoopInv, Before, InFlight, CurrentChunkSize, MoreChunks, ZeroSized
<1>6. CASE \/ Call \/ ResponseFails \/ Denied \/ ResumeAllowed \/ ResumeDividesByZero
           \/ ResumeSaves \/ Finish \/ Killed
  BY <1>6 DEF Call, CallUpload, CallResume, Begin, ResponseFails, Denied, ResumeAllowed,
     ResumeDividesByZero, ResumeSaves, Finish, Killed, Return, OwnInv
<1> QED BY <1>1, <1>2, <1>3, <1>4, <1>5, <1>6 DEF Next, Step

-----------------------------------------------------------------------------
(* A call without a wasted read is in step with the server *)

LEMMA PrefixAppend ==
  ASSUME NEW segs \in Seq(Segment), NEW f \in Files, NEW n \in Nat, NEW len \in Nat,
         Prefix(segs, f, n)
  PROVE  /\ Len(Append(segs, [file |-> f, at |-> n, len |-> len])) = Len(segs) + 1
         /\ Prefix(Append(segs, [file |-> f, at |-> n, len |-> len]), f, n + len)
<1> DEFINE seg == [file |-> f, at |-> n, len |-> len]
           all == Append(segs, seg)
<1>1. seg \in Segment /\ seg.file = f /\ seg.at = n /\ seg.len = len
  BY DEF Segment
<1> HIDE DEF seg
<1>2. /\ Len(all) = Len(segs) + 1 /\ Len(segs) \in Nat
      /\ all[Len(segs) + 1] = seg
      /\ \A k \in 1..Len(segs) : all[k] = segs[k]
  BY <1>1
<1>3. all # << >>
  BY <1>2
<1> HIDE DEF all
<1>4. \A k \in 1..Len(all) : all[k].file = f
  BY <1>1, <1>2 DEF Prefix
<1>5. ASSUME NEW k \in 1..(Len(all) - 1) PROVE all[k + 1].at = all[k].at + all[k].len
  <2>1. CASE k = Len(segs)
    <3>1. segs # << >>
      BY <2>1, <1>2
    <3> QED BY <2>1, <3>1, <1>1, <1>2 DEF Prefix
  <2>2. CASE k < Len(segs)
    BY <2>2, <1>2 DEF Prefix
  <2> QED BY <1>2, <2>1, <2>2
<1>6. all[1].at = 0
  <2>1. CASE segs = << >>
    BY <2>1, <1>1, <1>2 DEF Prefix
  <2>2. CASE segs # << >>
    BY <2>2, <1>2 DEF Prefix
  <2> QED BY <2>1, <2>2
<1>7. all[Len(all)].at + all[Len(all)].len = n + len
  BY <1>1, <1>2
<1>8. Prefix(all, f, n + len)
  BY <1>3, <1>4, <1>5, <1>6, <1>7 DEF Prefix
<1> QED BY <1>2, <1>8 DEF all, seg

LEMMA NextChunkInv ==
  Inv /\ TypeOK' /\ [Next]_vars => ChunkInv'
<1> SUFFICES ASSUME Inv, TypeOK', [Next]_vars, op' = "upload", pc' = "chunk", NoWastedRead'
             PROVE  ChunkInv'
  BY DEF ChunkInv
<1> USE DEF callVars, loopVars, diskVars, netVars, serverVars
<1>0. /\ TypeOK /\ IdInv /\ OwnInv /\ ResponseInv /\ LoopInv /\ ChunkInv /\ WaitInv
      /\ total_sent \in Nat /\ cursor \in Nat
  BY DEF Inv, TypeOK, CallTypeOK
<1>a. cursor' = total_sent'
  <2>1. total_sent' \in Nat
    BY DEF TypeOK, CallTypeOK
  <2>2. cursor' = total_sent' + 0
    BY DEF NoWastedRead, InFlight
  <2>3. \A n \in Nat : n + 0 = n
    OBVIOUS
  <2> QED BY <2>1, <2>2, <2>3
<1>1. CASE UploadAllowed
  <2>1. /\ pc = "response" /\ op = "upload" /\ i = 0 /\ total_sent = 0
        /\ UNCHANGED <<file, own, i, total_sent, cursor, got, link>>
        /\ replies # << >> /\ Consume /\ fid' = Head(replies).id /\ IsGrant(Head(replies))
    BY <1>0, <1>1 DEF UploadAllowed, ResponseInv, Received, Expected, IsGrant
  <2>2. /\ Head(replies) = replies[1] /\ 1 \in 1..Len(replies) /\ Len(replies) \in Nat
        /\ Head(replies).id \in Ids
    BY <1>0, <2>1, HeadType, ReplyFields DEF TypeOK, NetTypeOK, IsGrant
  <2>3. /\ got[fid'] = << >>
        /\ \A j \in 1..Len(replies) : j # 1 => replies[j].id # fid'
    BY <1>0, <2>1, <2>2 DEF IdInv, Untouched
  <2>4. /\ Len(replies') = Len(replies) - 1
        /\ \A k \in 1..Len(replies') : k + 1 \in 1..Len(replies) /\ replies'[k] = replies[k + 1]
    BY <1>0, <2>1, TailElements DEF TypeOK
  <2>5. CASE fid' = own
    <3>1. replies[Len(replies)].id = own
      BY <1>0, <2>1, <2>2, <2>5 DEF ResponseInv
    <3>2. Len(replies) = 1
      <4>1. Len(replies) \in 1..Len(replies)
        BY <2>2
      <4> QED BY <3>1, <4>1, <2>3, <2>5
    <3>3. replies' = << >>
      BY <1>0, <2>1, <2>4, <3>2 DEF Consume, TypeOK, NetTypeOK
    <3>4. Len(got'[fid']) = 0 /\ Prefix(got'[fid'], file', 0)
      BY <2>1, <2>3 DEF Prefix
    <3> QED BY <2>1, <2>5, <3>3, <3>4 DEF ChunkInv
  <2>6. CASE fid' # own
    <3>1. ~Mentioned(fid)'
      BY <2>3, <2>4, <2>2 DEF Mentioned
    <3>2. link = "up" => replies' # << >>
      <4>1. CASE Len(replies) = 1
        BY <4>1, <1>0, <2>1, <2>2, <2>6 DEF ResponseInv, IsGrant, TypeOK, CallTypeOK
      <4>2. CASE Len(replies) # 1
        BY <4>2, <2>2, <2>4
      <4> QED BY <4>1, <4>2
    <3> QED BY <2>1, <2>6, <3>1, <3>2 DEF ChunkInv
  <2> QED BY <2>5, <2>6
<1>2. CASE ReadFails \/ AckFails
  <2>1. /\ op = "upload" /\ pc \in {"chunk", "ack"} /\ ~ZeroSized
        /\ UNCHANGED <<total_sent, cursor, file>>
        /\ pc = "chunk" => ~ReadOk /\ MoreChunks
    BY <1>2 DEF ReadFails, AckFails, AttemptFails, Return
  <2>2. MoreChunks
    BY <1>0, <2>1 DEF LoopInv
  <2>3. /\ CurrentChunkSize \in Nat /\ CurrentChunkSize > 0
        /\ total_sent + CurrentChunkSize <= FileSize[file]
    <3>1. CurrentChunkSize \in Nat /\ CurrentChunkSize > 0
      BY <1>0, <2>1, <2>2, CurrentChunk
    <3>2. FileSize[file] \in Nat /\ ChunkSize \in Nat \ {0} /\ (i + 1) * ChunkSize \in Int
      BY <1>0, FilesAssumption, ChunkAssumption DEF TypeOK, CallTypeOK
    <3> QED BY <1>0, <2>1, <2>2, <3>1, <3>2, CurrentChunk
  <2>4. CASE pc = "chunk"
    BY <1>0, <1>a, <2>1, <2>3, <2>4 DEF ReadOk
  <2>5. CASE pc = "ack"
    <3>1. total_sent + CurrentChunkSize <= cursor
      BY <1>0, <2>1, <2>5 DEF LoopInv, InFlight
    <3> QED BY <1>0, <1>a, <2>1, <2>3, <3>1
  <2> QED BY <2>1, <2>4, <2>5
<1>3. CASE ChunkAcked
  <2>1. /\ op = "upload" /\ pc = "ack" /\ i' = i + 1 /\ replies # << >>
        /\ AckValid(Head(replies)) /\ Consume
        /\ total_sent' = total_sent + CurrentChunkSize
        /\ UNCHANGED <<file, fid, own, got, cursor, link>>
    BY <1>3 DEF ChunkAcked, Return
  <2>2. NoWastedRead
    BY <1>a, <2>1 DEF NoWastedRead, InFlight
  <2>3. Head(replies) = replies[1]
    BY <1>0, <2>1, HeadType DEF TypeOK
  <2>4. fid = own
    BY <1>0, <2>1, <2>2, <2>3 DEF WaitInv, AckValid
  <2>5. /\ Len(replies) <= 1
        /\ Len(got[fid]) = i + 1 /\ Prefix(got[fid], file, cursor)
    BY <1>0, <2>1, <2>2, <2>3, <2>4 DEF WaitInv
  <2>6. replies' = << >>
    BY <1>0, <2>1, <2>5 DEF Consume, TypeOK, NetTypeOK
  <2> QED BY <1>a, <2>1, <2>4, <2>5, <2>6 DEF ChunkInv
<1>4. CASE LinkDies
  BY <1>0, <1>4 DEF LinkDies, ChunkInv, NoWastedRead, InFlight, Mentioned
<1>5. CASE Relogin \/ UNCHANGED vars
  BY <1>0, <1>5 DEF Relogin, vars, ChunkInv, NoWastedRead, InFlight, Mentioned
<1>6. CASE \/ Call \/ ResponseFails \/ Denied \/ ResumeAllowed \/ ResumeDividesByZero
           \/ SendChunk \/ ResumeSaves \/ Finish \/ Killed
  BY <1>0, <1>6 DEF Call, CallUpload, CallResume, Begin, ResponseFails, Denied, ResumeAllowed,
     ResumeDividesByZero, SendChunk, ResumeSaves, Finish, Killed, Return, OwnInv
<1> QED BY <1>1, <1>2, <1>3, <1>4, <1>5, <1>6 DEF Next, Step

LEMMA NextWaitInv ==
  Inv /\ TypeOK' /\ [Next]_vars => WaitInv'
<1> SUFFICES ASSUME Inv, TypeOK', [Next]_vars, op' = "upload", pc' = "ack", NoWastedRead'
             PROVE  WaitInv'
  BY DEF WaitInv
<1> USE DEF callVars, loopVars, diskVars, netVars, serverVars
<1>0. /\ TypeOK /\ IdInv /\ OwnInv /\ LoopInv /\ ChunkInv /\ WaitInv
      /\ total_sent \in Nat /\ cursor \in Nat /\ i \in Nat /\ CurrentChunkSize \in Nat
  BY ChunkSizeType DEF Inv, TypeOK, CallTypeOK
<1>1. CASE SendChunk
  <2> DEFINE seg == [file |-> file, at |-> cursor, len |-> CurrentChunkSize]
  <2>1. /\ op = "upload" /\ pc = "chunk" /\ MoreChunks
        /\ cursor' = cursor + CurrentChunkSize
        /\ UNCHANGED <<op, file, fid, own, chunk_size, i, total_sent, link>>
        /\ StoreChunk(seg) \/ Lost
    BY <1>1 DEF SendChunk
  <2>2. CurrentChunkSize' = CurrentChunkSize
    BY <2>1 DEF CurrentChunkSize
  <2>3. cursor = total_sent /\ NoWastedRead
    BY <1>0, <2>1, <2>2 DEF NoWastedRead, InFlight
  <2>4. fid \in Ids /\ got[fid] \in Seq(Segment) /\ file \in Files
    BY <1>0, <2>1 DEF TypeOK, CallTypeOK, ServerTypeOK
  <2>5. CASE fid = own
    <3>1. replies = << >> /\ Len(got[fid]) = i /\ Prefix(got[fid], file, cursor)
      BY <1>0, <2>1, <2>3, <2>5 DEF ChunkInv
    <3>2. CASE Lost
      BY <2>1, <2>5, <3>1, <3>2 DEF Lost, WaitInv
    <3>3. CASE StoreChunk(seg)
      <4>1. CASE /\ got' = [got EXCEPT ![fid] = Append(@, seg)]
                 /\ Post(Answer("FILE_CHUNK_ACK", fid, TRUE, i, 0))
        <5>1. got'[fid] = Append(got[fid], seg)
          BY <1>0, <2>4, <4>1 DEF TypeOK, ServerTypeOK
        <5>2. Len(got'[fid]) = i + 1 /\ Prefix(got'[fid], file, cursor')
          BY <1>0, <2>1, <2>4, <3>1, <5>1, PrefixAppend
        <5>3. Len(replies') = 1
          BY <3>1, <4>1 DEF Post
        <5> QED BY <2>1, <2>5, <5>2, <5>3 DEF WaitInv
      <4>2. CASE \E t \in {"FILE_CHUNK_ACK", "ERR_PACKET"} : Post(Answer(t, fid, FALSE, i, 0))
        BY <2>1, <2>5, <3>1, <4>2 DEF Post, Answer, WaitInv, AckValid
      <4>3. ~(i < Len(got[fid]))
        BY <1>0, <3>1
      <4> QED BY <3>3, <4>1, <4>2, <4>3 DEF StoreChunk
    <3> QED BY <2>1, <3>2, <3>3
  <2>6. CASE fid # own
    <3>1. i = 0 /\ ~Mentioned(fid) /\ (link = "up" => replies # << >>)
      BY <1>0, <2>1, <2>3, <2>6 DEF ChunkInv
    <3>2. replies # << >> => 1 \in 1..Len(replies) /\ replies[1].id # fid
      BY <1>0, <3>1 DEF Mentioned, TypeOK, NetTypeOK
    <3>3. CASE Lost
      BY <2>1, <2>6, <3>1, <3>2, <3>3 DEF Lost, WaitInv
    <3>4. CASE StoreChunk(seg)
      <4>1. link = "up" /\ \E r \in Reply : Post(r)
        BY <1>0, <2>1, <3>4, StoreChunkReply, SegmentType DEF StoreChunk
      <4>2. replies'[1] = replies[1]
        BY <1>0, <3>1, <3>2, <4>1, AppendElements DEF TypeOK
      <4> QED BY <2>1, <2>6, <3>1, <3>2, <4>1, <4>2 DEF WaitInv
    <3> QED BY <2>1, <3>3, <3>4
  <2> QED BY <2>5, <2>6
<1>2. CASE LinkDies
  BY <1>0, <1>2 DEF LinkDies, WaitInv, NoWastedRead, InFlight, CurrentChunkSize, AckValid
<1>3. CASE Relogin \/ UNCHANGED vars
  BY <1>0, <1>3 DEF Relogin, vars, WaitInv, NoWastedRead, InFlight, CurrentChunkSize, AckValid
<1>4. CASE pc' # "ack"
  BY <1>4
<1>5. CASE \/ Call \/ ResponseFails \/ Denied \/ UploadAllowed \/ ResumeAllowed
           \/ ResumeDividesByZero \/ ReadFails \/ AckFails \/ ChunkAcked \/ ResumeSaves
           \/ Finish \/ Killed
  <2>1. pc' # "ack"
    BY <1>5 DEF Call, CallUpload, CallResume, Begin, ResponseFails, Denied, UploadAllowed,
       ResumeAllowed, ResumeDividesByZero, ReadFails, AckFails, AttemptFails, ChunkAcked,
       ResumeSaves, Finish, Killed, Return
  <2> QED BY <2>1, <1>4
<1> QED BY <1>1, <1>2, <1>3, <1>5 DEF Next, Step

LEMMA NextExact ==
  Inv /\ TypeOK' /\ OwnInv' /\ [Next]_vars => UploadTrueExact'
<1> SUFFICES ASSUME Inv, TypeOK', OwnInv', [Next]_vars,
                    pc' = "idle", op' = "upload", result' = "true"
             PROVE  UploadTrueExact'
  BY DEF UploadTrueExact
<1> USE DEF callVars, loopVars, diskVars, netVars, serverVars
<1>0. /\ TypeOK /\ OwnInv /\ LoopInv /\ ChunkInv /\ WaitInv /\ UploadTrueExact
      /\ total_sent \in Nat /\ cursor \in Nat /\ i \in Nat /\ FileSize[file] \in Nat
      /\ ChunkSize \in Nat \ {0}
  BY FilesAssumption, ChunkAssumption DEF Inv, TypeOK, CallTypeOK
<1>1. ASSUME op = "upload", fid = own, fid \in Ids, got[fid] # << >>,
             Prefix(got[fid], file, FileSize[file]),
             UNCHANGED <<op, fid, own, file, granted, got>>
      PROVE  UploadTrueExact'
  BY <1>1 DEF OwnInv, UploadTrueExact
<1>2. CASE ChunkAcked
  <2>1. /\ op = "upload" /\ pc = "ack" /\ ZeroSized /\ replies # << >> /\ AckValid(Head(replies))
        /\ UNCHANGED <<op, fid, own, file, granted, got>>
    BY <1>2 DEF ChunkAcked, Return
  <2>2. CurrentChunkSize = 0 /\ i = 0 /\ total_sent = 0
    BY <1>0, <2>1, CurrentChunk DEF LoopInv
  <2>3. cursor = 0 /\ FileSize[file] = 0
    BY <1>0, <2>1 DEF LoopInv, ZeroSized
  <2>4. NoWastedRead
    BY <2>1, <2>2, <2>3 DEF NoWastedRead, InFlight
  <2>5. Head(replies) = replies[1]
    BY <1>0, <2>1, HeadType DEF TypeOK
  <2>6. fid = own
    BY <1>0, <2>1, <2>4, <2>5 DEF WaitInv, AckValid
  <2>7. Len(got[fid]) = i + 1 /\ Prefix(got[fid], file, cursor)
    BY <1>0, <2>1, <2>4, <2>5, <2>6 DEF WaitInv
  <2>8. got[fid] # << >> /\ fid \in Ids
    <3>1. Len(got[fid]) # 0
      BY <2>2, <2>7
    <3> QED BY <1>0, <2>1, <3>1 DEF TypeOK, CallTypeOK
  <2> QED BY <1>1, <2>1, <2>3, <2>6, <2>7, <2>8
<1>3. CASE Finish
  <2>1. /\ op = "upload" /\ pc = "chunk" /\ ~MoreChunks
        /\ UNCHANGED <<op, fid, own, file, granted, got>>
    BY <1>3 DEF Finish
  <2>2. /\ FileSize[file] # 0 /\ ~(i < ChunkCount(FileSize[file], ChunkSize))
        /\ total_sent = Before(i)
    BY <1>0, <2>1 DEF MoreChunks, ZeroSized, LoopInv
  <2>3. ~(i * ChunkSize < FileSize[file]) /\ i * ChunkSize \in Nat
    BY <1>0, <2>2, ChunkCountBounds
  <2>4. total_sent = FileSize[file]
    BY <2>2, <2>3 DEF Before
  <2>5. i # 0
    BY <1>0, <2>2, <2>3
  <2>6. total_sent + 0 <= cursor /\ cursor <= FileSize[file]
    BY <1>0, <2>1 DEF LoopInv, InFlight
  <2>7. cursor = total_sent /\ NoWastedRead
    <3>1. cursor = total_sent
      BY <1>0, <2>4, <2>6
    <3>2. total_sent + 0 = total_sent
      BY <1>0
    <3> QED BY <2>1, <3>1, <3>2 DEF NoWastedRead, InFlight
  <2>8. fid = own /\ Len(got[fid]) = i /\ Prefix(got[fid], file, FileSize[file])
    BY <1>0, <2>1, <2>4, <2>5, <2>7 DEF ChunkInv
  <2>9. got[fid] # << >> /\ fid \in Ids
    BY <1>0, <2>1, <2>5, <2>8 DEF TypeOK, CallTypeOK
  <2> QED BY <1>1, <2>1, <2>8, <2>9
<1>4. CASE Relogin \/ LinkDies \/ UNCHANGED vars
  BY <1>0, <1>4 DEF Relogin, LinkDies, vars, UploadTrueExact
<1>5. CASE \/ Call \/ ResponseFails \/ Denied \/ UploadAllowed \/ ResumeAllowed
           \/ ResumeDividesByZero \/ SendChunk \/ ReadFails \/ AckFails \/ ResumeSaves \/ Killed
  BY <1>5 DEF Call, CallUpload, CallResume, Begin, ResponseFails, Denied, UploadAllowed,
     ResumeAllowed, ResumeDividesByZero, SendChunk, ReadFails, AckFails, AttemptFails,
     ResumeSaves, Killed, Return
<1> QED BY <1>2, <1>3, <1>4, <1>5 DEF Next, Step

LEMMA InitInv == Init => Inv
<1> SUFFICES ASSUME Init PROVE Inv
  OBVIOUS
<1>1. TypeOK
  BY InitType
<1>2. IdInv
  <2>1. \A k \in 1..Len(replies) : FALSE
    BY DEF Init
  <2>2. \A s \in Stems : ckp[s] = Absent
    BY DEF Init
  <2>3. \A id \in Ids : got[id] = << >> /\ fid # id
    BY NamesAssumption DEF Init
  <2>4. \A id \in Ids : ~Saved(id)
    BY <2>2 DEF Init, Saved
  <2> QED BY <2>1, <2>3, <2>4 DEF IdInv, Untouched, Mentioned
<1>3. AckInv
  BY DEF Init, AckInv
<1>4. OwnInv
  BY NamesAssumption DEF Init, OwnInv
<1> QED
  BY <1>1, <1>2, <1>3, <1>4 DEF Init, Inv, ResponseInv, LoopInv, ChunkInv, WaitInv, UploadTrueExact

LEMMA NextInv == Inv /\ [Next]_vars => Inv'
<1> SUFFICES ASSUME Inv, [Next]_vars PROVE Inv'
  OBVIOUS
<1>1. TypeOK /\ IdInv /\ AckInv /\ OwnInv /\ ResponseInv /\ LoopInv
  BY DEF Inv
<1>2. TypeOK'
  BY <1>1, NextType
<1>3. IdInv' /\ AckInv'
  BY <1>1, <1>2, NextIdInv, NextAckInv
<1>4. OwnInv' /\ ResponseInv' /\ LoopInv'
  BY <1>1, <1>2, NextOwnInv, NextResponseInv, NextLoopInv
<1>5. ChunkInv' /\ WaitInv' /\ UploadTrueExact'
  BY <1>2, <1>4, NextChunkInv, NextWaitInv, NextExact
<1> QED BY <1>2, <1>3, <1>4, <1>5 DEF Inv

(* An UploadFile that returns true leaves exactly the bytes of its file    *)
(* under the id granted to its own request.  It may have been interrupted  *)
(* by timeouts, late and left-over answers, a lost connection or earlier   *)
(* calls in any number.                                                    *)
THEOREM UploadExact == Spec => []UploadTrueExact
<1>1. Inv => UploadTrueExact
  BY DEF Inv
<1> QED BY <1>1, InitInv, NextInv, PTL DEF Spec

(* UploadFile goes on to the next chunk only when the server holds this    *)
(* one, though the acknowledgement may be of an earlier attempt.           *)
THEOREM UploadAckedIsStored == Spec => []AckedIsStored
<1>1. Inv => AckedIsStored
  BY DEF Inv, LoopInv, AckedIsStored
<1> QED BY <1>1, InitInv, NextInv, PTL DEF Spec

LEMMA NextCheckpointInv ==
  TypeOK /\ OwnInv /\ LoopInv /\ CheckpointInv /\ [Next]_vars => CheckpointInv'
<1> SUFFICES ASSUME TypeOK, OwnInv, LoopInv, CheckpointInv, [Next]_vars, op' = "upload"
             PROVE  CheckpointInv'
  BY DEF CheckpointInv, FailedUploadResumable
<1> USE DEF callVars, loopVars, diskVars, netVars, serverVars
<1> DEFINE rec == [id |-> fid, size |-> ChunkSize]
<1>a. i \in Nat /\ file \in Files /\ Stem[file] \in Stems /\ DOMAIN ckp = Stems
  BY DEF TypeOK, CallTypeOK, DiskTypeOK
<1>b. op = "upload" /\ ~ZeroSized /\ pc \in {"chunk", "ack"} =>
        /\ i >= 1 => buf = rec /\ buf # Absent
        /\ i >= 2 => ckp[Stem[file]] = rec
  BY NamesAssumption, ChunkAssumption DEF CheckpointInv, TypeOK, CallTypeOK
<1>1. CASE Call
  BY <1>1 DEF Call, CallUpload, CallResume, Begin, CheckpointInv, FailedUploadResumable
<1>2. CASE UploadAllowed
  <2>1. i' = 0
    BY <1>2 DEF UploadAllowed, CheckpointInv
  <2>2. pc' = "idle" => result' = "threw"
    BY <1>2 DEF UploadAllowed, Return
  <2>3. pc' # "response"
    BY <1>2 DEF UploadAllowed, Return
  <2> QED BY <2>1, <2>2, <2>3 DEF CheckpointInv, FailedUploadResumable
<1>3. CASE ResponseFails \/ Denied
  <2>1. i' = 0 /\ pc' = "idle" /\ result' # "true"
    BY <1>3 DEF ResponseFails, Denied, Return, CheckpointInv
  <2> QED BY <2>1 DEF CheckpointInv, FailedUploadResumable
<1>4. CASE SendChunk
  <2>1. /\ pc = "chunk" /\ pc' = "ack"
        /\ UNCHANGED <<op, file, fid, i, buf, ckp>>
    BY <1>4 DEF SendChunk
  <2> QED BY <1>b, <2>1 DEF CheckpointInv, FailedUploadResumable, ZeroSized
<1>5. CASE ReadFails \/ AckFails
  <2>1. /\ pc \in {"chunk", "ack"} /\ UNCHANGED <<op, file, fid, i>> /\ AttemptFails
    BY <1>5 DEF ReadFails, AckFails
  <2>2. CASE ZeroSized
    BY <2>1, <2>2 DEF CheckpointInv, FailedUploadResumable, ZeroSized, AttemptFails, Return
  <2>3. CASE ~ZeroSized /\ Return("false") /\ CloseState
    <3>1. i >= 1 => ckp'[Stem[file]] = rec
      BY <1>a, <1>b, <2>1, <2>3 DEF CloseState
    <3> QED BY <2>1, <2>3, <3>1 DEF CheckpointInv, FailedUploadResumable, Return
  <2>4. CASE ~ZeroSized /\ pc' = "chunk" /\ UNCHANGED <<result, diskVars>>
    BY <1>b, <2>1, <2>4 DEF CheckpointInv, FailedUploadResumable, ZeroSized
  <2> QED BY <2>1, <2>2, <2>3, <2>4 DEF AttemptFails
<1>6. CASE ChunkAcked
  <2>1. pc = "ack" /\ op = "upload" /\ UNCHANGED <<op, file, fid, chunk_size>>
    BY <1>6 DEF ChunkAcked
  <2>2. CASE ZeroSized
    BY <1>6, <2>1, <2>2 DEF ChunkAcked, CheckpointInv, FailedUploadResumable, ZeroSized, Return
  <2>3. CASE ~ZeroSized
    <3>1. SaveProgress /\ i' = i + 1 /\ pc' = "chunk"
      BY <1>6, <2>1, <2>3 DEF ChunkAcked
    <3>2. buf' = rec
      BY <2>1, <3>1 DEF SaveProgress, LoopInv
    <3>3. i' >= 2 => i >= 1
      BY <1>a, <3>1
    <3>4. i >= 1 => ckp'[Stem[file]] = rec
      BY <1>a, <1>b, <2>1, <2>3, <3>1 DEF SaveProgress
    <3> QED BY <2>1, <3>1, <3>2, <3>3, <3>4 DEF CheckpointInv, FailedUploadResumable
  <2> QED BY <2>2, <2>3
<1>7. CASE Finish
  <2>1. ckp'[Stem[file]] = Absent /\ pc' = "idle" /\ result' = "true" /\ UNCHANGED file
    BY <1>a, <1>7 DEF Finish, RemoveState, Return
  <2> QED BY <2>1 DEF CheckpointInv, FailedUploadResumable
<1>8. CASE Killed
  <2>1. /\ pc # "idle" /\ pc' = "idle" /\ result' = "killed"
        /\ UNCHANGED <<op, file, fid, i, ckp>>
    BY <1>8 DEF Killed, Return
  <2>2. pc \in {"response", "chunk", "ack"}
    BY <2>1 DEF OwnInv, TypeOK, CallTypeOK
  <2>3. pc = "response" => i = 0
    BY <2>1 DEF CheckpointInv
  <2> QED BY <1>b, <2>1, <2>2, <2>3 DEF CheckpointInv, FailedUploadResumable, ZeroSized
<1>9. CASE Relogin \/ LinkDies \/ UNCHANGED vars
  BY <1>9 DEF Relogin, LinkDies, vars, CheckpointInv, FailedUploadResumable, ZeroSized
<1>10. CASE ResumeAllowed \/ ResumeDividesByZero \/ ResumeSaves
  BY <1>10 DEF ResumeAllowed, ResumeDividesByZero, ResumeSaves, OwnInv
<1> QED
  BY <1>1, <1>2, <1>3, <1>4, <1>5, <1>6, <1>7, <1>8, <1>9, <1>10 DEF Next, Step

(* The checkpoint of a failed upload names its id, and that of a finished  *)
(* one is gone; a killed process loses at most the last record.            *)
THEOREM UploadResumable == Spec => []FailedUploadResumable
<1>1. Init => CheckpointInv
  BY DEF Init, CheckpointInv, FailedUploadResumable
<1>2. Inv /\ CheckpointInv /\ [Next]_vars => CheckpointInv'
  BY NextCheckpointInv DEF Inv
<1>3. CheckpointInv => FailedUploadResumable
  BY DEF CheckpointInv
<1> QED BY <1>1, <1>2, <1>3, InitInv, NextInv, PTL DEF Spec

-----------------------------------------------------------------------------
(* Resuming.  An answer tells how many chunks were left when it was sent;  *)
(* the server has at least as many of the others by the time it is read.   *)

IsAnswer(r) == r.type = "RESUME_RESPONSE" /\ r.ok

Tells(r, files, held) ==
  /\ files[r.id] \in Files
  /\ \E h \in Nat : /\ h <= Len(held[r.id]) /\ h <= ChunkCount(FileSize[files[r.id]], ChunkSize)
                    /\ r.n = ChunkCount(FileSize[files[r.id]], ChunkSize) - h

AnswerInv == \A k \in 1..Len(replies) : IsAnswer(replies[k]) => Tells(replies[k], granted, got)

ResumeLoopInv ==
  op = "resume" /\ granted[fid] = file /\ chunk_size = ChunkSize =>
    /\ pc \in {"chunk", "ack"} => i <= Len(got[fid])
    /\ pc = "save" => i < Len(got[fid])

ResumeInv == TypeOK /\ AckInv /\ AnswerInv /\ ResumeLoopInv /\ ResumeTrueComplete

LEMMA Multiple == ASSUME NEW m \in Nat, NEW c \in Nat \ {0} PROVE m <= m * c
<1>1. PICK d \in Nat : c = d + 1
  <2>1. c - 1 \in Nat
    OBVIOUS
  <2> QED BY <2>1
<1>2. m * (d + 1) = m * d + m /\ m * d \in Nat
  BY SMT
<1> QED BY <1>1, <1>2

(* No size is reached by the number of chunks of a file. *)
LEMMA CountFits ==
  ASSUME NEW f \in Files
  PROVE  ChunkCount(FileSize[f], ChunkSize) \in Nat /\ ChunkCount(FileSize[f], ChunkSize) < SizeMod
<1>1. /\ FileSize[f] \in Nat /\ ChunkSize \in Nat \ {0} /\ SizeMod \in Nat
      /\ FileSize[f] + ChunkSize < SizeMod
  BY FilesAssumption, ChunkAssumption
<1> DEFINE n == ChunkCount(FileSize[f], ChunkSize)
<1>2. n \in Nat /\ \A k \in Nat : k < n => k * ChunkSize < FileSize[f]
  BY <1>1, ChunkCountBounds
<1> HIDE DEF n
<1>3. n - 1 \in Nat => n - 1 <= (n - 1) * ChunkSize
  BY <1>1, Multiple
<1>4. n - 1 \in Nat => (n - 1) * ChunkSize \in Nat
  BY <1>1
<1> QED BY <1>1, <1>2, <1>3, <1>4 DEF n

(* The first chunk that is sent is the one after those the answer counts. *)
LEMMA FirstAfterHeld ==
  ASSUME NEW f \in Files, NEW h \in Nat, h <= ChunkCount(FileSize[f], ChunkSize)
  PROVE  FirstUnsent(ChunkCount(FileSize[f], ChunkSize),
                     ChunkCount(FileSize[f], ChunkSize) - h) = h
<1> DEFINE n == ChunkCount(FileSize[f], ChunkSize)
<1>1. n \in Nat /\ n < SizeMod /\ h <= n /\ SizeMod \in Nat
  BY CountFits, FilesAssumption
<1> HIDE DEF n
<1>2. n - (n - h) = h /\ h < SizeMod
  BY <1>1
<1>3. h % SizeMod = h
  BY <1>1, <1>2, ModSmall
<1> QED BY <1>2, <1>3 DEF FirstUnsent, n

(* The server forgets no chunk and takes back no id. *)
ServerKeeps ==
  \A id \in Ids : /\ Len(got[id]) <= Len(got'[id])
                  /\ granted[id] \in Files => granted'[id] = granted[id]

LEMMA NextServerKeeps == ASSUME TypeOK, [Next]_vars PROVE ServerKeeps
<1> USE DEF serverVars
<1>0. \A id \in Ids : Len(got[id]) \in Nat
  BY DEF TypeOK, ServerTypeOK
<1>1. CASE UNCHANGED serverVars
  BY <1>0, <1>1 DEF ServerKeeps
<1>2. ASSUME NEW f \in Files, CallUpload(f) PROVE ServerKeeps
  <2>1. ASSUME NEW id \in Ids, Grant(id) PROVE ServerKeeps
    BY <1>0, <2>1, NamesAssumption DEF Grant, ServerKeeps, TypeOK, ServerTypeOK
  <2> QED BY <1>1, <1>2, <2>1 DEF CallUpload, Refuse, Lost
<1>3. ASSUME NEW f \in Files, CallResume(f) PROVE ServerKeeps
  BY <1>1, <1>3 DEF CallResume, AllowResume, Refuse, Lost
<1>4. CASE SendChunk
  <2>1. CASE Lost
    BY <1>1, <2>1 DEF Lost
  <2>2. CASE StoreChunk([file |-> file, at |-> cursor, len |-> CurrentChunkSize])
    BY <1>4, <2>2, StoreChunkReply, SegmentType DEF SendChunk, ServerKeeps
  <2> QED BY <1>4, <2>1, <2>2 DEF SendChunk
<1> QED
  BY <1>1, <1>2, <1>3, <1>4
     DEF Next, Step, Call, ResponseFails, Denied, UploadAllowed, ResumeAllowed, ResumeDividesByZero,
         ReadFails, AckFails, ChunkAcked, ResumeSaves, Finish, Killed, Relogin, LinkDies, vars

LEMMA TellsStill ==
  ASSUME TypeOK, TypeOK', ServerKeeps, NEW r \in Reply, IsAnswer(r), Tells(r, granted, got)
  PROVE  Tells(r, granted', got')
<1>1. r.id \in Ids
  BY ReplyFields DEF IsAnswer
<1>2. Len(got[r.id]) \in Nat /\ Len(got'[r.id]) \in Nat
  BY <1>1 DEF TypeOK, ServerTypeOK
<1>3. granted'[r.id] = granted[r.id] /\ Len(got[r.id]) <= Len(got'[r.id])
  BY <1>1 DEF ServerKeeps, Tells
<1> QED BY <1>2, <1>3 DEF Tells

LEMMA NextAnswerInv == ASSUME TypeOK, TypeOK', AnswerInv, [Next]_vars PROVE AnswerInv'
<1> USE DEF callVars, diskVars, netVars, serverVars
<1>0. ServerKeeps
  BY NextServerKeeps
<1>1. ASSUME Shrinks PROVE AnswerInv'
  <2>1. PICK d \in {0, 1} :
          \A k \in 1..Len(replies') : k + d \in 1..Len(replies) /\ replies'[k] = replies[k + d]
    BY <1>1, ShrinkElements DEF TypeOK
  <2>2. ASSUME NEW k \in 1..Len(replies'), IsAnswer(replies'[k])
        PROVE  Tells(replies'[k], granted', got')
    <3>1. replies'[k] \in Reply
      BY DEF TypeOK, NetTypeOK
    <3>2. Tells(replies'[k], granted, got)
      BY <2>1, <2>2 DEF AnswerInv
    <3> QED BY <1>0, <2>2, <3>1, <3>2, TellsStill
  <2> QED BY <2>2 DEF AnswerInv
<1>2. ASSUME NEW r \in Reply, Post(r), IsAnswer(r) => Tells(r, granted', got') PROVE AnswerInv'
  <2>1. /\ Len(replies') = Len(replies) + 1 /\ Len(replies) \in Nat
        /\ replies'[Len(replies) + 1] = r
        /\ \A k \in 1..Len(replies) : replies'[k] = replies[k]
    BY <1>2, AppendElements DEF TypeOK
  <2>2. ASSUME NEW k \in 1..Len(replies'), IsAnswer(replies'[k])
        PROVE  Tells(replies'[k], granted', got')
    <3>1. CASE k = Len(replies) + 1
      BY <1>2, <2>1, <2>2, <3>1
    <3>2. CASE k \in 1..Len(replies)
      <4>1. replies'[k] = replies[k] /\ replies'[k] \in Reply
        BY <2>1, <3>2, ElementType DEF TypeOK
      <4>2. Tells(replies'[k], granted, got)
        BY <2>2, <3>2, <4>1 DEF AnswerInv
      <4> QED BY <1>0, <2>2, <4>1, <4>2, TellsStill
    <3> QED BY <2>1, <3>1, <3>2
  <2> QED BY <2>2 DEF AnswerInv
<1>3. ASSUME NEW t \in {"UPLOAD_RESPONSE", "RESUME_RESPONSE"}, Refuse(t) PROVE AnswerInv'
  BY <1>3, <1>2, RefuseReply DEF IsAnswer
<1>4. ASSUME NEW f \in Files, CallUpload(f) PROVE AnswerInv'
  <2>1. ASSUME NEW id \in Ids, Grant(id) PROVE AnswerInv'
    BY <2>1, <1>2, AnswerType DEF Grant, Answer, IsAnswer
  <2> QED BY <1>4, <2>1, <1>1, <1>3 DEF CallUpload, Refuse, Lost, Shrinks
<1>5. ASSUME NEW f \in Files, CallResume(f) PROVE AnswerInv'
  <2>1. ASSUME NEW id, AllowResume(id) PROVE AnswerInv'
    <3> DEFINE count == ChunkCount(FileSize[granted[id]], ChunkSize)
    <3>1. PICK r \in Reply : Post(r) /\ r.type = "RESUME_RESPONSE" /\ r.id = id
      BY <2>1, AllowResumeReply
    <3>2. /\ id \in Ids /\ granted[id] \in Files /\ Len(got[id]) \in Nat
          /\ Len(got[id]) <= count /\ UNCHANGED serverVars
      BY <2>1 DEF AllowResume, TypeOK, ServerTypeOK
    <3>3. \E pos : Post(Answer("RESUME_RESPONSE", id, TRUE, count - Len(got[id]), pos))
      BY <2>1 DEF AllowResume
    <3> HIDE DEF count
    <3>4. r.n = count - Len(got[id])
      <4>1. PICK pos : Post(Answer("RESUME_RESPONSE", id, TRUE, count - Len(got[id]), pos))
        BY <3>3
      <4> DEFINE answer == Answer("RESUME_RESPONSE", id, TRUE, count - Len(got[id]), pos)
      <4>2. answer.n = count - Len(got[id])
        BY DEF Answer
      <4>3. Post(answer)
        BY <4>1
      <4> HIDE DEF answer
      <4>4. replies'[Len(replies) + 1] = r
        BY <3>1, AppendElements DEF TypeOK
      <4>5. replies'[Len(replies) + 1] = answer
        BY <4>3, AppendElements DEF TypeOK
      <4> QED BY <4>2, <4>4, <4>5
    <3>5. Tells(r, granted', got')
      BY <3>1, <3>2, <3>4 DEF Tells, count
    <3> QED BY <3>1, <3>5, <1>2
  <2> QED BY <1>5, <2>1, <1>1, <1>3 DEF CallResume, Refuse, Lost, Shrinks
<1>6. CASE SendChunk
  <2>1. CASE Lost
    BY <2>1, <1>1 DEF Lost, Shrinks
  <2>2. ASSUME StoreChunk([file |-> file, at |-> cursor, len |-> CurrentChunkSize])
        PROVE  AnswerInv'
    <3>1. \E t \in {"FILE_CHUNK_ACK", "ERR_PACKET"}, ok \in BOOLEAN : Post(Answer(t, fid, ok, i, 0))
      BY <2>2 DEF StoreChunk
    <3>2. fid \in Ids /\ i \in Nat
      BY <1>6 DEF SendChunk, TypeOK, CallTypeOK
    <3>3. \A t \in {"FILE_CHUNK_ACK", "ERR_PACKET"}, ok \in BOOLEAN :
            Answer(t, fid, ok, i, 0) \in Reply /\ ~IsAnswer(Answer(t, fid, ok, i, 0))
      BY <3>2, AnswerType DEF Answer, IsAnswer
    <3> QED BY <3>1, <3>3, <1>2
  <2> QED BY <1>6, <2>1, <2>2 DEF SendChunk
<1>7. CASE ReadFails \/ AckFails \/ ChunkAcked \/ ResumeSaves \/ Finish
  BY <1>7, <1>1
     DEF ReadFails, AckFails, ChunkAcked, ResumeSaves, Finish, Shrinks, NothingReceived, Received
<1>8. CASE ResponseFails \/ Denied \/ UploadAllowed \/ ResumeAllowed \/ ResumeDividesByZero
  BY <1>8, <1>1
     DEF ResponseFails, Denied, UploadAllowed, ResumeAllowed, ResumeDividesByZero, Shrinks,
         NothingReceived, Received
<1>9. CASE Killed \/ Relogin \/ LinkDies \/ UNCHANGED vars
  BY <1>9, <1>1 DEF Killed, Relogin, LinkDies, vars, Shrinks
<1> QED BY <1>4, <1>5, <1>6, <1>7, <1>8, <1>9 DEF Next, Step, Call

LEMMA NextResumeLoop ==
  ASSUME ResumeInv, TypeOK', [Next]_vars
  PROVE  ResumeLoopInv' /\ ResumeTrueComplete'
<1> USE DEF ResumeInv, callVars, loopVars, netVars, serverVars
<1>1. CASE op' = "upload"
  BY <1>1 DEF ResumeLoopInv, ResumeTrueComplete
<1>2. CASE pc' \in {"idle", "response"} /\ (pc' = "idle" => result' # "true")
  BY <1>2 DEF ResumeLoopInv, ResumeTrueComplete
<1>3. CASE /\ pc \in {"chunk", "ack"} /\ pc' \in {"chunk", "ack"}
           /\ UNCHANGED <<op, file, fid, chunk_size, i, granted>>
  <2>1. fid \in Ids /\ i \in Nat
    BY <1>3 DEF TypeOK, CallTypeOK
  <2>2. Len(got[fid]) <= Len(got'[fid]) /\ Len(got[fid]) \in Nat /\ Len(got'[fid]) \in Nat
    BY <2>1, NextServerKeeps DEF ServerKeeps, TypeOK, ServerTypeOK
  <2> QED BY <1>3, <2>1, <2>2 DEF ResumeLoopInv, ResumeTrueComplete
<1>4. CASE ResumeAllowed
  <2>1. CASE pc' = "idle"
    BY <1>2, <1>4, <2>1 DEF ResumeAllowed, Return
  <2> SUFFICES ASSUME pc' = "chunk", granted'[fid'] = file', chunk_size' = ChunkSize
               PROVE  i' <= Len(got'[fid'])
    BY <1>4, <2>1 DEF ResumeAllowed, Return, ResumeLoopInv, ResumeTrueComplete
  <2>2. /\ replies # << >> /\ IsAnswer(Head(replies)) /\ fid' = Head(replies).id
        /\ i' = FirstUnsent(ChunkCount(FileSize[file], chunk_size), Head(replies).n)
        /\ UNCHANGED <<file, chunk_size, got, granted>>
    BY <1>4 DEF ResumeAllowed, Received, Expected, IsAnswer
  <2>3. 1 \in 1..Len(replies) /\ Head(replies) = replies[1]
    BY <2>2, HeadType DEF TypeOK, NetTypeOK
  <2>4. Tells(Head(replies), granted, got)
    BY <2>2, <2>3 DEF AnswerInv
  <2>5. PICK h \in Nat : /\ h <= Len(got[fid']) /\ h <= ChunkCount(FileSize[file], ChunkSize)
                         /\ Head(replies).n = ChunkCount(FileSize[file], ChunkSize) - h
    BY <2>2, <2>4 DEF Tells
  <2>6. i' = h
    BY <2>2, <2>5, FirstAfterHeld DEF TypeOK, CallTypeOK
  <2> QED BY <2>2, <2>5, <2>6
<1>5. CASE ChunkAcked /\ op = "resume"
  <2>1. /\ pc' = "save" /\ replies # << >> /\ AckValid(Head(replies))
        /\ UNCHANGED <<i, fid, file, op, chunk_size, got, granted>>
    BY <1>5 DEF ChunkAcked, ZeroSized
  <2>2. i < Len(got[fid])
    BY <2>1, AckedIsHeld
  <2> QED BY <2>1, <2>2 DEF ResumeLoopInv, ResumeTrueComplete
<1>6. CASE ResumeSaves
  <2>1. pc = "save" /\ pc' = "chunk" /\ i' = i + 1 /\ UNCHANGED <<fid, file, op, chunk_size, got, granted>>
    BY <1>6 DEF ResumeSaves
  <2>2. fid \in Ids /\ i \in Nat /\ Len(got[fid]) \in Nat
    BY <2>1 DEF TypeOK, CallTypeOK, ServerTypeOK
  <2> QED BY <2>1, <2>2 DEF ResumeLoopInv, ResumeTrueComplete
<1>7. CASE Finish /\ op = "resume"
  <2>1. /\ pc = "chunk" /\ pc' = "idle" /\ ~MoreChunks
        /\ UNCHANGED <<op, file, fid, chunk_size, i, got, granted>>
    BY <1>7 DEF Finish, Return
  <2>2. fid \in Ids /\ i \in Nat /\ Len(got[fid]) \in Nat /\ file \in Files
    BY <2>1 DEF TypeOK, CallTypeOK, ServerTypeOK
  <2>3. chunk_size = ChunkSize => ChunkCount(FileSize[file], ChunkSize) <= i
    BY <2>1, <2>2, CountFits DEF MoreChunks
  <2>4. ChunkCount(FileSize[file], ChunkSize) \in Nat
    BY <2>2, CountFits
  <2> QED BY <2>1, <2>2, <2>3, <2>4 DEF ResumeLoopInv, ResumeTrueComplete
<1>8. CASE UNCHANGED <<pc, result, callVars, i, serverVars>>
  BY <1>8 DEF ResumeLoopInv, ResumeTrueComplete
<1>9. CASE SendChunk
  <2>1. UNCHANGED granted
    BY <1>9 DEF SendChunk, StoreChunk, Lost
  <2> QED BY <1>3, <1>9, <2>1 DEF SendChunk
<1>10. CASE ReadFails \/ AckFails
  <2>1. CASE pc' = "idle"
    BY <1>2, <1>10, <2>1 DEF ReadFails, AckFails, AttemptFails, Return
  <2>2. CASE pc' # "idle"
    BY <1>3, <1>10, <2>2 DEF ReadFails, AckFails, AttemptFails, Return
  <2> QED BY <2>1, <2>2
<1>11. CASE Call
  BY <1>2, <1>11 DEF Call, CallUpload, CallResume, Begin
<1>12. CASE ResponseFails \/ Denied \/ ResumeDividesByZero \/ Killed
  BY <1>2, <1>12 DEF ResponseFails, Denied, ResumeDividesByZero, Killed, Return
<1>13. CASE UploadAllowed \/ ((ChunkAcked \/ Finish) /\ op = "upload")
  BY <1>1, <1>13 DEF UploadAllowed, ChunkAcked, Finish
<1>14. CASE Relogin \/ LinkDies \/ UNCHANGED vars
  BY <1>8, <1>14 DEF Relogin, LinkDies, vars
<1>15. op \in {"upload", "resume"}
  BY DEF TypeOK, CallTypeOK
<1> QED
  BY <1>4, <1>5, <1>6, <1>7, <1>9, <1>10, <1>11, <1>12, <1>13, <1>14, <1>15 DEF Next, Step

(* A resume that returns true, for the file that the answer was about and  *)
(* with the chunk size of the server, has left out no chunk of the file    *)
(* (ftc 1032-1043).                                                        *)
THEOREM ResumeComplete == Spec => []ResumeTrueComplete
<1>1. Init => ResumeInv
  BY InitType DEF Init, ResumeInv, AckInv, AnswerInv, ResumeLoopInv, ResumeTrueComplete
<1>2. ResumeInv /\ [Next]_vars => ResumeInv'
  BY NextType, NextAckInv, NextAnswerInv, NextResumeLoop DEF ResumeInv
<1>3. ResumeInv => ResumeTrueComplete
  BY DEF ResumeInv
<1> QED BY <1>1, <1>2, <1>3, PTL DEF Spec

=============================================================================
