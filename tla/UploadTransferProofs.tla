------------------------ MODULE UploadTransferProofs ------------------------
(***************************************************************************)
(* Upload implements Transfer.                                             *)
(***************************************************************************)
EXTENDS UploadProofs

Sealed == {id \in Ids : granted[id] # Absent /\ ~Referenced(id)}

Responses == {"UPLOAD_RESPONSE", "RESUME_RESPONSE"}

(* An answer that names the id is still to come. *)
Awaited(id) == \E k \in 1..Len(replies) : replies[k].type \in Responses /\ replies[k].id = id

LEMMA ReferencedParts ==
  ASSUME NEW id
  PROVE  /\ Referenced(id) <=> (pc # "idle" /\ fid = id) \/ Saved(id) \/ Awaited(id)
         /\ Referenced(id)' <=> (pc' # "idle" /\ fid' = id) \/ Saved(id)' \/ Awaited(id)'
BY DEF Referenced, Saved, Awaited, Responses

-----------------------------------------------------------------------------
(* What a step does to the checkpoints, to the replies and to the ids *)

LEMMA DiskSteps ==
  ASSUME [Next]_vars
  PROVE  \/ UNCHANGED diskVars
         \/ buf' = Absent /\ UNCHANGED ckp
         \/ CloseState
         \/ RemoveState
         \/ pc # "idle" /\ SaveProgress
         \/ UNCHANGED buf /\ ckp' = [ckp EXCEPT ![Stem[file]] = EmptyRecord]
         \/ pc # "idle" /\ UNCHANGED buf /\ ckp' = [ckp EXCEPT ![Stem[file]] = [id |-> fid, size |-> i]]
<1> USE DEF diskVars
<1>1. CASE Call
  BY <1>1 DEF Call, CallUpload, CallResume, Begin
<1>2. CASE ResponseFails \/ Denied \/ UploadAllowed \/ ResumeAllowed \/ ResumeDividesByZero \/ SendChunk
  BY <1>2 DEF ResponseFails, Denied, UploadAllowed, ResumeAllowed, ResumeDividesByZero, SendChunk
<1>3. CASE ReadFails \/ AckFails
  BY <1>3 DEF ReadFails, AckFails, AttemptFails
<1>4. CASE ChunkAcked
  BY <1>4 DEF ChunkAcked
<1>5. CASE ResumeSaves \/ Finish
  BY <1>5 DEF ResumeSaves, Finish
<1>6. CASE Killed \/ Relogin \/ LinkDies \/ UNCHANGED vars
  BY <1>6 DEF Killed, Relogin, LinkDies, vars
<1> QED BY <1>1, <1>2, <1>3, <1>4, <1>5, <1>6 DEF Next, Step

LEMMA SavedKept ==
  ASSUME TypeOK, [Next]_vars, NEW id \in Ids, ~Saved(id), pc # "idle" => fid # id
  PROVE  ~Saved(id)'
<1>1. ckp \in [Stems -> Record \cup {Absent}] /\ Stem[file] \in Stems /\ NoId # id
  BY NamesAssumption DEF TypeOK, DiskTypeOK, CallTypeOK, Stems
<1>2. CASE UNCHANGED diskVars \/ (buf' = Absent /\ UNCHANGED ckp)
  BY <1>2 DEF Saved, diskVars
<1>3. CASE CloseState
  BY <1>1, <1>3 DEF CloseState, Saved
<1>4. CASE RemoveState
  BY <1>1, <1>4 DEF RemoveState, Saved
<1>5. CASE pc # "idle" /\ SaveProgress
  BY <1>1, <1>5 DEF SaveProgress, Saved
<1>6. CASE UNCHANGED buf /\ ckp' = [ckp EXCEPT ![Stem[file]] = EmptyRecord]
  BY <1>1, <1>6 DEF EmptyRecord, Saved
<1>7. CASE pc # "idle" /\ UNCHANGED buf /\ ckp' = [ckp EXCEPT ![Stem[file]] = [id |-> fid, size |-> i]]
  BY <1>1, <1>7 DEF Saved
<1> QED BY <1>2, <1>3, <1>4, <1>5, <1>6, <1>7, DiskSteps

LEMMA ChunkReply ==
  ASSUME NEW seg, StoreChunk(seg)
  PROVE  \E r : Post(r) /\ r.type \notin Responses
<1>1. PICK t \in {"FILE_CHUNK_ACK", "ERR_PACKET"}, ok \in BOOLEAN : Post(Answer(t, fid, ok, i, 0))
  BY DEF StoreChunk
<1>2. Answer(t, fid, ok, i, 0).type = t
  BY DEF Answer
<1> QED BY <1>1, <1>2 DEF Responses

(* Replies go, or one comes; an answer names an id that is granted just    *)
(* now, or that is in a checkpoint.                                        *)
LEMMA ReplySteps ==
  ASSUME TypeOK, [Next]_vars
  PROVE  \/ Shrinks
         \/ \E r : /\ Post(r)
                   /\ r.type \in Responses =>
                        r.id \notin Ids \/ granted[r.id] = Absent \/ Saved(r.id)
<1> USE DEF netVars
<1>1. ASSUME NEW t \in Responses, Refuse(t) PROVE \E r : Post(r) /\ r.id \notin Ids
  BY <1>1, RefuseReply, NamesAssumption DEF Responses
<1>2. ASSUME NEW f \in Files, CallUpload(f)
      PROVE  \/ Shrinks
             \/ \E r : Post(r) /\ (r.id \notin Ids \/ granted[r.id] = Absent)
  <2>1. ASSUME NEW id \in Ids, Grant(id) PROVE \E r : Post(r) /\ granted[r.id] = Absent
    <3>1. Answer("UPLOAD_RESPONSE", id, TRUE, 0, 0).id = id
      BY DEF Answer
    <3> QED BY <2>1, <3>1 DEF Grant
  <2>2. CASE Refuse("UPLOAD_RESPONSE")
    BY <2>2, <1>1 DEF Responses
  <2>3. CASE Lost
    BY <2>3 DEF Lost, Shrinks
  <2> QED BY <1>2, <2>1, <2>2, <2>3 DEF CallUpload
<1>3. ASSUME NEW f \in Files, CallResume(f)
      PROVE  \/ Shrinks
             \/ \E r : Post(r) /\ (r.id \notin Ids \/ Saved(r.id))
  <2>1. CASE AllowResume(ckp[Stem[f]].id)
    <3>1. ckp[Stem[f]] # Absent /\ Stem[f] \in Stems
      BY <1>3 DEF CallResume, Stems
    <3>2. Saved(ckp[Stem[f]].id)
      BY <3>1 DEF Saved
    <3> QED BY <2>1, <3>2, AllowResumeReply
  <2>2. CASE Refuse("RESUME_RESPONSE")
    BY <2>2, <1>1 DEF Responses
  <2>3. CASE Lost
    BY <2>3 DEF Lost, Shrinks
  <2> QED BY <1>3, <2>1, <2>2, <2>3 DEF CallResume
<1>4. CASE SendChunk
  BY <1>4, ChunkReply DEF SendChunk, Lost, Shrinks
<1>5. CASE ResponseFails \/ AckFails
  BY <1>5 DEF ResponseFails, AckFails, NothingReceived, Received, Shrinks, Consume
<1>6. CASE Denied \/ UploadAllowed \/ ResumeAllowed \/ ResumeDividesByZero \/ ChunkAcked
  BY <1>6 DEF Denied, UploadAllowed, ResumeAllowed, ResumeDividesByZero, ChunkAcked, Received, Shrinks
<1>7. CASE ReadFails \/ ResumeSaves \/ Finish
  BY <1>7 DEF ReadFails, ResumeSaves, Finish, Shrinks
<1>8. CASE Killed \/ Relogin \/ LinkDies \/ UNCHANGED vars
  BY <1>8 DEF Killed, Relogin, LinkDies, vars, Shrinks
<1> QED BY <1>2, <1>3, <1>4, <1>5, <1>6, <1>7, <1>8 DEF Next, Call, Step

LEMMA AwaitedShrinks ==
  ASSUME TypeOK, Shrinks, NEW id, ~Awaited(id)
  PROVE  ~Awaited(id)'
<1>1. PICK d \in {0, 1} : \A k \in 1..Len(replies') : k + d \in 1..Len(replies) /\ replies'[k] = replies[k + d]
  BY ShrinkElements DEF TypeOK
<1> QED BY <1>1 DEF Awaited

LEMMA AwaitedPosted ==
  ASSUME TypeOK, NEW r, Post(r), NEW id, ~Awaited(id), r.type \notin Responses \/ r.id # id
  PROVE  ~Awaited(id)'
<1>1. /\ Len(replies') = Len(replies) + 1 /\ Len(replies) \in Nat
      /\ replies'[Len(replies) + 1] = r
      /\ \A k \in 1..Len(replies) : replies'[k] = replies[k]
  BY AppendElements DEF TypeOK
<1>2. \A k \in 1..Len(replies') : k \in 1..Len(replies) \/ k = Len(replies) + 1
  BY <1>1
<1> QED BY <1>1, <1>2 DEF Awaited

LEMMA AwaitedKept ==
  ASSUME TypeOK, [Next]_vars, NEW id \in Ids, granted[id] # Absent, ~Saved(id), ~Awaited(id)
  PROVE  ~Awaited(id)'
<1>1. CASE Shrinks
  BY <1>1, AwaitedShrinks
<1>2. ASSUME NEW r, Post(r),
             r.type \in Responses => r.id \notin Ids \/ granted[r.id] = Absent \/ Saved(r.id)
      PROVE  ~Awaited(id)'
  <2>1. r.type \notin Responses \/ r.id # id
    BY <1>2
  <2> QED BY <1>2, <2>1, AwaitedPosted
<1> QED BY <1>1, <1>2, ReplySteps

-----------------------------------------------------------------------------
(* The control of a call *)

LEMMA IdSteps ==
  ASSUME [Next]_vars, pc' # "idle"
  PROVE  \/ fid' = fid /\ pc # "idle"
         \/ fid' = NoId
         \/ replies # << >> /\ Head(replies).type \in Responses /\ fid' = Head(replies).id
<1> USE DEF callVars
<1>1. CASE Call
  BY <1>1 DEF Call, CallUpload, CallResume, Begin
<1>2. CASE ResponseFails \/ Denied \/ ResumeDividesByZero \/ SendChunk \/ Finish \/ ResumeSaves
  BY <1>2 DEF ResponseFails, Denied, ResumeDividesByZero, SendChunk, Finish, ResumeSaves, Return
<1>3. CASE UploadAllowed \/ ResumeAllowed
  BY <1>3 DEF UploadAllowed, ResumeAllowed, Received, Expected, Responses
<1>4. CASE ReadFails \/ AckFails \/ ChunkAcked
  BY <1>4 DEF ReadFails, AckFails, ChunkAcked
<1>5. CASE Killed \/ Relogin \/ LinkDies \/ UNCHANGED vars
  BY <1>5 DEF Killed, Relogin, LinkDies, vars, Return
<1> QED BY <1>1, <1>2, <1>3, <1>4, <1>5 DEF Next, Step

LEMMA GrantedKept ==
  ASSUME TypeOK, [Next]_vars, NEW id \in Ids, granted[id] # Absent
  PROVE  granted'[id] = granted[id]
<1> USE DEF serverVars
<1>1. CASE Call
  BY <1>1 DEF Call, CallUpload, CallResume, Grant, Refuse, Lost, AllowResume, TypeOK, ServerTypeOK
<1>2. CASE Step
  BY <1>2 DEF Step, ResponseFails, Denied, UploadAllowed, ResumeAllowed, ResumeDividesByZero,
     SendChunk, StoreChunk, Lost, ReadFails, AckFails, ChunkAcked, ResumeSaves, Finish
<1>3. CASE Killed \/ Relogin \/ LinkDies \/ UNCHANGED vars
  BY <1>3 DEF Killed, Relogin, LinkDies, vars
<1> QED BY <1>1, <1>2, <1>3 DEF Next

(* Calls begin, go on, end; and between them nothing is stored. *)
Begins == /\ pc = "idle" /\ pc' = "response" /\ op' \in {"upload", "resume"} /\ file' \in Files
          /\ result' = "none" /\ UNCHANGED got
Rests == pc = "idle" /\ pc' = "idle" /\ UNCHANGED <<result, got>>
Goes == /\ pc # "idle" /\ pc' # "idle" /\ UNCHANGED <<op, file, result>>
        /\ UNCHANGED got \/ (fid \in Ids /\ got' = [got EXCEPT ![fid] = got'[fid]])
Ends == /\ pc # "idle" /\ pc' = "idle" /\ UNCHANGED <<op, file, got>>
        /\ result' \in {"true", "false", "threw", "killed"}

LEMMA StoreOne ==
  ASSUME TypeOK, pc = "chunk", NEW seg, StoreChunk(seg)
  PROVE  UNCHANGED got \/ (fid \in Ids /\ got' = [got EXCEPT ![fid] = got'[fid]])
<1>1. fid \in Ids /\ got \in [Ids -> Seq(Segment)]
  BY DEF TypeOK, CallTypeOK, ServerTypeOK
<1>2. ASSUME NEW s, got' = [got EXCEPT ![fid] = s] PROVE got' = [got EXCEPT ![fid] = got'[fid]]
  BY <1>1, <1>2
<1>3. CASE got' = [got EXCEPT ![fid] = Append(@, seg)]
  BY <1>1, <1>2, <1>3
<1>4. CASE got' = [got EXCEPT ![fid][i + 1] = seg]
  BY <1>1, <1>2, <1>4
<1> QED BY <1>1, <1>3, <1>4 DEF StoreChunk

LEMMA CallSteps == ASSUME TypeOK, [Next]_vars PROVE Begins \/ Rests \/ Goes \/ Ends
<1> USE DEF callVars, serverVars, Begins, Rests, Goes, Ends, Return
<1>1. ASSUME NEW f \in Files, CallUpload(f) \/ CallResume(f) PROVE Begins
  BY <1>1 DEF CallUpload, CallResume, Begin, Grant, Refuse, Lost, AllowResume
<1>2. CASE ResponseFails \/ Denied \/ ResumeDividesByZero
  BY <1>2 DEF ResponseFails, Denied, ResumeDividesByZero
<1>3. CASE UploadAllowed \/ ResumeAllowed
  BY <1>3 DEF UploadAllowed, ResumeAllowed
<1>4. CASE SendChunk
  BY <1>4, StoreOne DEF SendChunk, Lost
<1>5. CASE ReadFails \/ AckFails
  BY <1>5 DEF ReadFails, AckFails, AttemptFails
<1>6. CASE ChunkAcked
  BY <1>6 DEF ChunkAcked
<1>7. CASE ResumeSaves \/ Finish
  BY <1>7 DEF ResumeSaves, Finish
<1>8. CASE Killed \/ Relogin
  BY <1>8 DEF Killed, Relogin
<1>9. CASE LinkDies \/ UNCHANGED vars
  BY <1>9 DEF LinkDies, vars
<1> QED BY <1>1, <1>2, <1>3, <1>4, <1>5, <1>6, <1>7, <1>8, <1>9 DEF Next, Call, Step

(* What is sealed stays sealed. *)
LEMMA SealedKept == ASSUME TypeOK, [Next]_vars PROVE Sealed \subseteq Sealed'
<1> SUFFICES ASSUME NEW id \in Ids, granted[id] # Absent, ~Referenced(id)
             PROVE  granted'[id] # Absent /\ ~Referenced(id)'
  BY DEF Sealed
<1>1. (pc # "idle" => fid # id) /\ ~Saved(id) /\ ~Awaited(id)
  BY ReferencedParts
<1>2. ~Saved(id)' /\ ~Awaited(id)'
  BY <1>1, SavedKept, AwaitedKept
<1>3. pc' # "idle" => fid' # id
  <2>1. replies # << >> /\ Head(replies).type \in Responses => Head(replies).id # id
    <3>1. replies # << >> => Head(replies) = replies[1] /\ 1 \in 1..Len(replies)
      BY DEF TypeOK, NetTypeOK
    <3> QED BY <1>1, <3>1 DEF Awaited
  <2> QED BY <1>1, <2>1, IdSteps, NamesAssumption
<1>4. granted'[id] # Absent
  BY GrantedKept
<1> QED BY <1>2, <1>3, <1>4, ReferencedParts

-----------------------------------------------------------------------------
(* While UploadFile stores a file, nothing but its own checkpoint file     *)
(* leads to the id.                                                        *)

Alone ==
  op = "upload" /\ pc \in {"chunk", "ack"} =>
    /\ ~Awaited(fid)
    /\ \A s \in Stems : ckp[s] # Absent /\ ckp[s].id = fid => s = Stem[file] /\ ~ZeroSized

LEMMA NextAlone == ASSUME TypeOK, IdInv, OwnInv, Alone, [Next]_vars PROVE Alone'
<1> SUFFICES ASSUME op' = "upload", pc' \in {"chunk", "ack"}
             PROVE  /\ ~Awaited(fid)'
                    /\ \A s \in Stems : ckp'[s] # Absent /\ ckp'[s].id = fid' => s = Stem[file'] /\ ~ZeroSized'
  BY DEF Alone
<1> USE DEF callVars, diskVars, loopVars, netVars
<1>0. ckp \in [Stems -> Record \cup {Absent}] /\ Stem[file] \in Stems
  BY DEF TypeOK, DiskTypeOK, CallTypeOK, Stems
<1>1. ASSUME op = "upload", pc \in {"chunk", "ack"}, UNCHANGED <<op, file, fid>>,
             ~Awaited(fid)',
             UNCHANGED ckp \/ (~ZeroSized /\ \E r : ckp' = [ckp EXCEPT ![Stem[file]] = r])
      PROVE  /\ ~Awaited(fid)'
             /\ \A s \in Stems : ckp'[s] # Absent /\ ckp'[s].id = fid' => s = Stem[file'] /\ ~ZeroSized'
  BY <1>0, <1>1 DEF Alone, ZeroSized
<1>2. CASE UploadAllowed
  <2>1. /\ op = "upload" /\ replies # << >> /\ Consume /\ Head(replies).type = "UPLOAD_RESPONSE"
        /\ Head(replies).ok /\ fid' = Head(replies).id /\ UNCHANGED <<file, op>>
        /\ UNCHANGED ckp \/ ckp' = [ckp EXCEPT ![Stem[file]] = EmptyRecord]
    BY <1>2 DEF UploadAllowed, Received, Expected
  <2>2. Head(replies) = replies[1] /\ 1 \in 1..Len(replies) /\ Head(replies) \in Reply
    BY <2>1, HeadType DEF TypeOK, NetTypeOK
  <2>3. fid' \in Ids
    BY <2>1, <2>2, ReplyFields
  <2>4. Untouched(fid') /\ \A j \in 1..Len(replies) : j # 1 => replies[j].id # fid'
    BY <2>1, <2>2, <2>3 DEF IdInv, IsGrant
  <2>5. \A s \in Stems : ~(ckp'[s] # Absent /\ ckp'[s].id = fid')
    BY <1>0, <2>1, <2>3, <2>4, NamesAssumption DEF Untouched, Saved, EmptyRecord
  <2>6. \A k \in 1..Len(replies') : k + 1 \in 1..Len(replies) /\ replies'[k] = replies[k + 1]
    BY <2>1, TailElements DEF TypeOK
  <2>7. \A k \in 1..Len(replies') : replies'[k].id # fid'
    BY <2>4, <2>6
  <2> QED BY <2>5, <2>7 DEF Awaited
<1>3. CASE SendChunk
  <2>1. pc = "chunk" /\ op = "upload" /\ ~Awaited(fid) /\ UNCHANGED <<op, file, fid, ckp>>
    BY <1>3 DEF SendChunk, Alone
  <2>2. ~Awaited(fid)'
    <3>1. CASE Lost
      BY <2>1, <3>1 DEF Lost, Awaited
    <3>2. CASE \E seg : StoreChunk(seg)
      <4>1. PICK r : Post(r) /\ r.type \notin Responses
        BY <3>2, ChunkReply
      <4>2. ~Awaited(fid)'
        <5>1. /\ Len(replies') = Len(replies) + 1 /\ Len(replies) \in Nat
              /\ replies'[Len(replies) + 1] = r
              /\ \A k \in 1..Len(replies) : replies'[k] = replies[k]
          BY <4>1, AppendElements DEF TypeOK
        <5>2. \A k \in 1..Len(replies') : k \in 1..Len(replies) \/ k = Len(replies) + 1
          BY <5>1
        <5> QED BY <2>1, <4>1, <5>1, <5>2 DEF Awaited
      <4> QED BY <4>2
    <3> QED BY <1>3, <3>1, <3>2 DEF SendChunk
  <2> QED BY <1>1, <2>1, <2>2
<1>4. ASSUME op = "upload", pc \in {"chunk", "ack"}, UNCHANGED <<op, file, fid>>, Shrinks,
             UNCHANGED ckp \/ (~ZeroSized /\ \E r : ckp' = [ckp EXCEPT ![Stem[file]] = r])
      PROVE  /\ ~Awaited(fid)'
             /\ \A s \in Stems : ckp'[s] # Absent /\ ckp'[s].id = fid' => s = Stem[file'] /\ ~ZeroSized'
  <2>1. ~Awaited(fid)
    BY <1>4 DEF Alone
  <2>2. \A k \in 1..Len(replies') : ~(replies'[k].type \in Responses /\ replies'[k].id = fid)
    <3>1. PICK d \in {0, 1} : \A k \in 1..Len(replies') : k + d \in 1..Len(replies) /\ replies'[k] = replies[k + d]
      BY <1>4, ShrinkElements DEF TypeOK
    <3> QED BY <2>1, <3>1 DEF Awaited
  <2>3. ~Awaited(fid)'
    BY <1>4, <2>2 DEF Awaited
  <2> QED BY <1>1, <1>4, <2>3
<1>5. CASE ReadFails \/ AckFails
  BY <1>4, <1>5 DEF ReadFails, AckFails, AttemptFails, NothingReceived, Received, Shrinks, Return, CloseState
<1>6. CASE ChunkAcked
  BY <1>4, <1>6 DEF ChunkAcked, SaveProgress, Shrinks, Return
<1>7. CASE LinkDies \/ UNCHANGED vars
  BY <1>4, <1>7 DEF LinkDies, vars, Shrinks
<1>8. CASE Call \/ ResponseFails \/ Denied \/ ResumeAllowed \/ ResumeDividesByZero
  BY <1>8 DEF Call, CallUpload, CallResume, Begin, ResponseFails, Denied, ResumeAllowed,
     ResumeDividesByZero, Return
<1>9. CASE ResumeSaves \/ Finish \/ Killed \/ Relogin
  BY <1>9 DEF ResumeSaves, Finish, Killed, Relogin, Return, OwnInv
<1> QED BY <1>2, <1>3, <1>5, <1>6, <1>7, <1>8, <1>9 DEF Next, Step

(* The id of an upload that returns true is sealed by this very step. *)
LEMMA SuccessSeals ==
  ASSUME Inv, Inv', Alone, [Next]_vars, pc # "idle", pc' = "idle", op = "upload", result' = "true"
  PROVE  \E id \in Sealed' \ Sealed : IsUploaded(got[id], file)
<1> USE DEF callVars, diskVars, loopVars, netVars, serverVars
<1>0. TypeOK /\ OwnInv
  BY DEF Inv
<1>1. CASE ChunkAcked \/ Finish
  <2>1. /\ pc \in {"chunk", "ack"} /\ UNCHANGED <<op, file, fid, granted, got>> /\ Shrinks
        /\ (ZeroSized /\ UNCHANGED <<ckp, buf>>)
           \/ (ckp' = [ckp EXCEPT ![Stem[file]] = Absent] /\ buf' = Absent)
    BY <1>1 DEF ChunkAcked, Finish, RemoveState, Shrinks, Return
  <2>2. ~Awaited(fid) /\ \A s \in Stems : ckp[s] # Absent /\ ckp[s].id = fid => s = Stem[file] /\ ~ZeroSized
    BY <2>1 DEF Alone
  <2>3. \A k \in 1..Len(replies') : ~(replies'[k].type \in Responses /\ replies'[k].id = fid)
    <3>1. PICK d \in {0, 1} : \A k \in 1..Len(replies') : k + d \in 1..Len(replies) /\ replies'[k] = replies[k + d]
      BY <1>0, <2>1, ShrinkElements DEF TypeOK
    <3> QED BY <2>2, <3>1 DEF Awaited
  <2>4. buf' = Absent
    BY <1>0, <2>1 DEF OwnInv
  <2>5. \A s \in Stems : ~(ckp'[s] # Absent /\ ckp'[s].id = fid)
    BY <1>0, <2>1, <2>2 DEF TypeOK, DiskTypeOK
  <2>6. ~Saved(fid)' /\ ~Awaited(fid)'
    BY <2>1, <2>3, <2>4, <2>5 DEF Saved, Awaited
  <2>7. ~Referenced(fid)' /\ Referenced(fid)
    BY <2>6, ReferencedParts
  <2>8. fid \in Ids /\ granted'[fid] = file /\ IsUploaded(got[fid], file)
    BY <2>1 DEF Inv, UploadTrueExact, IsUploaded
  <2>9. granted'[fid] # Absent
    BY <1>0, <2>8, NamesAssumption DEF TypeOK, CallTypeOK
  <2>10. fid \in Sealed' /\ fid \notin Sealed
    BY <2>1, <2>7, <2>8, <2>9 DEF Sealed
  <2> QED BY <2>8, <2>10
<1>2. CASE \/ Call \/ ResponseFails \/ Denied \/ UploadAllowed \/ ResumeAllowed
           \/ ResumeDividesByZero \/ SendChunk \/ ReadFails \/ AckFails \/ ResumeSaves \/ Killed
  BY <1>2 DEF Call, CallUpload, CallResume, Begin, ResponseFails, Denied, UploadAllowed,
     ResumeAllowed, ResumeDividesByZero, SendChunk, ReadFails, AckFails, AttemptFails,
     ResumeSaves, Killed, Return
<1>3. CASE Relogin \/ LinkDies \/ UNCHANGED vars
  BY <1>3 DEF Relogin, LinkDies, vars
<1> QED BY <1>1, <1>2, <1>3 DEF Next, Step

-----------------------------------------------------------------------------
(* Each step of Upload is one of Transfer, or none. *)

LEMMA WriteUnsealed ==
  ASSUME TypeOK, Goes
  PROVE  UNCHANGED got \/ \E id \in Ids \ Sealed : got' = [got EXCEPT ![id] = got'[id]]
BY ReferencedParts DEF Goes, Sealed

LEMMA PromiseStep ==
  ASSUME Inv, Inv', Alone, [Next]_vars
  PROVE  [Promise!Next]_(Promise!vars)
<1>0. TypeOK /\ TypeOK' /\ file \in Files
  BY DEF Inv, TypeOK, CallTypeOK
<1>1. Sealed \subseteq Sealed'
  BY <1>0, SealedKept
<1>2. Promise!Seal
  BY <1>1 DEF Promise!Seal, Sealed
<1>3. CASE Begins
  BY <1>2, <1>3 DEF Begins, Promise!Next, Promise!Start, Phase
<1>4. CASE Rests
  BY <1>2, <1>4 DEF Rests, Promise!Next, Promise!Rest, Phase
<1>5. CASE Goes
  <2>1. UNCHANGED got \/ Promise!Write
    BY <1>0, <1>5, WriteUnsealed DEF Promise!Write, Sealed
  <2>2. Promise!Proceed
    BY <1>2, <1>5, <2>1 DEF Goes, Promise!Proceed, Phase
  <2> QED BY <2>2 DEF Promise!Next
<1>6. CASE Ends
  <2>1. ASSUME NEW r, result' = r PROVE Promise!End(r)
    BY <1>2, <1>6, <2>1 DEF Ends, Promise!End, Phase
  <2>2. CASE result' = "true"
    <3>1. op = "upload" => \E id \in Sealed' \ Sealed : IsUploaded(got[id], file)
      BY <1>6, <2>2, SuccessSeals DEF Ends
    <3>2. Promise!Succeed
      BY <1>6, <2>1, <2>2, <3>1 DEF Ends, Promise!Succeed, Phase, Sealed
    <3> QED BY <3>2 DEF Promise!Next
  <2>3. CASE result' \in {"false", "threw", "killed"}
    BY <2>1, <2>3 DEF Promise!Next, Promise!Fail
  <2> QED BY <1>6, <2>2, <2>3 DEF Ends
<1> QED BY <1>0, <1>3, <1>4, <1>5, <1>6, CallSteps

(* Upload implements Transfer: an upload that returns true has stored its  *)
(* file under an id of its own that no checkpoint file and no late answer  *)
(* leads to, so that nothing the client does later can overwrite it (ftc   *)
(* 172-307).                                                               *)
THEOREM UploadImplementsTransfer == Spec => PromiseKept
<1>1. Init => Promise!Init
  BY DEF Init, Promise!Init, Phase
<1>2. Init => Inv /\ Alone
  BY InitInv DEF Init, Alone
<1>3. Inv /\ Alone /\ [Next]_vars => Inv' /\ Alone'
  BY NextInv, NextAlone DEF Inv
<1>4. Inv /\ Inv' /\ Alone /\ [Next]_vars => [Promise!Next]_(Promise!vars)
  BY PromiseStep
<1> QED BY <1>1, <1>2, <1>3, <1>4, PTL DEF Spec, PromiseKept, Promise!Spec

=============================================================================
