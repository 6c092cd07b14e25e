--------------------------- MODULE DirectoryUpload ---------------------------
(***************************************************************************)
(* FileTransferClient::UploadDirectory and UploadDirectoryParallel (file_  *)
(* transfer_client.cpp 709-962): the files of a directory are uploaded one *)
(* after the other by the client itself, or by NumClients threads, each    *)
(* with a client, a connection and a session of its own.  The threads      *)
(* share failed_files, the global is_uploading_directory, the directory of *)
(* checkpoint files and the table of socket handles of the process.        *)
(*                                                                         *)
(* UploadFile is here what its callers and the other threads see of it:    *)
(* Upload has its retries and its packets.  Everything that goes over the  *)
(* network may fail at any time; it cannot succeed on a closed socket.     *)
(***************************************************************************)
EXTENDS Integers, Sequences, FiniteSets

CONSTANTS Files,        \* local files
          Chunks,       \* chunks of each; the bigger file has no fewer
          Stem,         \* fs::path::stem of each: names its checkpoint file
          Directories,  \* the sets of files a directory can hold
          NumClients,   \* num_clients: 4
          Handles,      \* socket handles the system gives out, again and again
          None,         \* INVALID_SOCKET; no owner
          Absent,       \* a checkpoint file that does not exist
          Empty         \* one that holds no record

Main == 0
Clients == 1..NumClients
Procs == 0..NumClients
Stems == {Stem[f] : f \in Files}

ASSUME ClientsAssumption == NumClients \in Nat \ {0}

ASSUME DirectoryAssumption ==
  /\ Chunks \in [Files -> Nat]
  /\ Directories \subseteq SUBSET Files
  /\ \A d \in Directories : IsFiniteSet(d)

ASSUME SpecialValues ==
  None \notin Handles /\ None \notin Procs /\ Absent \notin Files /\ Empty \notin Files

VARIABLES
  call,            \* "none", "single", "sequential" or "parallel": what main does
  pc,              \* where main and each thread are
  flag,            \* is_uploading_directory
  entries,         \* fileEntries, or the one file of a single upload
  i,               \* index of the loops over the clients
  startIndex, remainingFiles,
  clientFileEntries,  \* the share of each thread: entries first + 1 to last
  pos,             \* how many entries of its share a process is done with
  left,            \* chunks of the current file not yet acknowledged
  checksum,        \* whether the current file was announced with a checksum
  buf,             \* state_file: whether a record is written and not flushed
  ckp,             \* the checkpoint file of each stem: the file its record is of
  failed_files,    \* indices of entries
  failed_files_mutex,  \* who holds it
  seen,            \* failed_files as push_back found it
  m_socket,        \* of each thread's connection
  owner,           \* who opened each handle, None when it is closed
  m_is_connected,
  uploaded,        \* history: entries for which UploadFile returned true
  refused,         \* history: entries for which it returned false
  halfway,         \* history: those of them with an acknowledged chunk
  threw,           \* history: processes whose last call ended in an exception
  unconnected,     \* history: threads whose connect was refused
  spoilt           \* history: the last UploadDirectory threw

shareVars   == <<i, startIndex, remainingFiles, clientFileEntries>>
fileVars    == <<left, buf, ckp>>
failedVars  == <<failed_files, failed_files_mutex, seen>>
socketVars  == <<m_socket, owner, m_is_connected, unconnected>>
historyVars == <<uploaded, refused, halfway, threw, spoilt>>
vars == <<call, pc, flag, entries, shareVars, pos, checksum, fileVars, failedVars,
          socketVars, historyVars>>

-----------------------------------------------------------------------------
(* Entries and shares *)

(* stable_sort by falling size; files of one size come in any order. *)
Sorted(d) ==
  {e \in [1..Cardinality(d) -> d] :
     /\ \A j, k \in 1..Cardinality(d) : j # k => e[j] # e[k]
     /\ \A j, k \in 1..Cardinality(d) : j < k => Chunks[e[j]] >= Chunks[e[k]]}

First(p) == IF p = Main THEN 0 ELSE clientFileEntries[p].first
Last(p) == IF p = Main THEN Len(entries) ELSE clientFileEntries[p].last

Share(p) == (First(p) + 1)..Last(p)

Current(p) == First(p) + pos[p] + 1      \* index of the entry p is at

More(p) == Current(p) <= Last(p)

File(p) == entries[Current(p)]

(* Mutants of EndIndex: the files that are left over go to no one; one too *)
(* many for each thread                                                    *)
EvenEnd == startIndex + Len(entries) \div NumClients
GreedyEnd == startIndex + Len(entries) \div NumClients + 1

EndIndex ==
  startIndex + Len(entries) \div NumClients + (IF remainingFiles > 0 THEN 1 ELSE 0)

-----------------------------------------------------------------------------
(* Sockets *)

(* The connection of p works as long as nobody else closed its handle. *)
Alive(p) == p \in Clients => m_socket[p] # None /\ owner[m_socket[p]] = p

Closed(h) == IF h = None THEN owner ELSE [owner EXCEPT ![h] = None]

(* Mutant of Disconnect: the handle is kept *)
DisconnectKeepsHandle(p) ==
  /\ owner' = Closed(m_socket[p])
  /\ m_is_connected' = [m_is_connected EXCEPT ![p] = FALSE]
  /\ UNCHANGED <<m_socket, unconnected>>

Disconnect(p) ==
  /\ owner' = Closed(m_socket[p])
  /\ m_socket' = [m_socket EXCEPT ![p] = None]
  /\ m_is_connected' = [m_is_connected EXCEPT ![p] = FALSE]
  /\ UNCHANGED unconnected

-----------------------------------------------------------------------------
(* How UploadFile ends, for the thread, the loop of UploadDirectory or the *)
(* user.                                                                   *)

Goto(p, place) == pc' = [pc EXCEPT ![p] = place]

Advance(p) == pos' = [pos EXCEPT ![p] = @ + 1]

EndCall == call' = "none" /\ Goto(Main, "idle")

ReturnTrue(p) ==
  /\ uploaded' = uploaded \cup {Current(p)}
  /\ IF call = "single" THEN EndCall ELSE Goto(p, "next") /\ UNCHANGED call
  /\ Advance(p)
  /\ UNCHANGED <<flag, failedVars, refused, halfway, threw, spoilt>>

ReturnFalse(p, sent) ==
  /\ refused' = refused \cup {Current(p)}
  /\ halfway' = IF sent THEN halfway \cup {Current(p)} ELSE halfway
  /\ CASE call = "single" ->
            EndCall /\ Advance(p) /\ UNCHANGED failed_files
       [] call = "sequential" ->
            /\ Goto(p, "next") /\ Advance(p)
            /\ failed_files' = failed_files \cup {Current(p)}
            /\ UNCHANGED call
       [] call = "parallel" ->
            Goto(p, "lock") /\ UNCHANGED <<call, pos, failed_files>>
  /\ UNCHANGED <<flag, failed_files_mutex, seen, uploaded, threw, spoilt>>

(* An exception leaves UploadDirectory, past the reset of the flag, or is  *)
(* caught at the end of the thread.                                        *)
Throw(p) ==
  /\ threw' = threw \cup {p}
  /\ IF p = Main THEN EndCall ELSE Goto(p, "unwind") /\ UNCHANGED call
  /\ spoilt' = IF call = "sequential" THEN TRUE ELSE spoilt
  /\ UNCHANGED <<flag, pos, failedVars, uploaded, refused, halfway>>

-----------------------------------------------------------------------------
(* UploadFile *)

InUpload(p) == pc[p] = "next" /\ More(p)

(* Mutant of HasOpen: the file is removed before the stream is closed *)
HasOpenToTheEnd(p, s) == pc[p] \in {"chunk", "remove"} /\ Stem[File(p)] = s

(* The stream of the checkpoint file is open from the answer on. *)
HasOpen(p, s) == pc[p] = "chunk" /\ Stem[File(p)] = s

Flushed(p) == IF buf[p] THEN [ckp EXCEPT ![Stem[File(p)]] = File(p)] ELSE ckp

(* Mutant of CloseState: the buffered record is dropped *)
CloseUnflushed(p) == UNCHANGED ckp /\ buf' = [buf EXCEPT ![p] = FALSE]

CloseState(p) == ckp' = Flushed(p) /\ buf' = [buf EXCEPT ![p] = FALSE]

(* Mutant of Announced: the flag is not looked at *)
AlwaysAnnounced == TRUE

(* The checksum is calculated unless a directory is being uploaded. *)
Announced == ~flag

Announce(p) == checksum' = [checksum EXCEPT ![p] = Announced]

RequestThrows(p) ==
  /\ InUpload(p)
  /\ Announce(p)
  /\ Throw(p)
  /\ UNCHANGED <<entries, shareVars, fileVars, socketVars>>

RequestDenied(p) ==
  /\ InUpload(p) /\ Alive(p)
  /\ Announce(p)
  /\ ReturnFalse(p, FALSE)
  /\ UNCHANGED <<entries, shareVars, fileVars, socketVars>>

(* An empty file is one empty chunk; its failure is an exception. *)
EmptyFileAcked(p) ==
  /\ InUpload(p) /\ Alive(p) /\ Chunks[File(p)] = 0
  /\ Announce(p)
  /\ ReturnTrue(p)
  /\ UNCHANGED <<entries, shareVars, fileVars, socketVars>>

(* The checkpoint file is opened and truncated, also when another thread   *)
(* has it open; then the file is opened.                                   *)
UploadAllowed(p) ==
  /\ InUpload(p) /\ Alive(p) /\ Chunks[File(p)] > 0
  /\ Announce(p)
  /\ ckp' = [ckp EXCEPT ![Stem[File(p)]] = Empty]
  /\ \/ /\ Goto(p, "chunk")
        /\ left' = [left EXCEPT ![p] = Chunks[File(p)]]
        /\ UNCHANGED <<call, flag, pos, failedVars, historyVars>>
     \/ Throw(p) /\ UNCHANGED left
  /\ UNCHANGED <<entries, shareVars, buf, socketVars>>

(* A chunk is acknowledged: seekp flushes the record before this one. *)
ChunkAcked(p) ==
  /\ pc[p] = "chunk" /\ left[p] > 0 /\ Alive(p)
  /\ left' = [left EXCEPT ![p] = @ - 1]
  /\ ckp' = Flushed(p)
  /\ buf' = [buf EXCEPT ![p] = TRUE]
  /\ UNCHANGED <<call, pc, flag, entries, shareVars, pos, checksum, failedVars,
                 socketVars, historyVars>>

ChunkGivenUp(p) ==
  /\ pc[p] = "chunk" /\ left[p] > 0
  /\ ReturnFalse(p, left[p] < Chunks[File(p)])
  /\ CloseState(p)
  /\ UNCHANGED <<entries, shareVars, checksum, left, socketVars>>

(* state_file.close(): the file exists, as this thread has it open. *)
CloseCheckpoint(p) ==
  /\ pc[p] = "chunk" /\ left[p] = 0
  /\ CloseState(p)
  /\ Goto(p, "remove")
  /\ UNCHANGED <<call, flag, entries, shareVars, pos, checksum, left, failedVars,
                 socketVars, historyVars>>

(* fs::remove throws while another thread has the file open. *)
RemoveCheckpoint(p) ==
  /\ pc[p] = "remove"
  /\ IF \E q \in Procs : HasOpen(q, Stem[File(p)])
     THEN Throw(p) /\ UNCHANGED ckp
     ELSE ReturnTrue(p) /\ ckp' = [ckp EXCEPT ![Stem[File(p)]] = Absent]
  /\ UNCHANGED <<entries, shareVars, checksum, left, buf, socketVars>>

UploadStep(p) ==
  \/ RequestThrows(p) \/ RequestDenied(p) \/ EmptyFileAcked(p) \/ UploadAllowed(p)
  \/ ChunkAcked(p) \/ ChunkGivenUp(p) \/ CloseCheckpoint(p) \/ RemoveCheckpoint(p)

-----------------------------------------------------------------------------
(* The calls *)

NoShare == [first |-> 0, last |-> 0]

Init ==
  /\ call = "none" /\ pc = [p \in Procs |-> IF p = Main THEN "idle" ELSE "none"]
  /\ flag = FALSE
  /\ entries = << >>
  /\ i = 0 /\ startIndex = 0 /\ remainingFiles = 0
  /\ clientFileEntries = [p \in Clients |-> NoShare]
  /\ pos = [p \in Procs |-> 0]
  /\ left = [p \in Procs |-> 0]
  /\ checksum = [p \in Procs |-> FALSE] /\ buf = [p \in Procs |-> FALSE]
  /\ ckp = [s \in Stems |-> Absent]
  /\ failed_files = {} /\ failed_files_mutex = None /\ seen = [p \in Clients |-> {}]
  /\ m_socket = [p \in Clients |-> None] /\ owner = [h \in Handles |-> None]
  /\ m_is_connected = [p \in Clients |-> FALSE]
  /\ uploaded = {} /\ refused = {} /\ halfway = {} /\ threw = {}
  /\ unconnected = {} /\ spoilt = FALSE

Begin(kind, e) ==
  /\ call = "none"
  /\ call' = kind /\ entries' = e
  /\ i' = 0 /\ startIndex' = 0
  /\ remainingFiles' = IF kind = "parallel" THEN Len(e) % NumClients ELSE 0
  /\ clientFileEntries' = [p \in Clients |-> NoShare]
  /\ pos' = [p \in Procs |-> 0]
  /\ left' = [p \in Procs |-> 0] /\ checksum' = [p \in Procs |-> FALSE]
  /\ failed_files' = {}
  /\ uploaded' = {} /\ refused' = {} /\ halfway' = {} /\ threw' = {}
  /\ unconnected' = {}
  /\ UNCHANGED <<buf, ckp, failed_files_mutex, seen, m_socket, owner, m_is_connected,
                 spoilt>>

(* The user uploads one file. *)
CallUpload(f) ==
  /\ Begin("single", <<f>>)
  /\ Goto(Main, "next")
  /\ UNCHANGED flag

(* UploadDirectory, after ScanDirectory; a directory it cannot scan, or    *)
(* one without files, changes nothing.                                     *)
CallUploadDirectory(d) ==
  /\ d # {}
  /\ \E e \in Sorted(d) : Begin("sequential", e)
  /\ Goto(Main, "next")
  /\ flag' = TRUE

FinishDirectory ==
  /\ call = "sequential" /\ pc[Main] = "next" /\ ~More(Main)
  /\ EndCall
  /\ flag' = FALSE /\ spoilt' = FALSE
  /\ UNCHANGED <<entries, shareVars, pos, checksum, fileVars, failedVars, socketVars,
                 uploaded, refused, halfway, threw>>

(* UploadDirectoryParallel, after ScanDirectory *)
CallUploadParallel(d) ==
  /\ d # {}
  /\ \E e \in Sorted(d) : Begin("parallel", e)
  /\ Goto(Main, "distribute")
  /\ flag' = TRUE

(* One round of the loop that distributes the files *)
Distribute ==
  /\ pc[Main] = "distribute" /\ i < NumClients
  /\ clientFileEntries' = [clientFileEntries EXCEPT
                            ![i + 1] = [first |-> startIndex, last |-> EndIndex]]
  /\ remainingFiles' = IF remainingFiles > 0 THEN remainingFiles - 1 ELSE 0
  /\ startIndex' = EndIndex
  /\ i' = i + 1
  /\ UNCHANGED <<call, pc, flag, entries, pos, checksum, fileVars, failedVars,
                 socketVars, historyVars>>

Distributed ==
  /\ pc[Main] = "distribute" /\ i = NumClients
  /\ Goto(Main, "start") /\ i' = 0
  /\ UNCHANGED <<call, flag, entries, startIndex, remainingFiles, clientFileEntries,
                 pos, checksum, fileVars, failedVars, socketVars, historyVars>>

StartThread ==
  /\ pc[Main] = "start"
  /\ i' = i + 1
  /\ pc' = [pc EXCEPT ![i + 1] = "socket",
                      ![Main] = IF i' = NumClients THEN "join" ELSE "start"]
  /\ UNCHANGED <<call, flag, entries, startIndex, remainingFiles, clientFileEntries,
                 pos, checksum, fileVars, failedVars, socketVars, historyVars>>

Join ==
  /\ pc[Main] = "join" /\ \A p \in Clients : pc[p] = "done"
  /\ call' = "none"
  /\ pc' = [p \in Procs |-> IF p = Main THEN "idle" ELSE "none"]
  /\ flag' = FALSE /\ spoilt' = FALSE
  /\ UNCHANGED <<entries, shareVars, pos, checksum, fileVars, failedVars, socketVars,
                 uploaded, refused, halfway, threw>>

-----------------------------------------------------------------------------
(* A thread *)

NoUpload == UNCHANGED <<flag, entries, shareVars, checksum, fileVars>>

Proceed(p, place) ==
  Goto(p, place) /\ UNCHANGED <<call, pos, failedVars, historyVars>>

(* socket() gives any handle that is closed. *)
OpenSocket(p) ==
  /\ pc[p] = "socket" /\ NoUpload
  /\ \/ /\ \E h \in Handles :
             /\ owner[h] = None
             /\ owner' = [owner EXCEPT ![h] = p]
             /\ m_socket' = [m_socket EXCEPT ![p] = h]
        /\ Proceed(p, "connect")
     \/ Throw(p) /\ UNCHANGED <<call, m_socket, owner>>
  /\ UNCHANGED <<m_is_connected, unconnected>>

ConnectSucceeds(p) ==
  /\ pc[p] = "connect" /\ NoUpload /\ Alive(p)
  /\ m_is_connected' = [m_is_connected EXCEPT ![p] = TRUE]
  /\ Proceed(p, "login")
  /\ UNCHANGED <<m_socket, owner, unconnected>>

(* The socket is closed, but m_socket keeps its handle. *)
ConnectRefused(p) ==
  /\ pc[p] = "connect" /\ NoUpload
  /\ owner' = Closed(m_socket[p])
  /\ unconnected' = unconnected \cup {p}
  /\ Throw(p)
  /\ UNCHANGED <<m_socket, m_is_connected>>

(* Handshake and authentication *)
Login(p) ==
  /\ pc[p] = "login" /\ NoUpload
  /\ \/ Alive(p) /\ m_is_connected[p] /\ Proceed(p, "next")
     \/ Throw(p)
  /\ UNCHANGED socketVars

(* Mutant of LockFailedFiles: nothing is waited for *)
PushUnlocked(p) ==
  /\ pc[p] = "lock" /\ NoUpload
  /\ seen' = [seen EXCEPT ![p] = failed_files]
  /\ Goto(p, "push")
  /\ UNCHANGED <<call, pos, failed_files, failed_files_mutex, socketVars, historyVars>>

(* push_back under the lock: what it finds, and what it leaves *)
LockFailedFiles(p) ==
  /\ pc[p] = "lock" /\ NoUpload
  /\ failed_files_mutex = None
  /\ failed_files_mutex' = p
  /\ seen' = [seen EXCEPT ![p] = failed_files]
  /\ Goto(p, "push")
  /\ UNCHANGED <<call, pos, failed_files, socketVars, historyVars>>

(* Mutant of PushFailedFile: the lock is not released *)
PushKeepsLock(p) ==
  /\ pc[p] = "push" /\ NoUpload
  /\ failed_files' = seen[p] \cup {Current(p)}
  /\ seen' = [seen EXCEPT ![p] = {}]
  /\ Goto(p, "next") /\ Advance(p)
  /\ UNCHANGED <<call, failed_files_mutex, socketVars, historyVars>>

PushFailedFile(p) ==
  /\ pc[p] = "push" /\ NoUpload
  /\ failed_files' = seen[p] \cup {Current(p)}
  /\ failed_files_mutex' = None
  /\ seen' = [seen EXCEPT ![p] = {}]
  /\ Goto(p, "next") /\ Advance(p)
  /\ UNCHANGED <<call, socketVars, historyVars>>

(* CloseSession: the request is not sent, and an exception thrown, only if *)
(* the connection knows that it is closed; then it is disconnected.        *)
Logout(p) ==
  /\ pc[p] = "next" /\ ~More(p) /\ NoUpload
  /\ IF m_is_connected[p] THEN Disconnect(p) /\ Proceed(p, "disconnect")
     ELSE Throw(p) /\ UNCHANGED socketVars

(* Disconnect again *)
DisconnectAgain(p) ==
  /\ pc[p] = "disconnect" /\ NoUpload
  /\ Disconnect(p)
  /\ Proceed(p, "unwind")

(* The client is destroyed, and with it its connection. *)
Unwind(p) ==
  /\ pc[p] = "unwind" /\ NoUpload
  /\ Disconnect(p)
  /\ Proceed(p, "done")

Thread(p) ==
  \/ OpenSocket(p) \/ ConnectSucceeds(p) \/ ConnectRefused(p) \/ Login(p)
  \/ UploadStep(p) \/ LockFailedFiles(p) \/ PushFailedFile(p)
  \/ Logout(p) \/ DisconnectAgain(p) \/ Unwind(p)

MainStep ==
  \/ UploadStep(Main) \/ FinishDirectory \/ Distribute \/ Distributed \/ StartThread
  \/ Join

Call ==
  \/ \E f \in Files : CallUpload(f)
  \/ \E d \in Directories : CallUploadDirectory(d) \/ CallUploadParallel(d)

Next == Call \/ MainStep \/ \E p \in Clients : Thread(p)

Spec == Init /\ [][Next]_vars

(* Main and each thread run, and Receive gives up after MAX_TIMEOUT. *)
FairSpec == Spec /\ WF_vars(MainStep) /\ \A p \in Clients : WF_vars(Thread(p))

-----------------------------------------------------------------------------
(* Properties *)

(* Every variable has its type; a process that uploads is at an entry of   *)
(* its share, and one that holds the lock is about to push.                *)
PlaceTypeOK ==
  /\ call \in {"none", "single", "sequential", "parallel"}
  /\ pc[Main] \in {"idle", "next", "chunk", "remove", "distribute", "start", "join"}
  /\ \A p \in Clients :
       pc[p] \in {"none", "socket", "connect", "login", "next", "chunk", "remove", "lock",
                 "push", "disconnect", "unwind", "done"}
  /\ \A p \in Procs : pc[p] \in {"chunk", "remove", "lock", "push"} => More(p)
  /\ \A p \in Clients : pc[p] = "push" <=> failed_files_mutex = p
EntriesTypeOK ==
  /\ entries \in Seq(Files) /\ i \in 0..NumClients
  /\ startIndex \in 0..Len(entries) /\ remainingFiles \in 0..NumClients
  /\ \A p \in Clients : Share(p) \subseteq DOMAIN entries \/ call # "parallel"
  /\ \A p \in Procs : pos[p] \in Nat /\ left[p] \in Nat
SharedTypeOK ==
  /\ ckp \in [Stems -> Files \cup {Absent, Empty}]
  /\ m_socket \in [Clients -> Handles \cup {None}]
  /\ owner \in [Handles -> Clients \cup {None}]
  /\ failed_files \subseteq DOMAIN entries /\ failed_files_mutex \in Clients \cup {None}
TypeOK == PlaceTypeOK /\ EntriesTypeOK /\ SharedTypeOK

(* Once the files are distributed, every entry is in the share of exactly  *)
(* one thread, and no thread has two entries more than another (ftc 842-   *)
(* 856).                                                                   *)
FilesShared ==
  call = "parallel" /\ pc[Main] \in {"start", "join"} =>
    /\ \A k \in DOMAIN entries :
         \E p \in Clients : k \in Share(p) /\ \A q \in Clients : k \in Share(q) => q = p
    /\ \A p, q \in Clients : Last(p) - First(p) <= Last(q) - First(q) + 1

(* An exception takes the rest of its share with the process it ends.      *)
Dropped == {k \in DOMAIN entries : \E p \in threw : k \in Share(p) /\ k >= Current(p)}

(* When a directory upload has ended, each entry is known to be on the     *)
(* server, or is in failed_files, or an exception ended its process at     *)
(* this entry or before; whatever becomes of the other threads, none of    *)
(* theirs is lost; and failed_files names just the entries whose upload    *)
(* failed (ftc 791-794, 907-930).                                          *)
FilesAccounted ==
  call = "none" /\ Len(entries) > 1 =>
    /\ failed_files = refused /\ uploaded \cap failed_files = {}
    /\ DOMAIN entries \ (uploaded \cup failed_files) \subseteq Dropped

(* A file is announced with its checksum just if it is uploaded on its     *)
(* own, unless an UploadDirectory was left by an exception and none has    *)
(* ended since: its flag is still set (ftc 48, 73, 781, 804, 836, 943).    *)
ChecksumWhereDue ==
  \A p \in Procs : pc[p] \in {"chunk", "remove"} =>
    (checksum[p] <=> call = "single" /\ ~spoilt)

(* No thread loses its socket to another one's closesocket, unless some    *)
(* connect was refused and left a handle that is closed twice: otherwise   *)
(* each thread that is connected has a socket of its own, however often    *)
(* the others disconnect (nc 34-38, 137-147; ftc 876, 920-924).            *)
SocketsKept ==
  \A p \in Clients : m_is_connected[p] /\ ~Alive(p) => unconnected # {}

(* The checkpoint of an entry that shares its stem with no other one is    *)
(* gone when the upload returned true, and names it when the upload failed *)
(* after a chunk, whatever the other threads do in between (ftc 141, 254-  *)
(* 258, 281, 291-295).                                                     *)
CheckpointsTell ==
  \A k \in DOMAIN entries :
    (\A j \in DOMAIN entries : Stem[entries[j]] = Stem[entries[k]] => j = k) =>
      /\ k \in uploaded /\ Chunks[entries[k]] > 0 => ckp[Stem[entries[k]]] = Absent
      /\ k \in halfway => ckp[Stem[entries[k]]] = entries[k]

(* A file that was sent completely is counted as uploaded, if no other one *)
(* of its stem is in the directory: else the removal of its checkpoint may *)
(* fail, and the exception takes the rest of the share with it (ftc 290-   *)
(* 295, 926).                                                              *)
SentIsCounted ==
  [][\A p \in Procs :
       pc[p] = "remove" /\ pc'[p] # "remove"
       /\ (\A k \in DOMAIN entries : Stem[entries[k]] = Stem[File(p)] => k = Current(p))
       => uploaded' = uploaded \cup {Current(p)}]_vars

(* Every call returns: each thread ends, by its last entry or by an        *)
(* exception, and is joined (ftc 935-941).                                 *)
EveryCallReturns == call # "none" ~> call = "none"

=============================================================================
