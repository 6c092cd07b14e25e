# Verification of the file transfer client

TLA+ models of the C++ file transfer client, model-checked with TLC and, but for
liveness, proved with TLAPS. `ftc` below is `src/src/file_transfer_client.cpp`.

## The system

A Windows console program keeps one TCP connection to a file server, logs in,
and uploads and downloads files chunk by chunk, with checkpoint files from
which an interrupted transfer can be resumed. There are no tests; the README of
the repository has one line, so the comments in the code are its documentation.

| Component | State | Operations | Interacts with |
|---|---|---|---|
| `FileTransferClient` uploads (ftc 27-308, 964-1185) | local variables of the call, `./<stem>.ckp` | `UploadFile`, `ResumeUpload` | connection, file system, progress bars |
| `FileTransferClient` downloads (ftc 310-707) | local variables, the local file, `./checkpoint/<stem>.ckp` | `DownloadFile`, `ResumeDownload` | connection, file system, path resolver |
| Directory upload (ftc 709-962) | list of files, `failed_files`, the global `is_uploading_directory` | `ScanDirectory`, `UploadDirectory`, `UploadDirectoryParallel` (four threads, each with a client of its own) | uploads, sessions |
| `NetworkConnection` | socket, `m_is_connected` | `Connect`, `Send`, `Receive`, `Disconnect`, `Reconnect`, `sendPacket`, `recvPacket` | server |
| `SessionManager` | session id, user name, password | handshake, authentication, reconnect, reset | connection |
| `CLI` and `main` | `CLIState` | menus | everything |
| `PathResolver` | the file system | create, delete, new name | downloads |
| `ProgressBarManager` | table of bars, totals | add, update, clean up | transfers |
| Packet formats, encryption | none | serialise, parse, AES-GCM, MD5 | connection |

Hard behaviours: retries after a failed attempt; answers that come after the
300 s receive timeout and stay in the stream; a `Send` that reports success
after it failed; checkpoints that are buffered, truncated and shared by files of
one stem; the process killed between two writes; four threads on one directory
of checkpoints; exceptions that skip a reset. `PROJECT.json` lists them as
hazards, each at its line.

What makes the components correct: an upload that reports success has stored
exactly its file; a download that reports success has made exactly its file and
destroyed none; a checkpoint is never ahead of what was transferred, and a
failed transfer leaves one; every call returns; every file of a directory is
uploaded or reported; the session outlives the transfer; packets survive the
trip through serialisation.

## The modules

| Module | Models |
|---|---|
| `Transfer` | abstract specification: what an upload and a download promise |
| `PacketStream` | abstract specification: what a connection promises to who receives packets |
| `Upload` | `UploadFile` and `ResumeUpload`, checkpoint, connection, external server; implements `Transfer` |
| `Download` | `DownloadFile`, `ResumeDownload`, local files, checkpoint, connection, external server; implements `Transfer` |
| `DirectoryUpload` | `ScanDirectory` (its result), `UploadDirectory`, `UploadDirectoryParallel`: threads, shares, mutex, sockets, shared checkpoints |
| `Connection` | `NetworkConnection`: streams of a socket, `Send`, `Receive`, `sendPacket`, `recvPacket`, `Reconnect`; extends `PacketCodec`, implements `PacketStream` |
| `PacketCodec` | layout of the packets: `serialize` and `deserialize` with the sizes they check |
| `Cli` | `main`, `login_page`, `transfer_page`, the menus and dialogs, the session they keep |
| `ProgressBar` | `ProgressBarManager` and the calls the transfers make |
| `MCUpload`, `MCDownload`, `MCDirectoryUpload`, `MCConnection` | instances for TLC |
| `UploadProofs`, `DownloadProofs`, `DirectoryUploadProofs`, `ConnectionProofs`, `PacketCodecProofs`, `CliProofs`, `ProgressBarProofs` | inductive invariants and theorems of these modules; the last part of `DownloadProofs`: `Download` implements `Transfer` |
| `UploadTransferProofs` | `Upload` implements `Transfer` |

How they fit together: `Cli` runs a transfer as one step that ends well or
badly; `Upload` and `Download` are what happens within that step for one file;
`DirectoryUpload` has the many uploads of one step, each reduced to what its
caller and the other threads see of it (started, chunks acknowledged, ended).
All of them see the connection as a stream of whole packets that arrive late or
never, are taken in order and thrown away if they are of another type. That is
`PacketStream`, and `Connection` implements it: as long as no receive ends within
a packet, by a timeout or because the length is refused, none is skipped, and
after that packets are only skipped.

### Upload

`pc` is the place of the call: `idle` (no call), `response` (after the request,
before its answer), `chunk` (top of the retry loop), `ack` (a chunk was sent),
`save` (`ResumeUpload` has truncated the checkpoint and not yet written it).
The local variables have their names of the code: `chunk_size`, `i`, `retries`,
`total_sent`; `cursor` is the read position of the `ifstream`, `fid` the
`file_id` of the response. `ckp` is the checkpoint on disk for each stem, and
`buf` the record in the buffer of `state_file`: `seekp(0)` flushes the record
before, a close or a destructor flushes the last, a kill loses it. Sizes wrap
modulo `SizeMod`, as `size_t` does.

| Action | Code |
|---|---|
| `CallUpload`, `CallResume` | up to the wait for the response; the server's reaction is part of the step |
| `ResponseFails`, `Denied`, `UploadAllowed`, `ResumeAllowed`, `ResumeDividesByZero` | the response and what follows up to the loop |
| `SendChunk`, `ReadFails` | one attempt: read, send, and the server's reaction |
| `AckFails`, `ChunkAcked`, `ResumeSaves` | the acknowledgement, the retry, the record |
| `Finish` | after the loop |
| `Killed`, `Relogin`, `LinkDies` | the surroundings |

A file's bytes are represented by where they were read: a chunk on the server
is a record of file, place and length. This is what the properties tell apart:
right bytes, wrong place, wrong file.

`replies` is what the server has sent and the client not yet received. A
receive fails without touching it (the answer is late, and will be read by a
later receive), or takes a packet of another type (`recvPacket` has then
consumed it). The server grants fresh ids, keeps the chunks of an id as a
prefix, answers every request in order and may refuse any. It grants a chunk
size above zero.

### Download

`pc` is `idle`, `response`, `chunk` (top of the loop), `record` (the chunk is
written and flushed, its record is not yet) or `verify` (after the loop, files
closed). `disk` holds the local files as sequences of chunks; `ckp` and `buf`
are the checkpoint as above. `CallResume` picks a checkpoint as
`showResumeDownload` does, takes the name in it and reads the checkpoint of that
name's stem, which need not be the same one. `DownloadAllowed` makes the new
name if the file exists. A chunk is damaged either on its way, which its
checksum shows, or before its checksum was computed, which only the checksum of
the whole file shows.

The server sends one chunk and waits for its acknowledgement; a negative one
makes it send the chunk again. It may give the same file the same id again, so
that stale chunks can pass the id check.

The names in a checkpoint are assumed to fit the inline buffer of
`std::string`: the code reads them through `data()` of an empty string.

If `DiskFills`, a write to the local file may fail (`Write`): the chunk is lost or
cut off, the stream is `bad` for the rest of the call, and as nobody asks it,
`total` and the checkpoint go on counting. `torn` remembers the files this
happened to. The record of a checkpoint is small and overwrites the one before;
it is taken to be written.

### Transfer

A call copies a source file to a place and, if it succeeds, seals it: nothing
writes a sealed place again, or reports it again. Meanwhile it may write any
place that is not sealed, and fail in any way. The refinement mappings:

| `Transfer` | `Upload` | `Download` |
|---|---|---|
| places | ids of the server | local names |
| `content` | the chunks stored under an id | the local file |
| `phase` | `rest`, `transfer` or `resume`, from `pc` and `op` | the same |
| `source` | the file being uploaded | the file the answer described; open until the answer |
| `sealed` | ids that nothing leads to any more: no checkpoint, record in a buffer, answer in the stream or running call (`Referenced`) | local files that no checkpoint, buffered record or running call names |

That sealed places stay sealed is what ties the parts together: that the
checkpoint is removed at the end, that a stale answer or a second checkpoint
does not name the place, and that `GenerateNewFileName` avoids what is there.

### DirectoryUpload

Process 0 is the calling thread, 1 to `NumClients` are the threads of
`UploadDirectoryParallel`. `call` is what the user asked for; `pc[p]` is the
place of each process: `next` (loop over the files), `chunk` and `remove`
(within `UploadFile`), `lock` and `push` (`failed_files`), `socket`, `connect`,
`login`, `disconnect`, `unwind` (a thread's start and end), and `distribute`,
`start`, `join` for the calling thread. A share is an interval of the sorted
entries, `clientFileEntries[p]`. A push to `failed_files` is two steps, a read
(`seen`) and a write, so that the mutex matters. Socket handles are given out
again by the system: `owner` is who opened each, and closing a handle takes it
from its owner, whoever closes it. A thread inside the loop whose socket is gone
can only fail.

| Action | Code |
|---|---|
| `CallUpload`, `CallUploadDirectory`, `CallUploadParallel` | ftc 26-44, 767-785, 819-844 |
| `Distribute`, `Distributed`, `StartThread`, `Join` | shares and threads, ftc 846-867, 935-961 |
| `OpenSocket`, `ConnectSucceeds`, `ConnectRefused`, `Login` | a thread's connection, ftc 872-903, nc 16-49 |
| `Announce`, `RequestThrows`, `RequestDenied`, `EmptyFileAcked`, `UploadAllowed`, `ChunkAcked`, `ChunkGivenUp`, `CloseCheckpoint`, `RemoveCheckpoint` | `UploadFile`, ftc 26-297 |
| `LockFailedFiles`, `PushFailedFile` | ftc 909-916 |
| `Logout`, `DisconnectAgain`, `Unwind` | ftc 918-930, nc 137-147 |
| `FinishDirectory` | ftc 802-816 |

Removing a checkpoint fails, with an exception, while another thread has the
file of that stem open: on Windows an open `ofstream` prevents it.

### Connection and PacketCodec

On the wire a packet is a prefix that tells its length and an encrypted body,
here of two units each. `server` is what the server wrote on this connection,
`arrived` and `read` are positions in it. `CallReceive`, `ReadUnit`,
`LengthRefused`, `PrefixRead`, `BodyRead` and `TimesOut` are `recvPacket` with the
loop of `Receive`. A prefix read out of frame gives any length. One above
`MAX_PAYLOAD_SIZE` is refused, also in frame, and its body stays in the stream: like a
timeout within a packet this sets `cut`. `CallSend`, `SendUnit`,
`SendFails` and `SendReturns` are `sendPacket` with the loop of `Send`.
`Connect`, `Reconnect`, `Disconnect` keep `m_socket` and `m_is_connected` as the
code does, also after a refused connect.

`PacketStream` leaves out the bytes: `Write` is the server's, `Receive` takes
the next packet and returns it or not, `Skip` passes over packets and leaves its
mark on `whole`, and `Connect` begins anew. In `Connection` the packets `written`
are `server`; `taken` is how many of them are `Gone`, read, passed over or cut,
counted at the start of a running call (`Position`); `returned` is what the
server wrote at the places in `got`, if it arrived as it was; `whole` is `~cut`.

`PacketCodec` has no state: a format is the list of fixed fields and texts of
each packet as `deserialize` reads them; `Serialize` and `Deserialize` are what
the structs of `packet_def.hpp` have in common, with the exceptions that single
packets make (`Refusal`, `Excess`, `TextLength`, `Written`). A payload is a
sequence of cells, each a byte of a named value, so that a field read at a wrong
offset or with a wrong width shows.

### Cli

`page` is where the program waits; `state` is `CLI::state`, which most pages
check and throw over. `Show(p)` is the check. `user` and `connected` are the
client's idea of the session, `server` the server's. `cin` turns bad when a
read fails and stays so. `ChooseTransfer`, `ConfirmUpload`, `ConfirmFolder`,
`ChooseFolderType`, `ConfirmDownload`, `ChooseResume`, `ConfirmResumeUpload`,
`ConfirmResumeDownload` and `Finish` follow a transfer from the menu to its end;
`Logout` is both the choice and what `showTransferMenu` returns when the state
is not `SESSION`.

### ProgressBar

The map from names to bars, the queue of names in order of display, and the
total. `Redrawn` is the redrawing with its side effect: `operator[]` makes an
entry for a name of the queue that has none. The actions are the calls that
transfers, scans and pages make.

## Properties and runs

| Run | Property | What it shows |
|---|---|---|
| `upload` | `UploadTrueExact` | true means exactly the file's bytes under the id of this request. Retries do send shifted bytes, and stale responses name other ids, but then the call cannot return true |
| | `AckedIsStored` | the index never passes what the server holds |
| | `FailedUploadResumable` | a failed call leaves the record of its id; a kill loses one record at most; success leaves none |
| | `ResumeTrueComplete` | a resumed upload that returns true has left out no chunk, also with the answer of an earlier resume, if the answer is about its file and the checkpoint keeps the chunk size |
| | `EveryCallReturns` | under fairness, each call ends |
| | `PromiseKept` | `Upload` implements `Transfer` |
| | `TypeOK` | types; `size_t` values stay in range; ids past the response are granted ones |
| `upload_chunk_data` | `ChunkDataOfIndex` | violated: a retry sends the next bytes under the old index |
| `upload_checkpoint_format` | `CheckpointFormat` | violated: a resume writes the index in the place of the chunk size |
| `download` | `DownloadTrueExact` | true means the local file is the server's, undamaged, and the checkpoint is gone, also if writes fail |
| | `CheckpointBehindData` | no record counts chunks the local file has not got, whenever the process is killed, unless a write to this file failed |
| | `FailedDownloadResumable` | a failed call leaves a record of all it wrote; a kill loses two records at most |
| | `ResumeTrueComplete` | a resumed download that returns true is complete and in order, if no chunk failed its checksum and it began with the chunks its record counts and nothing unread in the stream |
| | `LocalFilesKept` | no local file is truncated, overwritten or deleted |
| | `PromiseKept` | `Download` implements `Transfer` |
| | `EveryCallReturns` | under fairness, each call ends, whatever the server sends |
| `download_deleted_when_done` | `DeletedWhenDownloaded` | violated: one failed checksum makes a resume end one chunk early |
| `download_saved_info` | `SavedInfoIsFound` | violated: what is saved under a new name is not found again |
| `directory` | `FilesShared` | each entry is in exactly one share, and no share is longer than another by two |
| | `FilesAccounted` | every file is uploaded or in `failed_files`, but for the rest of the share of a thread that an exception ended; that list is exact in any case |
| | `ChecksumWhereDue` | the checksum is left out just in directory uploads, and after one that threw |
| | `SocketsKept` | threads lose sockets to each other only by a refused connect, which leaves a handle that is closed twice |
| | `CheckpointsTell` | the checkpoint of a file of its own stem is right, whatever the other threads do |
| | `SentIsCounted` | a file of its own stem that was sent is counted; with a shared stem it need not be |
| | `EveryCallReturns` | every thread ends and is joined |
| `cli` | `NoInvalidState` | no page is shown in a state that makes it throw |
| | `SessionFitsPage` | before the login nobody is logged in, on the pages of transfers the user is, here and at the server |
| `cli_declined` | `DeclinedIsNotRun` | violated: a declined download or folder upload runs |
| `cli_download` | `MenuAfterDownload` | violated: a download does not lead back to the transfer menu but to a logout and the login page |
| `connection` | `RoundTrip` | each packet arrives as sent, if its texts fit their length fields |
| | `PrefixRefused` | no payload that ends early is accepted |
| | `ReceivedWasSent` | what `recvPacket` returns was sent, in order, none twice |
| | `NothingSkipped` | unless a receive ended within a packet, cut short or refused for its length, none is skipped |
| | `StreamKept` | `Connection` implements `PacketStream` |
| | `SentWhole` | unless a send gave up, the stream to the server is whole packets |
| | `CallReturns` | under fairness, each send and receive ends |
| `progress` | `BarsBounded` | never more bars than `MAX_DISPLAY_BARS`, though `UpdateProgress` does not look |
| | `TableFitsQueue` | the map and the queue have the same names |
| | `CurrentIsShown` | the file worked on has a bar with its progress |

Every passing run also checks a `TypeOK`.

The conditions of the two `ResumeTrueComplete` are what the code relies on and
does not check. Without them the promises fail: `upload_checkpoint_format` shows
how the chunk size is lost, `download_deleted_when_done` how a failed checksum
ends a resume early, and if the stream still holds the answer to an earlier resume
of the same id, its larger count makes `ResumeDownload` append a chunk
twice and return true. `Download` keeps in the history variable `aligned` whether a
resume began with what it relies on.

### Bounds

`upload`: three calls, two ids, chunks of two bytes, two attempts at a chunk,
and files of five bytes (two full chunks and a rest), four bytes, one byte and
none. The first three share a stem, so that a resume meets a checkpoint of a
longer, a shorter and an equal file, and the wrap of `FirstUnsent` and the
division by zero occur. Three calls are what a chain of upload, resume and
resume of the resume takes, and also a request, a stale answer and its victim.
`SizeMod` is 64, above every sum that does not wrap.

`download`: two calls on a disk that may be full from any write of a call on, two
ids, one spare local name, two failed checksums per chunk, and files of three
chunks, one and none; the first two share a stem. Two calls are a download and
its resume, a resume after the checkpoint of another file, and a request whose
late answer meets the next. Three chunks are the least with which a record has
reached the disk while another is in the buffer and a third chunk is written.
With more downloads than spare names a response can only fail. A third call
would take too long here; the two runs of violations have three, and the theorems,
which all properties of the run but `EveryCallReturns` have, any number.

`directory`: two threads, so that shares, mutex and sockets have a rival; two
handles, so that each is given out again; directories of no file, of three (an
uneven division; two with one stem in different shares; two chunks, so that a
record is flushed while another is buffered) and of a file and an empty file.

`cli`: two users and one whose name is too long. Nothing else is bounded: the
pages are finitely many.

`connection`: two packets in each direction, so that one is in the stream
behind the one that is read; two units per part, the least that can be cut
in the middle; two failed sends; a chunk that is longer than `MAX_PAYLOAD_SIZE`,
here 33 bytes, and one that is not. Lengths are taken modulo 4 instead of 65536,
and texts have 0, 1, 3 (the longest that fits) and 5 bytes.

`progress`: two bars for three names and a label, so that bars are evicted and
a name can be in the queue twice; directories of at most two files; progress
0 or 1.

All actions fire in these runs. Deadlock is checked: a client that is idle can
always go on.

### Fairness

`WF_vars(Step)` in `Upload`, `Download` and `Connection`: the calling thread
keeps running, and a send or receive ends after `MAX_TIMEOUT` (`SO_SNDTIMEO`,
`SO_RCVTIMEO`) if nothing comes. `DirectoryUpload` has one such condition for
the calling thread and one for each other, as the system schedules them all.
`Cli` assumes it of `Program`, what the program does without the user, and for
`cli_download` only: choices are never forced. New calls, kills, logins and the death of the connection are
never forced. Nothing is assumed about the server.

## Proofs

`UploadProofs` proves for all files, sizes, chunk sizes, numbers of retries and
calls (assumptions `ChunkAssumption`, `FilesAssumption`, `NamesAssumption`:
sizes are naturals that do not overflow, special values are distinct):

- `TypeCorrect`: `Spec => []TypeOK`.
- `UploadExact`: `Spec => []UploadTrueExact`.
- `UploadAckedIsStored`: `Spec => []AckedIsStored`.
- `UploadResumable`: `Spec => []FailedUploadResumable`.
- `ResumeComplete`: `Spec => []ResumeTrueComplete`.

The argument for `UploadExact`. `UploadTrueExact` speaks of finished calls only
and is not inductive. `LoopInv` says that `total_sent` is the number of bytes
before chunk `i` and that `cursor` is at least `total_sent` and what is in
flight. The cursor only moves forward: once an attempt has failed after its
read, `cursor` is ahead for good, the last chunk cannot be read, and the call
cannot return true. So it suffices to look at calls with no wasted read
(`NoWastedRead`). In these every attempt succeeded at once. Either the response
was the answer to this request (`fid = own`): then the stream is empty between
chunks, the server's prefix is exactly the bytes before the cursor (`ChunkInv`),
and the one reply awaited is about this chunk (`WaitInv`). Or it was a stale
response: then the next reply is about another id and the first attempt fails.
`IdInv` (an id is unknown to the client, unmentioned and unused until its grant
is received), `ResponseInv` (the answer to this request is the last one in the
stream) and `OwnInv` connect the two. `AckInv` (a positive acknowledgement is of
a chunk the server holds) gives `AckedIsStored` through `LoopInv`.

`UploadResumable` adds `CheckpointInv`: from the first acknowledged chunk on the
buffer, and from the second on the disk, holds the record of this upload.

`ResumeComplete` rests on two more. `AnswerInv`: an answer to a resume tells how
many chunks were left when it was sent, and the server keeps at least the others,
as it only adds to what it has. `ResumeLoopInv`: a resume that the answer is
about starts at most one chunk after those, and all before its chunk is with the
server.

The lemmas before these results state what division into chunks, receiving and
sending do.

`DownloadProofs` proves for all files, names, stems, ids, numbers of chunks,
retries and calls (`ChunksAssumption`, `NamesAssumption`, `AbsentAssumption`: a
name with a time stamp is that of no other file, nor is its stem; special values
are distinct):

- `TypeCorrect`: `Spec => []TypeOK`, by `TypeInv`: beyond types, retries are left
  while a call runs, the server serves what it granted, and a call that receives
  chunks has opened its file.
- `FilesKept`: `Spec => LocalFilesKept`.
- `CheckpointsBehind`: `Spec => []CheckpointBehindData`. The invariant,
  `BehindInv`, says of each checkpoint and of the buffered record that it is
  behind its local file, if no write to it failed, and belongs to its stem (`Sound`), and of the call that
  its next record will be (`Progress`); it needs that local files only grow.
- `FailedResumable`: `Spec => []FailedDownloadResumable`. `Counted` says that a
  download's local file has `total` chunks, and that at the top of the loop the
  buffer has the record of all of them and the disk of all but one.
- `DownloadExact`: `Spec => []DownloadTrueExact`. `Described` says that the
  answer a download acts on is about the file behind its id, which for the id
  granted to its own request is the file asked for.
- `ResumeComplete`: `Spec => []ResumeTrueComplete`. `AlignedInv` says of a resume that
  began with an empty stream and the chunks of its record, and met neither a failed
  checksum nor a failed write, that it is in step with the server: the chunks written, the ones in
  the stream and the one the server is at follow each other, and what remains
  is what the file has more.

`DirectoryUploadProofs` proves for all files, directories, numbers of threads
and handles (`ClientsAssumption`, `DirectoryAssumption`, `SpecialValues`):

- `SharesFit`: `Spec => []FilesShared`. While files are distributed,
  `startIndex + remainingFiles + (NumClients - i) * Part = Len(entries)` and the
  first `i` shares cover the first `startIndex` entries once (`ShareInv`).
- `FilesAreAccounted`: `Spec => []FilesAccounted`. `LockInv`: who is about to push
  holds the mutex and has seen the present list. `FailedInv`: the refused entries
  are the listed ones and those a thread is about to list. `AccountInv`: what a
  process has passed is uploaded or refused, nothing it has not passed is; so an
  exception drops the entry the process is at and those behind it (`Dropped`).
- `ChecksumsAnnounced`: `Spec => []ChecksumWhereDue`; the flag is set just during
  directory uploads and after one that threw (`ChecksumInv`).
- `SocketsSafe`: `Spec => []SocketsKept`; without a refused connect every handle
  a thread keeps is one it owns (`OwnSockets`).

- `TypeCorrect`: `Spec => []TypeOK`, by `TypeInv`: beyond the invariants above, the
  mutex is held by just the thread that is about to push (`LockHeld`), and the
  counters of the distribution stay within the entries (`Counters`).
- `CheckpointsTold`: `Spec => []CheckpointsTell`. A process writes only the
  checkpoint of the stem it uploads. For an entry that shares its stem with no
  other one (`Lone`) this is the entry the process is at, and that is neither
  uploaded nor refused yet (`AtEntry`); `Recorded` says that from the first
  acknowledged chunk on a record waits in the stream.
- `SentCounted`: `Spec => SentIsCounted`. Processes that upload are at different
  entries (`EntriesApart`), so nobody else has the checkpoint of an entry of its
  own stem open when it is removed.

All rest on `Control`, which ties `call`, the places of the calling thread and
those of the others together.

`ConnectionProofs` proves for all packets of the server, bounds and numbers of
attempts (`AttemptsAssumption`, `BoundsAssumption`): `TypeCorrect` for `TypeOK`,
`NoneSkipped` for `NothingSkipped` and `WholeSent` for `SentWhole`. The invariant
of the three is `ConnectionInv`. Its part about reading, `StreamInv`, says that as
long as no receive ended within a packet the position within the stream is that of the
packet being read (`InStep`); its part about sending, `SendInv`, says that the
wire has the units of the packets sent before and the first `totalSent` of the
present one (`Units`). `ReceivedSent` for `ReceivedWasSent` adds `OrderInv`: each
packet received is the one at its `Position` among those sent, and
`WhatIsWrittenIsRead` says that it arrives as it was. It takes from
`PacketsAssumption` that the server writes packets whose texts fit their length
fields. `ConnectionImplementsStream` proves `Spec => StreamKept` from the two
invariants: a frame that is read to its end is the next packet (`Takes`), and a
call that ends elsewhere than where it began, without one, has been cut short or
refused the length (`Skips`). `LayoutRoundTrip` and `LayoutPrefixRefused` are `RoundTrip` and
`PrefixRefused` for every set of lengths.

`PacketCodecProofs` proves what these two rest on, for every packet, whatever its
values and texts are, and all widths above zero (`WidthsAssumption`):

- `WhatIsWrittenIsRead`: `deserialize` restores the packet that `serialize`
  wrote, if its texts fit their length fields.
- `EarlyEndIsRefused`: cut off anywhere, its payload is refused.

Both come down to where things stand. `Ends` are the sums of the first lengths of
a list, and `FlattenOf` says that of sequences put one after the other the n-th
stands between the sums `n - 1` and `n`; so each field is where `Read` looks for
it (`FieldsLaid`), each text where `Deserialize` cuts it out (`TextsLaid`), and
the size checked is the size written (`SizesChecked`). What the formats must
have in common for this, distinct names and a field for the length of each text,
is `WellFormed`, proved of each. These facts about lists of any length are
inductions: the induction theorems of the library cannot be instantiated, so
`SetInduction` derives induction over a set of naturals from the minimal element
that a set of naturals has.

`ProgressBarProofs` proves for all names and every `MAX_DISPLAY_BARS`
(`NamesAssumption`, `BarsAssumption`) `BarsStayBounded`, `TableAndQueueFit` and `CurrentStaysShown`:
`BarsBounded`, `TableFitsQueue` and `CurrentIsShown`. They are one invariant,
`BarsInv`: the table stays within its bound because a file that is worked on has
a bar, so that `UpdateProgress` adds none. `TypeCorrect` for `TypeOK` adds
`TotalInv` (a total is shown, or above zero, only after the first bar) and that
each entry of the table is the bar of its own name (`Entry`).

`CliProofs` proves, for all users, `TypeCorrect`, `PagesFitState` and
`SessionFits`: `TypeOK`, `NoInvalidState` and `SessionFitsPage`. The invariant,
`PageFits`, gives the states each page, menu and running operation can have.

`UploadTransferProofs` and `DownloadProofs` prove
`Spec => PromiseKept`: each initial state of `Upload` and `Download` maps to one
of `Transfer`, and each step to a step of it or to a stutter. Beyond the
invariants above they need that the place a call writes is led to by that call
alone (`Alone`), that a download that waits for its answer has no source yet
(`SourceOpen`), and that the empty name read from an empty checkpoint names no
file (`NoNamelessFile`). The heart is that what is sealed stays sealed: every
step that adds a reference takes it from one there is, or to a place that is
fresh.

Only model-checked: liveness (`EveryCallReturns`, `CallReturns`), which is out of
the prover's reach.

## Not modelled

- The server, OpenSSL and the file system are external. Most lines of the
  repository are headers and libraries of OpenSSL under `src/lib`; nothing of
  them is the program's, and they are modelled by their use: encryption as a
  body that can only be decrypted whole (`Connection`), checksums as equality of
  contents (`Download`).
- `src/Client.cpp` is an earlier version of the program that is not built.
- `ViewCloudResponse` with its list of entries, `PerformReconnect` and setters of
  `SessionManager`, and the user directories of `PathResolver` are called by
  nothing.
- System dialogs, console output, cursor positions, speed figures.
- The stack: `transfer_page` and `login_page` call each other and never return,
  so a very long session would overflow it. The model has no stack; only the
  menus' recursion on a bad stream, which no input ends, is an action
  (`MenuOverflows`).
- Failing writes of checkpoints, and names too long for the inline buffer of
  `std::string` (undefined behaviour of memory).
- `UploadFile` within `DirectoryUpload` has neither retries nor a stream of
  answers; these are in `Upload`.

Three things met in `packet_def.hpp` that no property states, as nothing in the
code promises otherwise: `AuthenticationResponse::deserialize` never reads its
message (321-341); `UploadDirRequest` writes the size of its payload in the
place of `total_size` (785-810); `FileEntryDTO::deserialize` asks for 23 bytes
before it reads the 13 that `serialize` wrote for an entry without texts
(411-439). The model does the same in each case, and `RoundTrip` names them.

## Plan

Done: `Upload`, `Download`, `DirectoryUpload`, `Cli`, `Connection`,
`PacketCodec`, `ProgressBar`, `Transfer`, `PacketStream` and the proofs above. Left: records of a
checkpoint that cannot be written, in `Upload` and `Download`.

The order of the work is by what a user loses when it fails: first the content
of files, then files of a directory, then the session, then the display.
