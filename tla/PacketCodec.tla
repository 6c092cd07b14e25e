------------------------------ MODULE PacketCodec ------------------------------
(***************************************************************************)
(* The layout of the packets' payloads (packet_def.hpp): serialize,        *)
(* byte by byte, and deserialize, with the sizes it checks.  A payload is  *)
(* a sequence of cells <<v, j>>, the j-th byte of the value v: what a      *)
(* field holds is left open, where it stands is not.  The integers have    *)
(* the byte order of the machine on both sides.                            *)
(*                                                                         *)
(* A format has fields of a fixed width, then texts; the length of a text  *)
(* is one of the fields.  Here a field is <<name, width>> and a text is    *)
(* <<name, field of its length>>.                                          *)
(***************************************************************************)
EXTENDS Integers, Sequences, FiniteSets, SequencesExt

CONSTANTS LenMod,               \* lengths of 16 bits are taken modulo this: 65536
          MAX_MESSAGE_LENGTH,   \* 256
          MAX_USERNAME_LENGTH,  \* 64
          MAX_PASSWORD_LENGTH   \* 64

ASSUME WidthsAssumption ==
  {LenMod, MAX_MESSAGE_LENGTH, MAX_USERNAME_LENGTH, MAX_PASSWORD_LENGTH} \subseteq Nat \ {0}

Format(fields, texts) == [fields |-> fields, texts |-> texts]
NoTexts == << >>
Message == <<<<"message", "message_length">>>>

(* Of each struct: serialize() and the order in which deserialize() reads. *)
HandshakeRequest == Format(<<<<"client_version", 1>>>>, NoTexts)

HandshakeResponse == Format(<<<<"server_version", 1>>, <<"message_length", 2>>>>, Message)

AuthenticationRequest ==
  Format(<<<<"username", MAX_USERNAME_LENGTH>>, <<"password", MAX_PASSWORD_LENGTH>>>>, NoTexts)

AuthenticationResponse ==
  Format(<<<<"authenticated", 1>>, <<"session_id", 16>>, <<"message_length", 2>>>>, Message)

FileEntryDTO ==
  Format(<<<<"file_size", 8>>, <<"is_dir", 1>>, <<"file_path_length", 2>>,
           <<"file_name_length", 2>>>>,
         <<<<"file_path", "file_path_length">>, <<"file_name", "file_name_length">>>>)

CreateDirRequest ==
  Format(<<<<"dir_path_length", 2>>>>, <<<<"dir_path", "dir_path_length">>>>)

CreateDirResponse == Format(<<<<"created", 1>>, <<"message_length", 2>>>>, Message)

UploadRequest ==
  Format(<<<<"file_size", 8>>, <<"checksum", 16>>, <<"file_name_length", 2>>,
           <<"file_type_length", 2>>>>,
         <<<<"file_name", "file_name_length">>, <<"file_type", "file_type_length">>>>)

UploadDirRequest ==
  Format(<<<<"file_count", 4>>, <<"total_size", 8>>, <<"checksum_flag", 1>>,
           <<"dir_path_length", 2>>>>,
         <<<<"dir_path", "dir_path_length">>>>)

Refusal == Format(<<<<"status", 1>>, <<"reason", MAX_MESSAGE_LENGTH>>>>, NoTexts)

(* The structs of the unions are copied as they lie in memory.             *)
UploadResponse(status) ==
  IF status = 0
  THEN Format(<<<<"status", 1>>, <<"file_id", 4>>, <<"chunk_size", 4>>>>, NoTexts)
  ELSE Refusal

DownloadRequest ==
  Format(<<<<"file_name_length", 2>>>>, <<<<"file_name", "file_name_length">>>>)

DownloadResponse(status) ==
  IF status = 0
  THEN Format(<<<<"status", 1>>, <<"file_id", 4>>, <<"padding", 4>>, <<"file_size", 8>>,
                <<"chunk_size", 4>>, <<"checksum", 16>>, <<"padding", 4>>>>, NoTexts)
  ELSE Refusal

ResumeRequest ==
  Format(<<<<"file_id", 4>>, <<"resume_position", 8>>, <<"last_chunk_index", 4>>>>, NoTexts)

ResumeResponse(status) ==
  IF status = 0
  THEN Format(<<<<"status", 1>>, <<"file_id", 4>>, <<"padding", 4>>,
                <<"resume_position", 8>>, <<"remaining_chunk_count", 4>>,
                <<"padding", 4>>>>, NoTexts)
  ELSE Refusal

FileChunk ==
  Format(<<<<"file_id", 4>>, <<"chunk_index", 4>>, <<"chunk_size", 4>>, <<"checksum", 16>>>>,
         <<<<"data", "chunk_size">>>>)

FileChunkACK ==
  Format(<<<<"file_id", 4>>, <<"chunk_index", 4>>, <<"success", 1>>>>, NoTexts)

CloseSessionPacket == Format(<<<<"timestamp", 8>>>>, NoTexts)

ErrorPacket == Format(<<<<"error_code", 4>>, <<"message_length", 2>>>>, Message)

(* FILE_ENTRY, an entry of ViewCloudResponse, is no packet of its own. *)
PacketTypes ==
  {"HANDSHAKE_REQUEST", "HANDSHAKE_RESPONSE", "AUTHENTICATION_REQUEST",
   "AUTHENTICATION_RESPONSE", "CREATE_DIR_REQUEST", "CREATE_DIR_RESPONSE",
   "FILE_ENTRY", "UPLOAD_REQUEST", "UPLOAD_DIR_REQUEST", "UPLOAD_RESPONSE", "DOWNLOAD_REQUEST",
   "DOWNLOAD_RESPONSE", "RESUME_REQUEST", "RESUME_RESPONSE", "FILE_CHUNK",
   "FILE_CHUNK_ACK", "CLOSE_SESSION", "ERR_PACKET"}

(* Statuses from 1 on are refusals; a type without a status has 0.         *)
Statuses(type) ==
  CASE type \in {"UPLOAD_RESPONSE", "RESUME_RESPONSE"} -> 0..1
    [] type = "DOWNLOAD_RESPONSE" -> 0..2
    [] OTHER -> {0}

FormatOf(type, status) ==
  CASE type = "HANDSHAKE_REQUEST" -> HandshakeRequest
    [] type = "HANDSHAKE_RESPONSE" -> HandshakeResponse
    [] type = "AUTHENTICATION_REQUEST" -> AuthenticationRequest
    [] type = "AUTHENTICATION_RESPONSE" -> AuthenticationResponse
    [] type = "FILE_ENTRY" -> FileEntryDTO
    [] type = "CREATE_DIR_REQUEST" -> CreateDirRequest
    [] type = "CREATE_DIR_RESPONSE" -> CreateDirResponse
    [] type = "UPLOAD_REQUEST" -> UploadRequest
    [] type = "UPLOAD_DIR_REQUEST" -> UploadDirRequest
    [] type = "UPLOAD_RESPONSE" -> UploadResponse(status)
    [] type = "DOWNLOAD_REQUEST" -> DownloadRequest
    [] type = "DOWNLOAD_RESPONSE" -> DownloadResponse(status)
    [] type = "RESUME_REQUEST" -> ResumeRequest
    [] type = "RESUME_RESPONSE" -> ResumeResponse(status)
    [] type = "FILE_CHUNK" -> FileChunk
    [] type = "FILE_CHUNK_ACK" -> FileChunkACK
    [] type = "CLOSE_SESSION" -> CloseSessionPacket
    [] type = "ERR_PACKET" -> ErrorPacket

-----------------------------------------------------------------------------
(* A packet has a value for each field that is not padding or a length,    *)
(* and its texts, sequences of cells.                                      *)

FormatOfPacket(p) == FormatOf(p.type, p.status)

LengthFields(format) == {t[2] : t \in ToSet(format.texts)}
ValueFields(format) ==
  {f[1] : f \in ToSet(format.fields)} \ (LengthFields(format) \cup {"status", "padding"})

(* Where each of some parts of these lengths ends, one put after the other *)
Ends(lengths) ==
  LET end[n \in 0..Len(lengths)] == IF n = 0 THEN 0 ELSE end[n - 1] + lengths[n]
  IN end

Total(lengths) == Ends(lengths)[Len(lengths)]

FieldWidths(format) == [n \in DOMAIN format.fields |-> format.fields[n][2]]

Width(format) == Total(FieldWidths(format))

TextLengths(p) ==
  LET texts == FormatOfPacket(p).texts IN [n \in DOMAIN texts |-> Len(p.text[texts[n][1]])]

Size(p) == Width(FormatOfPacket(p)) + Total(TextLengths(p))

-----------------------------------------------------------------------------
(* serialize() *)

Bytes(v, width) == [j \in 1..width |-> <<v, j>>]

(* Mutant of Cast: the length of chunk data is cast as well *)
CastData(field, n) == n % LenMod

(* The length of chunk data has 32 bits; all others have 16, to which the  *)
(* constructors cast the length of the string.                             *)
Cast(field, n) == IF field = "chunk_size" THEN n ELSE n % LenMod

(* UploadDirRequest writes the size of the payload in place of its         *)
(* total_size.                                                             *)
Written(p, field) ==
  LET texts == ToSet(FormatOfPacket(p).texts)
  IN CASE field = "status" -> p.status
       [] field = "padding" -> 0
       [] \E t \in texts : t[2] = field ->
            Cast(field, Len(p.text[(CHOOSE t \in texts : t[2] = field)[1]]))
       [] p.type = "UPLOAD_DIR_REQUEST" /\ field = "total_size" -> Size(p)
       [] OTHER -> p.value[field]

Serialize(p) ==
  LET fields == FormatOfPacket(p).fields
      texts == FormatOfPacket(p).texts
  IN FlattenSeq([n \in DOMAIN fields |-> Bytes(Written(p, fields[n][1]), fields[n][2])])
     \o FlattenSeq([n \in DOMAIN texts |-> p.text[texts[n][1]]])

-----------------------------------------------------------------------------
(* deserialize() *)

Thrown == [type |-> "exception"]

(* The value of a field, from its first byte; its offset is the width of   *)
(* the fields before it.                                                   *)
Read(format, buf, field) ==
  LET n == CHOOSE n \in DOMAIN format.fields : format.fields[n][1] = field
  IN buf[Ends(FieldWidths(format))[n - 1] + 1][1]

(* Mutant of TextLength: every text has the length of the first *)
FirstLength(type, format, buf, t) == Read(format, buf, format.texts[1][2])

(* AuthenticationResponse does not read the length: its message is empty.  *)
TextLength(type, format, buf, t) ==
  IF type = "AUTHENTICATION_RESPONSE" THEN 0 ELSE Read(format, buf, t[2])

(* The unions look at the status first.                                    *)
StatusOf(type, buf) == IF Cardinality(Statuses(type)) > 1 THEN buf[1][1] ELSE 0

(* FileEntryDTO takes its fields to be 10 bytes wider than they are. *)
Excess(type) == IF type = "FILE_ENTRY" THEN 10 ELSE 0

(* Mutant of LongEnough: the texts are not counted *)
LongEnoughForFields(type, buf) ==
  Len(buf) >= 1 /\ Len(buf) >= Width(FormatOf(type, StatusOf(type, buf)))

ReadLengths(type, format, buf) ==
  [n \in DOMAIN format.texts |-> TextLength(type, format, buf, format.texts[n])]

(* The sizes are checked twice: for the fields, and with the texts.        *)
LongEnough(type, buf) ==
  /\ Len(buf) >= 1
  /\ LET format == FormatOf(type, StatusOf(type, buf))
         fixed_size == Width(format) + Excess(type)
     IN /\ Len(buf) >= fixed_size
        /\ Len(buf) >= fixed_size + Total(ReadLengths(type, format, buf))

(* A text ends with the buffer at the latest; LongEnough keeps it within.  *)
SmallerOf(m, n) == IF m < n THEN m ELSE n

Deserialize(type, buf) ==
  IF ~LongEnough(type, buf) THEN Thrown
  ELSE LET status == StatusOf(type, buf)
           format == FormatOf(type, status)
           lengths == ReadLengths(type, format, buf)
           start(n) == Width(format) + Ends(lengths)[n - 1]
       IN [type   |-> type,
           status |-> status,
           value  |-> [f \in ValueFields(format) |-> Read(format, buf, f)],
           text   |-> [t \in {x[1] : x \in ToSet(format.texts)} |->
                        LET n == CHOOSE n \in DOMAIN format.texts : format.texts[n][1] = t
                        IN SubSeq(buf, start(n) + 1, SmallerOf(start(n) + lengths[n], Len(buf)))]]

-----------------------------------------------------------------------------
(* Packets that fit their length fields; and what is to arrive of a packet *)
Fits(p) ==
  \A t \in DOMAIN p.text : p.type # "FILE_CHUNK" => Len(p.text[t]) < LenMod

AsSent(p, q) ==
  /\ q.type = p.type /\ q.status = p.status
  /\ p.type # "UPLOAD_DIR_REQUEST" => q.value = p.value
  /\ p.type # "AUTHENTICATION_RESPONSE" => q.text = p.text

(* An entry of a directory is only read with bytes after it. *)
Payload(p) == Serialize(p) \o Bytes(0, Excess(p.type))

(* Packets to check: every field has a value of its own, every text bytes  *)
(* of its own.                                                             *)
Packet(type, status, lengths) ==
  LET format == FormatOf(type, status)
      number(seq, name) == CHOOSE n \in DOMAIN seq : seq[n][1] = name
  IN [type   |-> type,
      status |-> status,
      value  |-> [f \in ValueFields(format) |-> 1000 + number(format.fields, f)],
      text   |-> [t \in {x[1] : x \in ToSet(format.texts)} |->
                   Bytes(-number(format.texts, t), lengths[number(format.texts, t)])]]

AllPackets(Lengths) ==
  UNION {{Packet(type, status, <<m, n>>) : m, n \in Lengths, status \in Statuses(type)} :
           type \in PacketTypes}

=============================================================================
