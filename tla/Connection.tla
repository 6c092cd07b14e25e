------------------------------- MODULE Connection -------------------------------
(***************************************************************************)
(* NetworkConnection (network_connection.cpp, network_connection.h): Send, *)
(* Receive, sendPacket and recvPacket over the streams of a socket, with   *)
(* the packets of PacketCodec.  The server (external) writes whole packets *)
(* and stops when it likes; what it wrote arrives piece by piece, or never.*)
(*                                                                         *)
(* On the wire a packet is UNITS units: those of the prefix, which tells   *)
(* the length, then those of the body, encrypted and authenticated by      *)
(* AES-GCM: only the body of a packet, as a whole, can be decrypted.  The  *)
(* unit at position n of a stream belongs to its packet n \div UNITS + 1.  *)
(***************************************************************************)
EXTENDS PacketCodec

CONSTANTS ServerPackets,   \* what the server may write: <<type, status, text lengths>>
          Expected,        \* the types the client waits for
          MaxIn, MaxOut,   \* bounds: packets written by each side of a connection
          MAX_ATTEMPTS,    \* 3
          MAX_PAYLOAD_SIZE,
          Lengths          \* of the texts of the packets whose layout is checked

PREFIX == 2
BODY == 2
UNITS == PREFIX + BODY

ASSUME AttemptsAssumption == MAX_ATTEMPTS \in Nat \ {0}

ASSUME BoundsAssumption == MaxIn \in Nat /\ MaxOut \in Nat /\ MAX_PAYLOAD_SIZE \in Nat

(* A packet of the server, with values and texts *)
Sent(p) == Packet(p[1], p[2], p[3])

(* What the server writes are packets, and their texts are no longer than  *)
(* their length fields can tell.                                           *)
ASSUME PacketsAssumption ==
  /\ Lengths \subseteq Nat
  /\ \A p \in ServerPackets :
       /\ p[1] \in PacketTypes \ {"FILE_ENTRY"} /\ p[2] \in Statuses(p[1])
       /\ p[3] \in Nat \X Nat
       /\ Fits(Sent(p))

VARIABLES
  m_socket,        \* "none", "open", or "closed": a handle that was closed and kept
  m_is_connected,
  server,          \* the packets the server has written on this connection
  arrived,         \* how many of their units have arrived
  read,            \* how many of those have been read
  pc,              \* "idle", "prefix", "body" or "sending"
  expectedType,    \* of the recvPacket that runs
  start,           \* where it began to read
  want,            \* units it still has to read
  out,             \* the units sent on this connection: <<packet, unit>>
  sends,           \* packets given to sendPacket on this connection
  totalSent, retry_count,
  got,             \* history: the packets that were received, as <<k, as sent?>>
  met,             \* history: the packets that recvPacket read, received or not
  cut,             \* history: a recvPacket ended in the middle of a packet
  gaveUp           \* history: a Send ended before the packet did

NoType == "none"

linkVars == <<m_socket, m_is_connected>>
recvVars == <<arrived, read, expectedType, start, want, got, met, cut>>
sendVars == <<out, sends, totalSent, retry_count, gaveUp>>
vars == <<linkVars, server, recvVars, pc, sendVars>>

-----------------------------------------------------------------------------
(* Connecting *)

Fresh ==
  /\ server' = << >> /\ arrived' = 0 /\ read' = 0 /\ start' = 0 /\ want' = 0
  /\ out' = << >> /\ sends' = 0 /\ totalSent' = 0 /\ retry_count' = 0
  /\ got' = << >> /\ met' = << >> /\ cut' = FALSE /\ gaveUp' = FALSE
  /\ UNCHANGED <<pc, expectedType>>

(* Connect; nothing is on the new connection. *)
ConnectSucceeds ==
  /\ m_socket' = "open" /\ m_is_connected' = TRUE
  /\ Fresh

(* The socket is closed, but its handle is kept; or there is no socket. *)
ConnectFails(flag) ==
  /\ m_socket' \in {"closed", "none"}
  /\ m_is_connected' = flag
  /\ Fresh

(* Who calls Connect has called Disconnect before, or has a new client. *)
Connect ==
  /\ pc = "idle" /\ ~m_is_connected
  /\ ConnectSucceeds \/ ConnectFails(m_is_connected)

(* Mutant of Reconnect: the old connection is not closed first *)
ReconnectOnly == pc = "idle" /\ (ConnectSucceeds \/ ConnectFails(m_is_connected))

(* Disconnect, if there is a socket, and Connect *)
Reconnect ==
  /\ pc = "idle"
  /\ ConnectSucceeds \/ ConnectFails(IF m_socket # "none" THEN FALSE ELSE m_is_connected)

Disconnect ==
  /\ pc = "idle"
  /\ m_socket' = "none" /\ m_is_connected' = FALSE
  /\ Fresh

(* Send and Receive return false at once. *)
NotConnected ==
  /\ pc = "idle" /\ ~m_is_connected
  /\ UNCHANGED vars

-----------------------------------------------------------------------------
(* The server and the network, external *)

ServerSends(p) ==
  /\ m_socket = "open" /\ Len(server) < MaxIn
  /\ server' = Append(server, p)
  /\ UNCHANGED <<linkVars, recvVars, pc, sendVars>>

Arrives ==
  /\ m_socket = "open" /\ arrived < UNITS * Len(server)
  /\ arrived' = arrived + 1
  /\ UNCHANGED <<linkVars, server, read, expectedType, start, want, got, met, cut, pc,
                 sendVars>>

-----------------------------------------------------------------------------
(* recvPacket *)

InFrame == start % UNITS = 0

(* The locals of the call are gone. *)
ReceiveEnds == pc' = "idle" /\ expectedType' = NoType /\ start' = 0 /\ want' = 0

PacketAt == start \div UNITS + 1     \* the packet in whose frame it reads

CallReceive(type) ==
  /\ pc = "idle" /\ m_is_connected
  /\ pc' = "prefix" /\ expectedType' = type
  /\ start' = read /\ want' = PREFIX
  /\ UNCHANGED <<linkVars, server, arrived, read, got, met, cut, sendVars>>

(* recv gives what has arrived, here unit by unit. *)
ReadUnit ==
  /\ pc \in {"prefix", "body"} /\ want > 0 /\ read < arrived
  /\ read' = read + 1 /\ want' = want - 1
  /\ UNCHANGED <<linkVars, server, arrived, expectedType, start, got, met, cut, pc,
                 sendVars>>

(* Nothing comes for MAX_TIMEOUT: false, and what was read is lost. *)
TimesOut ==
  /\ pc \in {"prefix", "body"} /\ want > 0 /\ read = arrived
  /\ ReceiveEnds
  /\ cut' = (cut \/ read > start)
  /\ UNCHANGED <<linkVars, server, arrived, read, got, met, sendVars>>

(* encrypted_packet_length is that of the payload and of parts that have   *)
(* the same length in every packet, which are left out.                    *)
LongPackets == {p \in ServerPackets : Len(Payload(Sent(p))) > MAX_PAYLOAD_SIZE}

TooLong(k) == server[k] \in LongPackets

(* A length above MAX_PAYLOAD_SIZE is refused, also that of a packet of    *)
(* the server: its body stays in the stream.                               *)
LengthRefused ==
  /\ pc = "prefix" /\ want = 0
  /\ InFrame => TooLong(PacketAt)
  /\ ReceiveEnds
  /\ cut' = TRUE
  /\ UNCHANGED <<linkVars, server, arrived, read, got, met, sendVars>>

(* Mutant of PrefixRead: the length of the prefix is read once more *)
PrefixReadTwice ==
  /\ pc = "prefix" /\ want = 0
  /\ InFrame => ~TooLong(PacketAt)
  /\ pc' = "body"
  /\ want' \in IF InFrame THEN {UNITS} ELSE 0..UNITS
  /\ UNCHANGED <<linkVars, server, arrived, read, expectedType, start, got, met, cut,
                 sendVars>>

(* A prefix that is not one gives any length. *)
PrefixRead ==
  /\ pc = "prefix" /\ want = 0
  /\ InFrame => ~TooLong(PacketAt)
  /\ pc' = "body"
  /\ want' \in IF InFrame THEN {BODY} ELSE 0..UNITS
  /\ UNCHANGED <<linkVars, server, arrived, read, expectedType, start, got, met, cut,
                 sendVars>>

(* The body is decrypted, or not; an error packet or another type than the *)
(* expected one is read and thrown away.                                   *)
BodyRead ==
  /\ pc = "body" /\ want = 0
  /\ ReceiveEnds
  /\ IF InFrame /\ read = start + UNITS
     THEN /\ met' = Append(met, PacketAt)
          /\ \E sent \in {Sent(server[PacketAt])} :
             \E packet \in {Deserialize(sent.type, Serialize(sent))} :
               got' = IF sent.type = expectedType /\ packet # Thrown
                      THEN Append(got, <<PacketAt, AsSent(sent, packet)>>) ELSE got
     ELSE UNCHANGED <<met, got>>
  /\ UNCHANGED <<linkVars, server, arrived, read, cut, sendVars>>

-----------------------------------------------------------------------------
(* sendPacket *)

CallSend ==
  /\ pc = "idle" /\ m_is_connected /\ sends < MaxOut
  /\ pc' = "sending"
  /\ sends' = sends + 1
  /\ UNCHANGED <<linkVars, server, recvVars, out, totalSent, retry_count, gaveUp>>

SendUnit ==
  /\ pc = "sending" /\ totalSent < UNITS /\ retry_count < MAX_ATTEMPTS
  /\ out' = Append(out, <<sends, totalSent + 1>>)
  /\ totalSent' = totalSent + 1
  /\ UNCHANGED <<linkVars, server, recvVars, pc, sends, retry_count, gaveUp>>

(* Mutant of SendFails: the packet is sent again from its first byte *)
SendStartsAgain ==
  /\ pc = "sending" /\ totalSent < UNITS /\ retry_count < MAX_ATTEMPTS
  /\ retry_count' = retry_count + 1 /\ totalSent' = 0
  /\ UNCHANGED <<linkVars, server, recvVars, pc, out, sends, gaveUp>>

SendFails ==
  /\ pc = "sending" /\ totalSent < UNITS /\ retry_count < MAX_ATTEMPTS
  /\ retry_count' = retry_count + 1
  /\ UNCHANGED <<linkVars, server, recvVars, pc, out, sends, totalSent, gaveUp>>

(* Mutant of SendReturns: Send waits until all is sent *)
SendReturnsWhenSent ==
  /\ pc = "sending" /\ totalSent = UNITS
  /\ pc' = "idle" /\ totalSent' = 0 /\ retry_count' = 0
  /\ UNCHANGED <<linkVars, server, recvVars, out, sends, gaveUp>>

(* Send returns true in any case. *)
SendReturns ==
  /\ pc = "sending" /\ (totalSent = UNITS \/ retry_count = MAX_ATTEMPTS)
  /\ pc' = "idle" /\ totalSent' = 0 /\ retry_count' = 0
  /\ gaveUp' = (gaveUp \/ totalSent < UNITS)
  /\ UNCHANGED <<linkVars, server, recvVars, out, sends>>

-----------------------------------------------------------------------------
Init ==
  /\ m_socket = "none" /\ m_is_connected = FALSE
  /\ server = << >> /\ arrived = 0 /\ read = 0
  /\ pc = "idle" /\ expectedType = NoType /\ start = 0 /\ want = 0
  /\ out = << >> /\ sends = 0 /\ totalSent = 0 /\ retry_count = 0
  /\ got = << >> /\ met = << >> /\ cut = FALSE /\ gaveUp = FALSE

(* What a call of the client does, once it runs *)
Step ==
  \/ ReadUnit \/ TimesOut \/ LengthRefused \/ PrefixRead \/ BodyRead
  \/ SendUnit \/ SendFails \/ SendReturns

Next ==
  \/ Connect \/ Reconnect \/ Disconnect \/ NotConnected
  \/ \E p \in ServerPackets : ServerSends(p)
  \/ Arrives
  \/ \E type \in Expected : CallReceive(type)
  \/ CallSend
  \/ Step

Spec == Init /\ [][Next]_vars

(* Every recv and send comes back, at the latest after MAX_TIMEOUT. *)
FairSpec == Spec /\ WF_vars(Step)

-----------------------------------------------------------------------------
(* Properties *)

(* Every variable has its type, nothing is read before it arrives, and a   *)
(* connection is one of an open socket.                                    *)
TypeOK ==
  /\ m_socket \in {"none", "open", "closed"}
  /\ m_is_connected <=> m_socket = "open"
  /\ pc \in {"idle", "prefix", "body", "sending"}
  /\ pc # "idle" => m_is_connected
  /\ Len(server) <= MaxIn /\ arrived \in 0..(UNITS * Len(server)) /\ read \in 0..arrived
  /\ start \in 0..read /\ want \in 0..UNITS
  /\ totalSent \in 0..UNITS /\ retry_count \in 0..MAX_ATTEMPTS

FittingPackets == {p \in AllPackets(Lengths) : Fits(p)}

(* The layout does not depend on the state: it is looked at once. *)
Once == m_socket = "none"

(* What a packet holds is what arrives: each field, and each text that is  *)
(* shorter than its length field can tell (packet_def.hpp), but for the    *)
(* message of AuthenticationResponse and total_size of UploadDirRequest;   *)
(* an entry of a directory needs bytes after it.                           *)
RoundTrip ==
  Once => \A p \in FittingPackets : AsSent(p, Deserialize(p.type, Payload(p)))

(* No payload that ends early is taken for a packet, wherever it ends: no  *)
(* deserialize() reads past its buffer (packet_def.hpp, each size check);  *)
(* but for AuthenticationResponse, whose message is not looked at.         *)
PrefixRefused ==
  Once => \A p \in FittingPackets : p.type # "AUTHENTICATION_RESPONSE" =>
            \A n \in 0..(Len(Payload(p)) - 1) :
              Deserialize(p.type, SubSeq(Payload(p), 1, n)) = Thrown

(* Where in the stream the next call, or the present one, begins to read *)
Position == IF pc \in {"prefix", "body"} THEN start ELSE read

(* How many packets are gone, a part of one included *)
Gone == (Position + UNITS - 1) \div UNITS

Stream == INSTANCE PacketStream WITH
  Packets  <- ServerPackets,
  written  <- server,
  taken    <- Gone,
  returned <- [n \in DOMAIN got |-> IF got[n][2] THEN server[got[n][1]] ELSE Thrown],
  whole    <- ~cut

(* Whatever recv delivers at a time, and whenever it fails, recvPacket     *)
(* takes whole packets in the order in which the server wrote them, and    *)
(* returns them as they were written; none is skipped before a call has    *)
(* ended within a packet, and none outlives its connection (nc.h 65-127,   *)
(* nc.cpp 94-159).                                                         *)
StreamKept == Stream!Spec

(* What recvPacket returns was sent by the server on this connection, in   *)
(* this order, none twice, whatever was lost in between (nc.h 65-127).     *)
ReceivedWasSent ==
  /\ \A n \in DOMAIN got : got[n][1] \in DOMAIN server /\ got[n][2]
  /\ \A m, n \in DOMAIN got : m < n => got[m][1] < got[n][1]

(* As long as no recvPacket has ended in the middle of a packet, by a      *)
(* timeout or for its length, the n-th packet that it reads is the n-th of *)
(* the server: a call that times out before, or that meets an error or     *)
(* another type, loses no other packet and leaves the stream at the next   *)
(* one (nc.h 56-127).                                                      *)
NothingSkipped ==
  pc = "idle" /\ ~cut => read = UNITS * Len(met) /\ \A n \in DOMAIN met : met[n] = n

(* As long as no Send has given up, what is on the wire between two calls  *)
(* is the packets, whole and in order (nc.cpp 51-92).                      *)
SentWhole ==
  pc = "idle" /\ ~gaveUp =>
    out = [n \in 1..(UNITS * sends) |-> <<(n - 1) \div UNITS + 1, ((n - 1) % UNITS) + 1>>]

(* Every sendPacket and recvPacket returns (nc.cpp 61-91, 104-132).        *)
CallReturns == pc # "idle" ~> pc = "idle"

=============================================================================
