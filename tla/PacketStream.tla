----------------------------- MODULE PacketStream -----------------------------
(***************************************************************************)
(* What sendPacket of the server and recvPacket of the client make of a    *)
(* connection, with the bytes left out: packets are written one after the  *)
(* other and taken in this order.  A call of recvPacket takes the next     *)
(* packet, and returns it or throws it away, or takes none.  Packets are   *)
(* skipped only once a call has ended within one.                          *)
(*                                                                         *)
(* Connection implements this specification; replies in Upload and         *)
(* Download are what is left of such a stream, of which none is skipped.   *)
(***************************************************************************)
EXTENDS Integers, Sequences

CONSTANT Packets

VARIABLES
  written,    \* the packets, on this connection
  taken,      \* how many of them are gone
  returned,   \* by recvPacket
  whole       \* no call has ended within a packet

vars == <<written, taken, returned, whole>>

Connected == written = << >> /\ taken = 0 /\ returned = << >> /\ whole = TRUE

Init == Connected

(* Nothing is left of an earlier connection. *)
Connect == Connected'

Write ==
  /\ \E p \in Packets : written' = Append(written, p)
  /\ UNCHANGED <<taken, returned, whole>>

Receive ==
  /\ taken < Len(written) /\ taken' = taken + 1
  /\ returned' \in {returned, Append(returned, written[taken + 1])}
  /\ UNCHANGED <<written, whole>>

(* From now on a prefix may be sought where there is none. *)
Skip ==
  /\ taken' \in taken..Len(written)
  /\ whole' = FALSE
  /\ UNCHANGED <<written, returned>>

Next == Connect \/ Write \/ Receive \/ Skip

Spec == Init /\ [][Next]_vars

=============================================================================
