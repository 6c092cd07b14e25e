--------------------------- MODULE ConnectionProofs ---------------------------
(***************************************************************************)
(* Streams stay in frame, and what the server writes arrives as it was:    *)
(* proofs about Connection, with those about the layout of the packets.    *)
(***************************************************************************)
EXTENDS Connection, PacketCodecProofs

TypeInv ==
  /\ TypeOK
  /\ server \in Seq(ServerPackets) /\ met \in Seq(Nat)
  /\ sends \in Nat /\ cut \in BOOLEAN /\ gaveUp \in BOOLEAN

(* The packets that were read are the first ones, and the call that runs   *)
(* is in the next one.                                                     *)
InStep ==
  /\ \A n \in DOMAIN met : met[n] = n
  /\ pc \in {"idle", "sending"} => read = UNITS * Len(met)
  /\ pc \in {"prefix", "body"} => start = UNITS * Len(met)
  /\ pc = "prefix" => want <= PREFIX /\ read = start + PREFIX - want
  /\ pc = "body" => want <= BODY /\ read = start + UNITS - want

StreamInv == ~cut => InStep

(* What has been sent, up to some unit of the last packet *)
Units(m) == [n \in 1..m |-> <<(n - 1) \div UNITS + 1, ((n - 1) % UNITS) + 1>>]

SendInv ==
  /\ pc # "sending" => totalSent = 0 /\ retry_count = 0
  /\ pc = "sending" => sends > 0
  /\ ~gaveUp => out = Units(IF pc = "sending" THEN UNITS * (sends - 1) + totalSent
                            ELSE UNITS * sends)

ConnectionInv == TypeInv /\ StreamInv /\ SendInv

Widths == UNITS = 4 /\ PREFIX = 2 /\ BODY = 2

LEMMA WidthsFact == Widths
BY DEF Widths, UNITS, PREFIX, BODY

LEMMA NoUnits == Units(0) = << >>
BY DEF Units

-----------------------------------------------------------------------------
LEMMA FreshInv ==
  ASSUME Fresh, pc = "idle",
         m_socket' \in {"none", "open", "closed"}, m_is_connected' <=> m_socket' = "open"
  PROVE  ConnectionInv'
<1>1. TypeInv'
  <2>1. << >> \in Seq(ServerPackets) /\ << >> \in Seq(Nat)
    OBVIOUS
  <2>2. pc' = "idle"
    BY DEF Fresh
  <2>3. /\ Len(server') <= MaxIn /\ arrived' \in 0..(UNITS * Len(server')) /\ read' \in 0..arrived'
        /\ start' \in 0..read' /\ want' \in 0..UNITS
        /\ totalSent' \in 0..UNITS /\ retry_count' \in 0..MAX_ATTEMPTS
    BY WidthsFact, AttemptsAssumption, BoundsAssumption DEF Fresh, Widths
  <2>4. TypeOK'
    BY <2>2, <2>3 DEF TypeOK
  <2> QED BY <2>1, <2>4 DEF Fresh, TypeInv
<1>2. StreamInv'
  BY WidthsFact DEF Fresh, StreamInv, InStep, Widths
<1>3. SendInv'
  BY WidthsFact, NoUnits DEF Fresh, SendInv, Widths
<1> QED BY <1>1, <1>2, <1>3 DEF ConnectionInv

LEMMA InitConnection == Init => ConnectionInv
<1> SUFFICES ASSUME Init PROVE ConnectionInv
  OBVIOUS
<1>1. << >> \in Seq(ServerPackets) /\ << >> \in Seq(Nat)
  OBVIOUS
<1>2. /\ Len(server) <= MaxIn /\ arrived \in 0..(UNITS * Len(server)) /\ read \in 0..arrived
      /\ start \in 0..read /\ want \in 0..UNITS
      /\ totalSent \in 0..UNITS /\ retry_count \in 0..MAX_ATTEMPTS
  BY WidthsFact, AttemptsAssumption, BoundsAssumption DEF Init, Widths
<1>3. TypeOK
  BY <1>2 DEF Init, TypeOK
<1>4. TypeInv
  BY <1>1, <1>3 DEF Init, TypeInv
<1>5. StreamInv
  BY WidthsFact DEF Init, StreamInv, InStep, Widths
<1>6. SendInv
  BY WidthsFact, NoUnits DEF Init, SendInv, Widths
<1> QED BY <1>4, <1>5, <1>6 DEF ConnectionInv

(* Connecting and disconnecting begin new streams. *)
LEMMA LinkSteps ==
  ASSUME ConnectionInv, Connect \/ Reconnect \/ Disconnect
  PROVE  ConnectionInv'
<1> USE DEF ConnectSucceeds, ConnectFails, ConnectionInv, TypeInv, TypeOK
<1>1. CASE Connect
  <2>1. ConnectSucceeds \/ (m_socket' \in {"closed", "none"} /\ ~m_is_connected' /\ Fresh)
    BY <1>1 DEF Connect
  <2> QED BY <1>1, <2>1, FreshInv DEF Connect
<1>2. CASE Reconnect
  <2>1. ConnectSucceeds \/ (m_socket' \in {"closed", "none"} /\ ~m_is_connected' /\ Fresh)
    BY <1>2 DEF Reconnect
  <2> QED BY <1>2, <2>1, FreshInv DEF Reconnect
<1>3. CASE Disconnect
  BY <1>3, FreshInv DEF Disconnect
<1> QED BY <1>1, <1>2, <1>3

-----------------------------------------------------------------------------
(* The server and the network *)

LEMMA ServerSteps ==
  ASSUME ConnectionInv, Arrives \/ \E p \in ServerPackets : ServerSends(p)
  PROVE  ConnectionInv'
<1> USE WidthsFact DEF Widths, linkVars, recvVars, sendVars
<1>1. CASE Arrives
  <2>1. TypeInv'
    BY <1>1 DEF Arrives, ConnectionInv, TypeInv, TypeOK
  <2> QED BY <1>1, <2>1 DEF Arrives, ConnectionInv, StreamInv, InStep, SendInv
<1>2. ASSUME NEW p \in ServerPackets, ServerSends(p) PROVE ConnectionInv'
  <2>1. server' \in Seq(ServerPackets) /\ Len(server') = Len(server) + 1 /\ Len(server') <= MaxIn
    BY <1>2, BoundsAssumption DEF ServerSends, ConnectionInv, TypeInv
  <2>2. arrived' \in 0..(UNITS * Len(server'))
    BY <1>2, <2>1 DEF ServerSends, ConnectionInv, TypeInv, TypeOK
  <2>3. TypeInv'
    BY <1>2, <2>1, <2>2 DEF ServerSends, ConnectionInv, TypeInv, TypeOK
  <2> QED BY <1>2, <2>3 DEF ServerSends, ConnectionInv, StreamInv, InStep, SendInv
<1> QED BY <1>1, <1>2

-----------------------------------------------------------------------------
(* recvPacket *)

ReceiveStep ==
  (\E type \in Expected : CallReceive(type)) \/ ReadUnit \/ TimesOut \/ LengthRefused \/ PrefixRead

LEMMA ReceiveSteps == ASSUME ConnectionInv, ReceiveStep PROVE ConnectionInv'
<1> USE WidthsFact DEF Widths, linkVars, recvVars, sendVars, ConnectionInv, ReceiveEnds
<1>1. ASSUME NEW type \in Expected, CallReceive(type) PROVE ConnectionInv'
  <2>1. TypeInv'
    BY <1>1 DEF CallReceive, TypeInv, TypeOK
  <2>2. StreamInv'
    BY <1>1 DEF CallReceive, StreamInv, InStep, TypeInv, TypeOK
  <2> QED BY <1>1, <2>1, <2>2 DEF CallReceive, SendInv
<1>2. CASE ReadUnit
  <2>1. TypeInv'
    BY <1>2 DEF ReadUnit, TypeInv, TypeOK
  <2>2. StreamInv'
    BY <1>2 DEF ReadUnit, StreamInv, InStep, TypeInv, TypeOK
  <2> QED BY <1>2, <2>1, <2>2 DEF ReadUnit, SendInv
<1>3. CASE TimesOut
  <2>1. TypeInv'
    BY <1>3 DEF TimesOut, TypeInv, TypeOK
  <2>2. StreamInv'
    <3> SUFFICES ASSUME ~cut' PROVE InStep'
      BY DEF StreamInv
    <3>1. ~cut /\ ~(read > start)
      BY <1>3 DEF TimesOut
    <3>2. pc = "prefix" /\ read = UNITS * Len(met)
      BY <1>3, <3>1 DEF TimesOut, StreamInv, InStep, TypeInv, TypeOK
    <3> QED BY <1>3, <3>1, <3>2 DEF TimesOut, StreamInv, InStep
  <2> QED BY <1>3, <2>1, <2>2 DEF TimesOut, SendInv
<1>4. CASE PrefixRead
  <2>1. TypeInv'
    BY <1>4 DEF PrefixRead, TypeInv, TypeOK
  <2>2. StreamInv'
    <3>1. ~cut => InFrame
      BY <1>4 DEF PrefixRead, StreamInv, InStep, InFrame, TypeInv
    <3> QED BY <1>4, <3>1 DEF PrefixRead, StreamInv, InStep, TypeInv, TypeOK
  <2> QED BY <1>4, <2>1, <2>2 DEF PrefixRead, SendInv
<1>5. CASE LengthRefused
  <2>1. TypeInv'
    BY <1>5 DEF LengthRefused, TypeInv, TypeOK
  <2>2. StreamInv'
    BY <1>5 DEF LengthRefused, StreamInv
  <2> QED BY <1>5, <2>1, <2>2 DEF LengthRefused, SendInv
<1> QED BY <1>1, <1>2, <1>3, <1>4, <1>5 DEF ReceiveStep

(* The body of the next packet, whatever it holds *)
LEMMA BodySteps == ASSUME ConnectionInv, BodyRead PROVE ConnectionInv'
<1> USE WidthsFact DEF Widths, linkVars, recvVars, sendVars, ConnectionInv, ReceiveEnds
<1>1. /\ pc = "body" /\ want = 0 /\ pc' = "idle" /\ start' = 0 /\ want' = 0
      /\ UNCHANGED <<linkVars, server, arrived, read, cut, sendVars>>
      /\ met' = IF InFrame /\ read = start + UNITS THEN Append(met, PacketAt) ELSE met
  BY DEF BodyRead
<1>2. PacketAt \in Nat
  BY DEF PacketAt, TypeInv, TypeOK
<1>3. TypeInv'
  BY <1>1, <1>2 DEF TypeInv, TypeOK
<1>4. StreamInv'
  <2> SUFFICES ASSUME ~cut PROVE InStep'
    BY <1>1 DEF StreamInv
  <2>1. InFrame /\ read = start + UNITS /\ PacketAt = Len(met) + 1
    BY <1>1 DEF StreamInv, InStep, InFrame, PacketAt, TypeInv, TypeOK
  <2>2. met' = Append(met, Len(met) + 1)
    BY <1>1, <2>1
  <2>3. \A n \in DOMAIN met' : met'[n] = n
    BY <2>2 DEF StreamInv, InStep, TypeInv
  <2> QED BY <1>1, <2>1, <2>2, <2>3 DEF StreamInv, InStep, TypeInv, TypeOK
<1> QED BY <1>1, <1>3, <1>4 DEF SendInv

-----------------------------------------------------------------------------
(* sendPacket *)

LEMMA NextUnit ==
  ASSUME NEW s \in Nat \ {0}, NEW t \in 0..3
  PROVE  Append(Units(UNITS * (s - 1) + t), <<s, t + 1>>) = Units(UNITS * (s - 1) + (t + 1))
<1> DEFINE m == UNITS * (s - 1) + t
<1>1. m \in Nat /\ m \div UNITS + 1 = s /\ (m % UNITS) + 1 = t + 1
  BY WidthsFact DEF Widths
<1>2. UNITS * (s - 1) + (t + 1) = m + 1
  BY WidthsFact DEF Widths
<1> HIDE DEF m
<1>3. Append(Units(m), <<m \div UNITS + 1, (m % UNITS) + 1>>) = Units(m + 1)
  BY <1>1 DEF Units
<1> QED BY <1>1, <1>2, <1>3 DEF m

SendStep == CallSend \/ SendUnit \/ SendFails \/ SendReturns

LEMMA SendSteps == ASSUME ConnectionInv, SendStep PROVE ConnectionInv'
<1> USE WidthsFact DEF Widths, linkVars, recvVars, sendVars, ConnectionInv
<1>1. CASE CallSend
  <2>1. TypeInv'
    BY <1>1 DEF CallSend, TypeInv, TypeOK
  <2>2. StreamInv'
    BY <1>1 DEF CallSend, StreamInv, InStep
  <2>3. UNITS * (sends' - 1) + totalSent' = UNITS * sends
    BY <1>1 DEF CallSend, SendInv, TypeInv
  <2> QED BY <1>1, <2>1, <2>2, <2>3 DEF CallSend, SendInv, TypeInv
<1>2. CASE SendUnit
  <2>1. TypeInv'
    BY <1>2 DEF SendUnit, TypeInv, TypeOK
  <2>2. StreamInv'
    BY <1>2 DEF SendUnit, StreamInv, InStep
  <2>3. sends \in Nat \ {0} /\ totalSent \in 0..3
    BY <1>2 DEF SendUnit, SendInv, TypeInv, TypeOK
  <2>4. ~gaveUp => out' = Units(UNITS * (sends - 1) + (totalSent + 1))
    BY <1>2, <2>3, NextUnit DEF SendUnit, SendInv
  <2> QED BY <1>2, <2>1, <2>2, <2>4 DEF SendUnit, SendInv
<1>3. CASE SendFails
  <2>1. TypeInv'
    BY <1>3, AttemptsAssumption DEF SendFails, TypeInv, TypeOK
  <2>2. StreamInv'
    BY <1>3 DEF SendFails, StreamInv, InStep
  <2> QED BY <1>3, <2>1, <2>2 DEF SendFails, SendInv
<1>4. CASE SendReturns
  <2>1. TypeInv'
    BY <1>4, AttemptsAssumption DEF SendReturns, TypeInv, TypeOK
  <2>2. StreamInv'
    BY <1>4 DEF SendReturns, StreamInv, InStep
  <2>3. totalSent = UNITS => UNITS * (sends - 1) + totalSent = UNITS * sends
    BY DEF TypeInv
  <2>4. SendInv'
    <3> SUFFICES ASSUME ~gaveUp' PROVE out' = Units(UNITS * sends')
      BY <1>4 DEF SendReturns, SendInv
    <3>1. ~gaveUp /\ ~(totalSent < UNITS)
      BY <1>4 DEF SendReturns
    <3>2. totalSent = UNITS
      BY <3>1 DEF TypeInv, TypeOK
    <3> QED BY <1>4, <2>3, <3>1, <3>2 DEF SendReturns, SendInv
  <2> QED BY <2>1, <2>2, <2>4
<1> QED BY <1>1, <1>2, <1>3, <1>4 DEF SendStep

-----------------------------------------------------------------------------
LEMMA NextConnection == ASSUME ConnectionInv, [Next]_vars PROVE ConnectionInv'
<1>1. CASE NotConnected \/ UNCHANGED vars
  BY <1>1 DEF NotConnected, vars, linkVars, recvVars, sendVars, ConnectionInv, TypeInv, TypeOK,
              StreamInv, InStep, SendInv
<1> QED BY <1>1, LinkSteps, ServerSteps, ReceiveSteps, BodySteps, SendSteps
           DEF Next, Step, ReceiveStep, SendStep

LEMMA ConnectionInvariance == Spec => []ConnectionInv
BY InitConnection, NextConnection, PTL DEF Spec

(* For all packets of the server, numbers of packets and of attempts, what *)
(* is read has arrived, and who sends or receives has an open socket.      *)
THEOREM TypeCorrect == Spec => []TypeOK
<1>1. ConnectionInv => TypeOK BY DEF ConnectionInv, TypeInv
<1> QED BY <1>1, ConnectionInvariance, PTL

(* As long as no receive ended within a packet, by a timeout or for its    *)
(* length, the stream is at the next packet after every call, and none was *)
(* skipped (nc.h 56-127).                                                  *)
THEOREM NoneSkipped == Spec => []NothingSkipped
<1>1. ConnectionInv => NothingSkipped
  BY DEF ConnectionInv, StreamInv, InStep, NothingSkipped
<1> QED BY <1>1, ConnectionInvariance, PTL

(* As long as no send gave up, what was sent between two calls is whole    *)
(* packets in order (nc.cpp 51-92).                                        *)
THEOREM WholeSent == Spec => []SentWhole
<1>1. ConnectionInv => SentWhole
  BY DEF ConnectionInv, SendInv, SentWhole, Units
<1> QED BY <1>1, ConnectionInvariance, PTL

-----------------------------------------------------------------------------
(* What recvPacket returns: each packet was read after those before it.    *)

Arrived(p) == Deserialize(Sent(p).type, Serialize(Sent(p)))

(* The layout carries what the server sends. *)
LayoutHolds == \A p \in ServerPackets : AsSent(Sent(p), Arrived(p))

LEMMA LayoutFact == LayoutHolds
<1> SUFFICES ASSUME NEW p \in ServerPackets PROVE AsSent(Sent(p), Arrived(p))
  BY DEF LayoutHolds
<1>1. /\ p[1] \in PacketTypes \ {"FILE_ENTRY"} /\ p[2] \in Statuses(p[1])
      /\ p[3] \in Nat \X Nat /\ Fits(Sent(p))
  BY PacketsAssumption DEF Sent
<1>2. IsPacket(Sent(p))
  BY <1>1, PacketIsOne DEF Sent
<1>3. Sent(p).type = p[1]
  BY DEF Sent, Packet
<1>4. Payload(Sent(p)) = Serialize(Sent(p))
  BY <1>1, <1>2, <1>3, SerializedWhole
<1>5. AsSent(Sent(p), Deserialize(Sent(p).type, Payload(Sent(p))))
  BY <1>1, <1>2, WhatIsWrittenIsRead
<1> QED BY <1>4, <1>5 DEF Arrived

Got == Nat \X {TRUE}

OrderInv ==
  /\ got \in Seq(Got)
  /\ \A n \in DOMAIN got :
       /\ got[n][1] \in 1..Len(server) /\ UNITS * got[n][1] <= Position
       /\ \A m \in DOMAIN got : m < n => got[m][1] < got[n][1]

LEMMA GotPair == ASSUME NEW k \in Nat PROVE <<k, TRUE>> \in Got
BY DEF Got

LEMMA GotFields == ASSUME NEW r \in Got PROVE r[1] \in Nat /\ r[2]
BY DEF Got

LEMMA AppendElements ==
  ASSUME NEW S, NEW q \in Seq(S), NEW x \in S
  PROVE  /\ Append(q, x) \in Seq(S)
         /\ DOMAIN q = 1..Len(q) /\ Len(q) \in Nat
         /\ \A n \in DOMAIN Append(q, x) :
              (n \in DOMAIN q /\ Append(q, x)[n] = q[n]) \/ (n = Len(q) + 1 /\ Append(q, x)[n] = x)
OBVIOUS

LEMMA InitOrder == Init => OrderInv
BY DEF Init, OrderInv

(* A packet is read where its frame begins. *)
LEMMA PacketRead ==
  ASSUME ConnectionInv, pc = "body", InFrame, read = start + UNITS
  PROVE  PacketAt \in 1..Len(server) /\ UNITS * PacketAt = read /\ start < UNITS * PacketAt
<1>1. start \in Nat /\ read \in Nat /\ Len(server) \in Nat /\ read <= UNITS * Len(server)
  BY WidthsFact DEF Widths, ConnectionInv, TypeInv, TypeOK
<1>2. start = UNITS * (start \div UNITS) /\ start \div UNITS \in Nat
  BY <1>1, WidthsFact DEF Widths, InFrame
<1> QED BY <1>1, <1>2, WidthsFact DEF Widths, PacketAt

(* What is returned is the packet whose frame was read. *)
LEMMA BodyReturns ==
  ASSUME ConnectionInv, BodyRead, ~UNCHANGED got
  PROVE  InFrame /\ read = start + UNITS /\ got' = Append(got, <<PacketAt, TRUE>>)
<1> DEFINE sent == Sent(server[PacketAt])
           packet == Arrived(server[PacketAt])
<1>1. InFrame /\ read = start + UNITS /\ pc = "body"
  BY DEF BodyRead
<1>2. got' = Append(got, <<PacketAt, AsSent(sent, packet)>>)
  BY <1>1 DEF BodyRead, Sent, Arrived
<1>3. AsSent(sent, packet) = TRUE
  <2>1. server[PacketAt] \in ServerPackets
    BY <1>1, PacketRead DEF ConnectionInv, TypeInv
  <2>2. AsSent(sent, packet)
    BY <2>1, LayoutFact DEF LayoutHolds
  <2>3. AsSent(sent, packet) \in BOOLEAN
    BY DEF AsSent
  <2> QED BY <2>2, <2>3
<1> QED BY <1>1, <1>2, <1>3

LEMMA NextOrder ==
  ASSUME ConnectionInv, OrderInv, [Next]_vars
  PROVE  OrderInv'
<1> USE DEF linkVars, recvVars, sendVars
<1>0. /\ read \in Nat /\ start \in Nat /\ start <= read /\ Position \in Nat
      /\ server \in Seq(ServerPackets) /\ Len(server) \in Nat
      /\ \A n \in DOMAIN got : got[n][1] \in Nat
  BY WidthsFact, GotFields DEF Widths, ConnectionInv, TypeInv, TypeOK, Position, OrderInv
<1>1. ASSUME UNCHANGED got, Position <= Position', Position' \in Nat,
             Len(server') \in Nat, Len(server) <= Len(server')
      PROVE  OrderInv'
  <2>1. ASSUME NEW n \in DOMAIN got
        PROVE  got[n][1] \in 1..Len(server') /\ UNITS * got[n][1] <= Position'
    BY <1>0, <1>1, <2>1, WidthsFact DEF Widths, OrderInv
  <2> QED BY <1>1, <2>1 DEF OrderInv
<1>2. CASE UNCHANGED <<got, server, read, start, pc>>
  BY <1>0, <1>1, <1>2 DEF Position
<1>3. CASE \E p \in ServerPackets : ServerSends(p)
  <2>1. Len(server') = Len(server) + 1
    BY <1>0, <1>3 DEF ServerSends
  <2> QED BY <1>0, <1>1, <1>3, <2>1 DEF ServerSends, Position
<1>4. CASE \/ \E type \in Expected : CallReceive(type)
           \/ ReadUnit \/ TimesOut \/ LengthRefused \/ PrefixRead
  <2>1. UNCHANGED <<got, server>> /\ Position <= Position' /\ Position' \in Nat
    <3>1. CASE \E type \in Expected : CallReceive(type)
      BY <1>0, <3>1 DEF CallReceive, Position
    <3>2. CASE ReadUnit
      BY <1>0, <3>2 DEF ReadUnit, Position
    <3>3. CASE TimesOut
      BY <1>0, <3>3 DEF TimesOut, ReceiveEnds, Position
    <3>4. CASE PrefixRead
      BY <1>0, <3>4 DEF PrefixRead, Position
    <3>5. CASE LengthRefused
      BY <1>0, <3>5 DEF LengthRefused, ReceiveEnds, Position
    <3> QED BY <1>4, <3>1, <3>2, <3>3, <3>4, <3>5
  <2> QED BY <1>0, <1>1, <2>1
<1>5. CASE SendStep
  <2>1. UNCHANGED <<got, server, read, start>> /\ Position' = read /\ Position = read
    BY <1>5 DEF SendStep, CallSend, SendUnit, SendFails, SendReturns, Position
  <2> QED BY <1>0, <1>1, <2>1
<1>6. CASE BodyRead
  <2>1. pc = "body" /\ pc' = "idle" /\ UNCHANGED <<server, read>>
    BY <1>6 DEF BodyRead, ReceiveEnds
  <2>2. Position = start /\ Position' = read
    BY <2>1 DEF Position
  <2>3. CASE UNCHANGED got
    BY <1>0, <1>1, <2>1, <2>2, <2>3
  <2>4. CASE ~UNCHANGED got
    <3>1. InFrame /\ read = start + UNITS
      BY <1>6, <2>4, BodyReturns
    <3>2. PacketAt \in 1..Len(server) /\ UNITS * PacketAt = read /\ start < UNITS * PacketAt
      BY <2>1, <3>1, PacketRead
    <3> DEFINE next == <<PacketAt, TRUE>>
    <3>5. got' = Append(got, next)
      BY <1>6, <2>4, BodyReturns
    <3>6. got \in Seq(Got) /\ next \in Got /\ next[1] = PacketAt
      <4>1. PacketAt \in Nat
        BY <1>0, <3>2
      <4>2. next \in Got
        BY <4>1, GotPair
      <4>3. got \in Seq(Got)
        BY DEF OrderInv
      <4>4. next[1] = PacketAt
        OBVIOUS
      <4> QED BY <4>2, <4>3, <4>4
    <3> HIDE DEF next
    <3>7. got' \in Seq(Got)
      BY <3>5, <3>6, AppendElements
    <3>8. \A n \in DOMAIN got' :
            (n \in DOMAIN got /\ got'[n] = got[n]) \/ (n = Len(got) + 1 /\ got'[n] = next)
      BY <3>5, <3>6, AppendElements
    <3>9. DOMAIN got = 1..Len(got) /\ Len(got) \in Nat
      BY <3>6, AppendElements
    <3>10. ASSUME NEW n \in DOMAIN got
           PROVE  /\ got[n][1] \in 1..Len(server) /\ UNITS * got[n][1] <= read
                  /\ got[n][1] < PacketAt
      BY <1>0, <2>2, <3>2, <3>10, WidthsFact DEF Widths, OrderInv
    <3>11. ASSUME NEW n \in DOMAIN got', NEW m \in DOMAIN got', m < n
           PROVE  got'[m][1] < got'[n][1]
      <4>1. m \in DOMAIN got /\ got'[m] = got[m]
        BY <3>5, <3>6, <3>8, <3>9, <3>11
      <4>2. CASE n \in DOMAIN got /\ got'[n] = got[n]
        BY <3>11, <4>1, <4>2 DEF OrderInv
      <4>3. CASE got'[n] = next
        BY <3>6, <3>10, <4>1, <4>3
      <4> QED BY <3>8, <4>2, <4>3
    <3>12. ASSUME NEW n \in DOMAIN got'
           PROVE  got'[n][1] \in 1..Len(server) /\ UNITS * got'[n][1] <= read
      <4>1. CASE n \in DOMAIN got /\ got'[n] = got[n]
        BY <3>10, <4>1
      <4>2. CASE got'[n] = next
        BY <1>0, <3>2, <3>6, <4>2
      <4> QED BY <3>8, <4>1, <4>2
    <3> QED BY <2>1, <2>2, <3>7, <3>11, <3>12 DEF OrderInv
  <2> QED BY <2>3, <2>4
<1>7. CASE Fresh
  <2>1. got' = << >>
    BY <1>7 DEF Fresh
  <2> QED BY <2>1 DEF OrderInv
<1>8. CASE Connect \/ Reconnect \/ Disconnect
  BY <1>7, <1>8 DEF Connect, Reconnect, Disconnect, ConnectSucceeds, ConnectFails
<1>9. CASE Arrives \/ NotConnected \/ UNCHANGED vars
  BY <1>2, <1>9 DEF Arrives, NotConnected, vars
<1> QED BY <1>3, <1>4, <1>5, <1>6, <1>8, <1>9 DEF Next, Step, SendStep

(* What recvPacket returns are packets of the server on this connection as *)
(* they were sent, in this order and none twice, whatever was lost in      *)
(* between (nc.h 65-127).                                                  *)
THEOREM ReceivedSent == Spec => []ReceivedWasSent
<1>1. Init => ConnectionInv /\ OrderInv
  BY InitConnection, InitOrder
<1>2. ConnectionInv /\ OrderInv /\ [Next]_vars => (ConnectionInv /\ OrderInv)'
  BY NextConnection, NextOrder
<1>3. ConnectionInv /\ OrderInv => ReceivedWasSent
  <2> SUFFICES ASSUME ConnectionInv, OrderInv PROVE ReceivedWasSent
    OBVIOUS
  <2>1. \A n \in DOMAIN got : got[n] \in Got
    BY DEF OrderInv
  <2>2. DOMAIN server = 1..Len(server)
    BY DEF ConnectionInv, TypeInv
  <2> QED BY <2>1, <2>2, GotFields DEF OrderInv, ReceivedWasSent
<1> QED BY <1>1, <1>2, <1>3, PTL DEF Spec

-----------------------------------------------------------------------------
(* The layout of the packets, for texts of any lengths *)

LEMMA FittingPacketsAre == ASSUME NEW p \in FittingPackets PROVE IsPacket(p) /\ Fits(p)
BY PacketsAssumption, AllArePackets DEF FittingPackets

(* Each field, and each text that is shorter than its length field can     *)
(* tell, arrives as it was written (packet_def.hpp), for texts and lengths *)
(* of any size; see WhatIsWrittenIsRead for any values.                    *)
THEOREM LayoutRoundTrip == Spec => []RoundTrip
<1>1. RoundTrip
  BY FittingPacketsAre, WhatIsWrittenIsRead DEF RoundTrip
<1> QED BY <1>1, PTL

(* No payload that ends early is taken for a packet, wherever it ends      *)
(* (packet_def.hpp, each size check), but for AuthenticationResponse.      *)
THEOREM LayoutPrefixRefused == Spec => []PrefixRefused
<1>1. PrefixRefused
  BY FittingPacketsAre, EarlyEndIsRefused DEF PrefixRefused
<1> QED BY <1>1, PTL

-----------------------------------------------------------------------------
(* The connection implements a stream of packets. *)

Returned == [n \in DOMAIN got |-> server[got[n][1]]]

StreamFacts ==
  /\ server \in Seq(ServerPackets) /\ Len(server) \in Nat
  /\ Position \in Nat /\ Position <= UNITS * Len(server)

LEMMA StreamFactsHold == ASSUME ConnectionInv PROVE StreamFacts
BY WidthsFact DEF Widths, StreamFacts, ConnectionInv, TypeInv, TypeOK, Position

LEMMA GoneOf ==
  ASSUME NEW n \in Nat, NEW position \in Nat, position <= UNITS * n
  PROVE  (position + UNITS - 1) \div UNITS \in 0..n
BY WidthsFact DEF Widths

LEMMA GoneGrows ==
  ASSUME NEW m \in Nat, NEW n \in Nat, m <= n
  PROVE  (m + UNITS - 1) \div UNITS <= (n + UNITS - 1) \div UNITS
BY WidthsFact DEF Widths

LEMMA GoneType == ASSUME StreamFacts PROVE Gone \in 0..Len(server)
BY GoneOf DEF StreamFacts, Gone

(* What was returned is as it was sent. *)
LEMMA StreamVars ==
  ASSUME OrderInv
  PROVE  [n \in DOMAIN got |-> IF got[n][2] THEN server[got[n][1]] ELSE Thrown] = Returned
<1>1. \A n \in DOMAIN got : got[n][2]
  BY GotFields DEF OrderInv
<1> QED BY <1>1 DEF Returned

(* What a step does to the stream *)
LEMMA Skips ==
  ASSUME StreamFacts, StreamFacts', UNCHANGED <<server, got>>, Position <= Position'
  PROVE  Gone' \in Gone..Len(server) /\ UNCHANGED Returned
<1> DEFINE g == Gone
           h == Gone'
<1>1. Len(server) \in Nat /\ g \in 0..Len(server)
  BY GoneType DEF StreamFacts
<1>2. Position \in Nat /\ Position' \in Nat /\ Position' <= UNITS * Len(server)
  BY DEF StreamFacts
<1>3. h \in 0..Len(server)
  BY <1>1, <1>2, GoneOf DEF Gone
<1>4. g <= h
  BY <1>2, GoneGrows DEF Gone
<1> HIDE DEF g, h
<1>5. h \in g..Len(server)
  BY <1>1, <1>3, <1>4
<1> QED BY <1>5 DEF Returned, g, h

LEMMA Writes ==
  ASSUME StreamFacts, OrderInv, NEW p \in ServerPackets, ServerSends(p)
  PROVE  server' = Append(server, p) /\ UNCHANGED <<Gone, Returned, cut>>
<1> USE DEF linkVars, recvVars, sendVars
<1>1. server' = Append(server, p) /\ UNCHANGED <<got, cut>> /\ Gone' = Gone
  BY DEF ServerSends, Position, Gone
<1>2. ASSUME NEW n \in DOMAIN got PROVE server'[got[n][1]] = server[got[n][1]]
  <2>1. got[n][1] \in 1..Len(server) /\ server \in Seq(ServerPackets)
    BY DEF OrderInv, StreamFacts
  <2> QED BY <1>1, <2>1
<1> QED BY <1>1, <1>2 DEF Returned

LEMMA ReturnedGrows ==
  ASSUME NEW S, NEW s \in Seq(S), NEW q \in Seq(Got),
         \A n \in DOMAIN q : q[n][1] \in 1..Len(s), NEW k \in 1..Len(s),
         NEW more, more = Append(q, <<k, TRUE>>)
  PROVE  [n \in DOMAIN more |-> s[more[n][1]]] = Append([n \in DOMAIN q |-> s[q[n][1]]], s[k])
<1> DEFINE part == [n \in DOMAIN q |-> s[q[n][1]]]
           next == <<k, TRUE>>
<1>1. DOMAIN q = 1..Len(q) /\ Len(q) \in Nat /\ DOMAIN more = 1..(Len(q) + 1)
  OBVIOUS
<1>2. part \in Seq(S) /\ Len(part) = Len(q) /\ part = [n \in 1..Len(q) |-> s[q[n][1]]]
  BY <1>1
<1>3. s[k] \in S /\ next[1] = k
  OBVIOUS
<1>4. ASSUME NEW n \in 1..(Len(q) + 1)
      PROVE  more[n] = IF n <= Len(q) THEN q[n] ELSE next
  BY <1>1
<1> HIDE DEF part, next
<1>5. Append(part, s[k]) = [n \in 1..(Len(q) + 1) |-> IF n <= Len(q) THEN part[n] ELSE s[k]]
  BY <1>1, <1>2, <1>3
<1>6. ASSUME NEW n \in 1..(Len(q) + 1)
      PROVE  s[more[n][1]] = IF n <= Len(q) THEN part[n] ELSE s[k]
  <2>1. CASE n <= Len(q)
    <3>1. n \in 1..Len(q)
      BY <1>1, <2>1
    <3> QED BY <1>2, <1>4, <2>1, <3>1
  <2>2. CASE ~(n <= Len(q))
    BY <1>3, <1>4, <2>2
  <2> QED BY <2>1, <2>2
<1>7. [n \in DOMAIN more |-> s[more[n][1]]] = Append(part, s[k])
  BY <1>1, <1>5, <1>6
<1> QED BY <1>7 DEF part

LEMMA Takes ==
  ASSUME ConnectionInv, StreamFacts, OrderInv, BodyRead, InFrame, read = start + UNITS
  PROVE  /\ Gone < Len(server) /\ Gone' = Gone + 1
         /\ Returned' \in {Returned, Append(Returned, server[Gone + 1])}
         /\ UNCHANGED <<server, cut>>
<1>1. pc = "body" /\ pc' = "idle" /\ UNCHANGED <<server, read, cut>>
  BY DEF BodyRead, ReceiveEnds
<1>2. PacketAt \in 1..Len(server) /\ UNITS * PacketAt = read
  BY <1>1, PacketRead
<1>3. server \in Seq(ServerPackets) /\ Len(server) \in Nat /\ start \in Nat
  BY <1>1 DEF StreamFacts, Position
<1>4. Position = start /\ Position' = read
  BY <1>1 DEF Position
<1>5. Gone + 1 = PacketAt /\ Gone' = PacketAt
  BY <1>2, <1>3, <1>4, WidthsFact DEF Widths, Gone, PacketAt
<1>6. Gone < Len(server)
  BY <1>2, <1>3, <1>5, GoneType
<1>7. Returned' \in {Returned, Append(Returned, server[PacketAt])}
  <2>1. CASE UNCHANGED got
    BY <1>1, <2>1 DEF Returned
  <2>2. CASE ~UNCHANGED got
    <3>1. got' = Append(got, <<PacketAt, TRUE>>)
      BY <2>2, BodyReturns
    <3>2. got \in Seq(Got) /\ \A n \in DOMAIN got : got[n][1] \in 1..Len(server)
      BY DEF OrderInv
    <3>3. [n \in DOMAIN got' |-> server[got'[n][1]]] = Append(Returned, server[PacketAt])
      BY <1>2, <1>3, <3>1, <3>2, ReturnedGrows DEF Returned
    <3> QED BY <1>1, <3>3 DEF Returned
  <2> QED BY <2>1, <2>2
<1> QED BY <1>1, <1>5, <1>6, <1>7

(* Nothing is on a new connection. *)
LEMMA Empties ==
  ASSUME Fresh, pc = "idle"
  PROVE  server' = << >> /\ Gone' = 0 /\ Returned' = << >> /\ cut' = FALSE
<1>1. pc' = "idle" /\ server' = << >> /\ got' = << >> /\ read' = 0 /\ cut' = FALSE
  BY DEF Fresh
<1>2. Gone' = 0
  BY <1>1, WidthsFact DEF Widths, Gone, Position
<1> QED BY <1>1, <1>2 DEF Returned

LEMMA StreamStep ==
  ASSUME ConnectionInv, OrderInv, ConnectionInv', OrderInv', [Next]_vars
  PROVE  [Stream!Next]_(Stream!vars)
<1> USE DEF linkVars, recvVars, sendVars
<1>1. StreamFacts /\ StreamFacts'
  <2>1. StreamFacts' <=> /\ server' \in Seq(ServerPackets) /\ Len(server') \in Nat
                         /\ Position' \in Nat /\ Position' <= UNITS * Len(server')
    BY DEF StreamFacts
  <2>2. StreamFacts'
    BY <2>1, WidthsFact DEF Widths, ConnectionInv, TypeInv, TypeOK, Position
  <2> QED BY <2>2, StreamFactsHold
<1>2. /\ [n \in DOMAIN got |-> IF got[n][2] THEN server[got[n][1]] ELSE Thrown] = Returned
      /\ [n \in DOMAIN got' |-> IF got'[n][2] THEN server'[got'[n][1]] ELSE Thrown] = Returned'
  <2>1. \A n \in DOMAIN got' : got'[n][2]
    BY GotFields DEF OrderInv
  <2> QED BY <2>1, StreamVars DEF Returned
<1>4. CASE UNCHANGED <<server, got, cut>> /\ Position' = Position
  <2>1. UNCHANGED <<server, Gone, Returned, cut>>
    BY <1>4 DEF Gone, Returned
  <2> QED BY <1>2, <2>1 DEF Stream!vars
<1>5. CASE UNCHANGED <<server, got>> /\ Position <= Position' /\ cut'
  <2>1. cut' = TRUE
    BY <1>5 DEF ConnectionInv, TypeInv
  <2>2. Gone' \in Gone..Len(server) /\ UNCHANGED Returned
    BY <1>1, <1>5, Skips
  <2>3. Stream!Skip
    BY <1>2, <1>5, <2>1, <2>2 DEF Stream!Skip
  <2> QED BY <2>3 DEF Stream!Next
<1>6. CASE Fresh /\ pc = "idle"
  <2>1. server' = << >> /\ Gone' = 0 /\ Returned' = << >> /\ cut' = FALSE
    BY <1>6, Empties
  <2>2. Stream!Connect
    BY <1>2, <2>1 DEF Stream!Connect, Stream!Connected
  <2> QED BY <2>2 DEF Stream!Next
<1>7. CASE Connect \/ Reconnect \/ Disconnect
  BY <1>6, <1>7 DEF Connect, Reconnect, Disconnect, ConnectSucceeds, ConnectFails
<1>8. CASE \E p \in ServerPackets : ServerSends(p)
  <2>1. PICK p \in ServerPackets : ServerSends(p)
    BY <1>8
  <2>2. server' = Append(server, p) /\ UNCHANGED <<Gone, Returned, cut>>
    BY <1>1, <2>1, Writes
  <2>3. Stream!Write
    BY <1>2, <2>2 DEF Stream!Write
  <2> QED BY <2>3 DEF Stream!Next
<1>9. CASE Arrives \/ NotConnected \/ UNCHANGED vars
  BY <1>4, <1>9 DEF Arrives, NotConnected, vars, Position
<1>10. CASE \/ \E type \in Expected : CallReceive(type)
            \/ ReadUnit \/ SendStep
  <2>1. UNCHANGED <<server, got, cut>> /\ Position' = Position
    <3>1. CASE \E type \in Expected : CallReceive(type)
      BY <3>1 DEF CallReceive, Position
    <3>2. CASE ReadUnit
      BY <3>2 DEF ReadUnit, Position
    <3>3. CASE SendStep
      BY <3>3 DEF SendStep, CallSend, SendUnit, SendFails, SendReturns, Position
    <3> QED BY <1>10, <3>1, <3>2, <3>3
  <2> QED BY <1>4, <2>1
<1>11. CASE TimesOut
  <2>1. /\ UNCHANGED <<server, got>> /\ Position = start /\ Position' = read
        /\ cut' = (cut \/ read > start)
    BY <1>11 DEF TimesOut, ReceiveEnds, Position
  <2>2. start \in Nat /\ read \in Nat /\ start <= read /\ cut \in BOOLEAN
    BY WidthsFact DEF Widths, ConnectionInv, TypeInv, TypeOK
  <2>3. CASE read = start
    <3>1. UNCHANGED cut
      BY <2>1, <2>2, <2>3
    <3> QED BY <1>4, <2>1, <2>3, <3>1
  <2>4. CASE read # start
    <3>0. read > start
      BY <2>2, <2>4
    <3>1. cut'
      BY <2>1, <3>0, Zenon
    <3> QED BY <1>5, <2>1, <2>2, <3>1
  <2> QED BY <2>3, <2>4
<1>12. CASE PrefixRead
  BY <1>4, <1>12 DEF PrefixRead, Position
<1>14. CASE LengthRefused
  <2>1. UNCHANGED <<server, got>> /\ Position = start /\ Position' = read /\ cut' = TRUE
    BY <1>14 DEF LengthRefused, ReceiveEnds, Position
  <2>2. Position <= Position'
    BY <2>1 DEF ConnectionInv, TypeInv, TypeOK
  <2> QED BY <1>5, <2>1, <2>2
<1>13. CASE BodyRead
  <2>1. CASE InFrame /\ read = start + UNITS
    <3>1. /\ Gone < Len(server) /\ Gone' = Gone + 1
          /\ Returned' \in {Returned, Append(Returned, server[Gone + 1])}
          /\ UNCHANGED <<server, cut>>
      BY <1>1, <1>13, <2>1, Takes
    <3>2. Stream!Receive
      BY <1>2, <3>1 DEF Stream!Receive
    <3> QED BY <3>2 DEF Stream!Next
  <2>2. CASE ~(InFrame /\ read = start + UNITS)
    <3>1. /\ UNCHANGED <<server, got, cut>> /\ Position = start /\ Position' = read
          /\ pc = "body" /\ want = 0
      BY <1>13, <2>2 DEF BodyRead, ReceiveEnds, Position
    <3>2. cut
      BY <2>2, <3>1, WidthsFact DEF Widths, ConnectionInv, StreamInv, InStep, InFrame, TypeInv
    <3>3. Position <= Position'
      BY <3>1 DEF ConnectionInv, TypeInv, TypeOK
    <3> QED BY <1>5, <3>1, <3>2, <3>3
  <2> QED BY <2>1, <2>2
<1> QED BY <1>7, <1>8, <1>9, <1>10, <1>11, <1>12, <1>13, <1>14 DEF Next, Step, SendStep

(* The connection implements a stream of packets: they are taken whole and *)
(* in order, returned as they were written, and none is skipped before a   *)
(* call has ended within one (nc.h 65-127, nc.cpp 94-159).                 *)
THEOREM ConnectionImplementsStream == Spec => StreamKept
<1>1. Init => ConnectionInv /\ OrderInv
  BY InitConnection, InitOrder
<1>2. ConnectionInv /\ OrderInv /\ [Next]_vars => (ConnectionInv /\ OrderInv)'
  BY NextConnection, NextOrder
<1>3. Init => Stream!Init
  <2> SUFFICES ASSUME Init PROVE Stream!Init
    OBVIOUS
  <2>1. server = << >> /\ got = << >> /\ cut = FALSE /\ Gone = 0
    BY WidthsFact DEF Widths, Init, Gone, Position
  <2> QED BY <2>1 DEF Stream!Init, Stream!Connected
<1>4. /\ ConnectionInv /\ OrderInv /\ (ConnectionInv /\ OrderInv)' /\ [Next]_vars
      => [Stream!Next]_(Stream!vars)
  BY StreamStep
<1> QED BY <1>1, <1>2, <1>3, <1>4, PTL DEF Spec, StreamKept, Stream!Spec

=============================================================================
