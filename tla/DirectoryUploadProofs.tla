----------------------- MODULE DirectoryUploadProofs -----------------------
(***************************************************************************)
(* Proofs about DirectoryUpload, for every directory, every number of      *)
(* threads and of socket handles.                                          *)
(***************************************************************************)
EXTENDS DirectoryUpload, FiniteSetTheorems, TLAPS

-----------------------------------------------------------------------------
(* Who is where: the threads run only while main starts or joins them, and *)
(* main uploads by itself only in the other calls.                         *)

Places == {"next", "chunk", "remove"}

Control ==
  /\ DOMAIN pc = Procs
  /\ call \in {"none", "single", "sequential", "parallel"}
  /\ call = "none" => pc[Main] = "idle"
  /\ call \in {"single", "sequential"} => pc[Main] \in Places
  /\ call = "parallel" => pc[Main] \in {"distribute", "start", "join"}
  /\ \A p \in Clients : pc[p] # "none" => call = "parallel" /\ pc[Main] \in {"start", "join"}
  /\ pc[Main] = "start" => i \in 0..(NumClients - 1) /\ \A p \in Clients : pc[p] # "none" => p <= i
  /\ \A p \in Clients : pc[p] \notin {"idle", "distribute", "start", "join"}

LEMMA ProcsFacts ==
  /\ Main \in Procs /\ Main \notin Clients /\ Clients \subseteq Procs
  /\ \A p \in Procs : p = Main \/ p \in Clients
BY ClientsAssumption DEF Main, Procs, Clients

(* Where a step of process p leads *)
UploadPlaces == Places \cup {"lock", "unwind"}
ThreadPlaces == UploadPlaces \cup {"push", "connect", "login", "disconnect", "done"}

Moves(p, places) ==
  \/ UNCHANGED <<call, pc>>
  \/ UNCHANGED call /\ \E place \in places : Goto(p, place) /\ (p = Main => place \in Places)
  \/ p = Main /\ call' = "none" /\ Goto(Main, "idle")

LEMMA UploadMoves ==
  ASSUME Control, NEW p \in Procs, UploadStep(p)
  PROVE  Moves(p, UploadPlaces) /\ pc[p] \in Places /\ UNCHANGED <<i, startIndex, remainingFiles, clientFileEntries, entries, socketVars>>
<1> USE DEF Control, Moves, Places, UploadPlaces, EndCall, shareVars, historyVars
<1>1. pc[p] \in Places /\ UNCHANGED <<i, startIndex, remainingFiles, clientFileEntries, entries, socketVars>>
  BY DEF UploadStep, RequestThrows, RequestDenied, EmptyFileAcked, UploadAllowed, ChunkAcked,
         ChunkGivenUp, CloseCheckpoint, RemoveCheckpoint, InUpload
<1>2. IF p = Main THEN call \in {"single", "sequential"} ELSE call = "parallel"
  BY <1>1, ProcsFacts
<1>3. ASSUME ReturnTrue(p) PROVE Moves(p, UploadPlaces)
  BY <1>2, <1>3 DEF ReturnTrue
<1>4. ASSUME NEW sent, ReturnFalse(p, sent) PROVE Moves(p, UploadPlaces)
  <2>1. CASE call = "single"
    BY <1>2, <1>4, <2>1 DEF ReturnFalse
  <2>2. CASE call = "sequential"
    BY <1>2, <1>4, <2>2 DEF ReturnFalse
  <2>3. CASE call = "parallel"
    BY <1>2, <1>4, <2>3 DEF ReturnFalse
  <2> QED BY <1>2, <2>1, <2>2, <2>3
<1>5. ASSUME Throw(p) PROVE Moves(p, UploadPlaces)
  BY <1>5 DEF Throw
<1>6. Moves(p, UploadPlaces)
  <2>1. CASE RequestThrows(p) BY <2>1, <1>5 DEF RequestThrows
  <2>2. CASE RequestDenied(p) BY <2>2, <1>4 DEF RequestDenied
  <2>3. CASE EmptyFileAcked(p) BY <2>3, <1>3 DEF EmptyFileAcked
  <2>4. CASE UploadAllowed(p) BY <2>4, <1>5 DEF UploadAllowed
  <2>5. CASE ChunkAcked(p) BY <2>5 DEF ChunkAcked
  <2>6. CASE ChunkGivenUp(p) BY <2>6, <1>4 DEF ChunkGivenUp
  <2>7. CASE CloseCheckpoint(p) BY <2>7 DEF CloseCheckpoint
  <2>8. CASE RemoveCheckpoint(p) BY <2>8, <1>3, <1>5 DEF RemoveCheckpoint
  <2> QED BY <2>1, <2>2, <2>3, <2>4, <2>5, <2>6, <2>7, <2>8 DEF UploadStep
<1> QED BY <1>1, <1>6

LEMMA ThreadMoves ==
  ASSUME Control, NEW p \in Clients, Thread(p)
  PROVE  Moves(p, ThreadPlaces) /\ pc[p] # "none" /\ UNCHANGED <<i, startIndex, remainingFiles, clientFileEntries, entries>>
<1> USE DEF Control, Moves, Places, UploadPlaces, ThreadPlaces, shareVars, NoUpload, Proceed
<1>1. CASE UploadStep(p)
  BY <1>1, UploadMoves, ProcsFacts
<1>2. ASSUME Throw(p) PROVE Moves(p, ThreadPlaces)
  BY <1>2, ProcsFacts DEF Throw
<1>3. CASE OpenSocket(p) BY <1>3, <1>2, ProcsFacts DEF OpenSocket
<1>4. CASE ConnectSucceeds(p) BY <1>4, ProcsFacts DEF ConnectSucceeds
<1>5. CASE ConnectRefused(p) BY <1>5, <1>2 DEF ConnectRefused
<1>6. CASE Login(p) BY <1>6, <1>2, ProcsFacts DEF Login
<1>7. CASE LockFailedFiles(p) BY <1>7, ProcsFacts DEF LockFailedFiles
<1>8. CASE PushFailedFile(p) BY <1>8, ProcsFacts DEF PushFailedFile
<1>9. CASE Logout(p) BY <1>9, <1>2, ProcsFacts DEF Logout
<1>10. CASE DisconnectAgain(p) BY <1>10, ProcsFacts DEF DisconnectAgain
<1>11. CASE Unwind(p) BY <1>11, ProcsFacts DEF Unwind
<1> QED BY <1>1, <1>3, <1>4, <1>5, <1>6, <1>7, <1>8, <1>9, <1>10, <1>11 DEF Thread

LEMMA InitControl == Init => Control
BY ProcsFacts DEF Init, Control

LEMMA NextControl == ASSUME Control, [Next]_vars PROVE Control'
<1> USE ProcsFacts
<1>1. ASSUME NEW p \in Procs, Moves(p, ThreadPlaces), pc[p] # "none", p = Main => pc[p] \in Places, UNCHANGED i PROVE Control'
  BY <1>1 DEF Control, Moves, Goto, Places, UploadPlaces, ThreadPlaces
<1>2. CASE UploadStep(Main)
  BY <1>1, <1>2, UploadMoves DEF Places, Moves, UploadPlaces, ThreadPlaces
<1>3. ASSUME NEW p \in Clients, Thread(p) PROVE Control'
  BY <1>1, <1>3, ThreadMoves
<1>4. ASSUME NEW f \in Files, CallUpload(f) PROVE Control'
  BY <1>4 DEF Control, CallUpload, Begin, Goto, Places
<1>5. ASSUME NEW d, CallUploadDirectory(d) \/ CallUploadParallel(d) PROVE Control'
  BY <1>5 DEF Control, CallUploadDirectory, CallUploadParallel, Begin, Goto, Places
<1>6. CASE FinishDirectory
  BY <1>6 DEF Control, FinishDirectory, EndCall, Goto
<1>7. CASE Distribute
  BY <1>7 DEF Control, Distribute
<1>8. CASE Distributed
  BY <1>8, ClientsAssumption DEF Control, Distributed, Goto, Places
<1>9. CASE StartThread
  <2>1. i \in 0..(NumClients - 1) /\ i + 1 \in Clients /\ call = "parallel"
    BY <1>9, ClientsAssumption DEF StartThread, Control, Clients, Places
  <2> QED BY <1>9, <2>1, ClientsAssumption DEF Control, StartThread, Main, Clients
<1>10. CASE Join
  BY <1>10 DEF Control, Join
<1>11. CASE UNCHANGED vars
  BY <1>11 DEF Control, vars, shareVars
<1> QED
  BY <1>2, <1>3, <1>4, <1>5, <1>6, <1>7, <1>8, <1>9, <1>10, <1>11 DEF Next, Call, MainStep

-----------------------------------------------------------------------------
(* The shares.  While they are dealt out, the entries not dealt are those  *)
(* left over and one even part for each thread to come; those dealt are    *)
(* each in the share of one thread.                                        *)

Part == Len(entries) \div NumClients

Size(p) == Last(p) - First(p)

(* The first n shares cover the first m entries, each of them once. *)
Dealt(n, m) ==
  /\ \A p \in 1..n : /\ clientFileEntries[p].first \in Nat /\ clientFileEntries[p].last \in Nat
                     /\ Size(p) \in {Part, Part + 1} /\ Last(p) <= m
  /\ \A k \in 1..m :
       \E p \in 1..n : k \in Share(p) /\ \A q \in 1..n : k \in Share(q) => q = p

ShareInv ==
  /\ entries \in Seq(Files) /\ DOMAIN clientFileEntries = Clients
  /\ call = "parallel" /\ pc[Main] = "distribute" =>
       /\ i \in 0..NumClients /\ startIndex \in Nat /\ remainingFiles \in 0..(NumClients - i)
       /\ startIndex + remainingFiles + (NumClients - i) * Part = Len(entries)
       /\ Dealt(i, startIndex)
  /\ call = "parallel" /\ pc[Main] \in {"start", "join"} => Dealt(NumClients, Len(entries))

LEMMA PartFacts ==
  ASSUME entries \in Seq(Files)
  PROVE  /\ Part \in Nat /\ Len(entries) % NumClients \in 0..(NumClients - 1)
         /\ (Len(entries) % NumClients) + NumClients * Part = Len(entries)
<1>1. ASSUME NEW n \in Nat, NEW c \in Nat \ {0}
      PROVE  n \div c \in Nat /\ n % c \in 0..(c - 1) /\ (n % c) + c * (n \div c) = n
  BY <1>1
<1>2. Len(entries) \in Nat
  OBVIOUS
<1> QED BY <1>1, <1>2, ClientsAssumption DEF Part

(* The share of the next thread begins where the last one ends. *)
LEMMA DealtNext ==
  ASSUME NEW n \in Nat, n < NumClients, NEW m \in Nat, NEW last \in Nat, Dealt(n, m),
         entries \in Seq(Files), DOMAIN clientFileEntries = Clients,
         last - m \in {Part, Part + 1}, UNCHANGED entries,
         clientFileEntries' = [clientFileEntries EXCEPT ![n + 1] = [first |-> m, last |-> last]]
  PROVE  Dealt(n + 1, last)'
<1> USE ClientsAssumption DEF Clients, Main
<1>1. Part' = Part /\ Part \in Nat
  BY PartFacts DEF Part
<1>2. \A p \in 1..n : clientFileEntries'[p] = clientFileEntries[p]
  OBVIOUS
<1>3. clientFileEntries'[n + 1] = [first |-> m, last |-> last]
  OBVIOUS
<1>4. \A p \in 1..n : First(p)' = First(p) /\ Last(p)' = Last(p) /\ Share(p)' = Share(p)
  BY <1>2 DEF First, Last, Share
<1>5. First(n + 1)' = m /\ Last(n + 1)' = last /\ Share(n + 1)' = (m + 1)..last
  BY <1>3 DEF First, Last, Share
<1>6. m <= last
  BY <1>1
<1>7. ASSUME NEW p \in 1..(n + 1)
      PROVE  /\ clientFileEntries'[p].first \in Nat /\ clientFileEntries'[p].last \in Nat
             /\ Last(p)' - First(p)' \in {Part, Part + 1} /\ Last(p)' <= last
  BY <1>2, <1>3, <1>4, <1>5, <1>6 DEF Dealt, Size, First, Last
<1>8. \A p \in 1..n : Share(p) \subseteq 1..m
  BY DEF Dealt, Share, First, Last
<1>9. ASSUME NEW k \in 1..last
      PROVE  \E p \in 1..(n + 1) : k \in Share(p)' /\ \A q \in 1..(n + 1) : k \in Share(q)' => q = p
  <2>1. CASE k <= m
    <3>1. PICK p \in 1..n : k \in Share(p) /\ \A q \in 1..n : k \in Share(q) => q = p
      <4>1. k \in 1..m
        BY <2>1
      <4> QED BY <4>1 DEF Dealt
    <3>2. k \notin Share(n + 1)'
      BY <2>1, <1>5
    <3>3. p \in 1..(n + 1) /\ k \in Share(p)'
      BY <3>1, <1>4
    <3>4. ASSUME NEW q \in 1..(n + 1), k \in Share(q)' PROVE q = p
      <4>1. q \in 1..n
        BY <3>2, <3>4
      <4> QED BY <3>1, <3>4, <4>1, <1>4
    <3> QED BY <3>3, <3>4
  <2>2. CASE k > m
    <3>1. k \in Share(n + 1)'
      BY <2>2, <1>5
    <3>2. \A q \in 1..n : k \notin Share(q)'
      BY <2>2, <1>4, <1>8
    <3> QED BY <3>1, <3>2
  <2> QED BY <2>1, <2>2
<1> QED BY <1>1, <1>7, <1>9 DEF Dealt, Size

LEMMA InitShare == Init => ShareInv
BY DEF Init, ShareInv

LEMMA BeginShare ==
  ASSUME NEW d \in SUBSET Files, NEW e \in Sorted(d), IsFiniteSet(d)
  PROVE  e \in Seq(Files)
<1>1. Cardinality(d) \in Nat
  BY FS_CardinalityType
<1> QED BY <1>1 DEF Sorted

LEMMA NextShare == ASSUME Control, ShareInv, [Next]_vars PROVE ShareInv'
<1> USE DEF ShareInv
<1>1. CASE /\ UNCHANGED <<clientFileEntries, entries, startIndex, remainingFiles>>
           /\ call' = "parallel" /\ pc[Main] \in {"start", "join"} => call = "parallel"
           /\ pc'[Main] = pc[Main] \/ (pc[Main] = "start" /\ pc'[Main] = "join") \/ pc'[Main] \notin {"distribute", "start", "join"}
           /\ call' = call \/ call' # "parallel"
           /\ pc[Main] = "distribute" => i' = i
  BY <1>1 DEF Dealt, Part, Size, Share, First, Last
<1>2. CASE UploadStep(Main)
  <2>1. pc'[Main] \notin {"distribute", "start", "join"} /\ (call' = call \/ call' # "parallel")
    BY <1>2, UploadMoves, ProcsFacts DEF Moves, ThreadPlaces, UploadPlaces, Places, Control, Goto
  <2> QED BY <1>1, <1>2, <2>1, UploadMoves, ProcsFacts DEF Places
<1>3. ASSUME NEW p \in Clients, Thread(p) PROVE ShareInv'
  <2>1. pc'[Main] = pc[Main] /\ call' = call
    BY <1>3, ThreadMoves, ProcsFacts DEF Moves, ThreadPlaces, UploadPlaces, Places, Control, Goto
  <2> QED BY <1>1, <1>3, <2>1, ThreadMoves
<1>4. ASSUME NEW f \in Files, CallUpload(f) PROVE ShareInv'
  BY <1>4 DEF CallUpload, Begin
<1>5. ASSUME NEW d \in Directories, CallUploadDirectory(d) PROVE ShareInv'
  BY <1>5, BeginShare, DirectoryAssumption DEF CallUploadDirectory, Begin
<1>6. ASSUME NEW d \in Directories, CallUploadParallel(d) PROVE ShareInv'
  <2>1. entries' \in Seq(Files) /\ DOMAIN clientFileEntries' = Clients
    BY <1>6, BeginShare, DirectoryAssumption DEF CallUploadParallel, Begin
  <2>2. i' = 0 /\ startIndex' = 0 /\ remainingFiles' = Len(entries') % NumClients
    BY <1>6 DEF CallUploadParallel, Begin
  <2>4. pc'[Main] = "distribute"
    BY <1>6, ProcsFacts DEF CallUploadParallel, Goto, Control
  <2>5. Dealt(0, 0)'
    BY DEF Dealt
  <2>6. (Part \in Nat)' /\ (Len(entries) % NumClients)' \in 0..(NumClients - 1)
        /\ ((Len(entries) % NumClients) + NumClients * Part = Len(entries))'
    <3>1. ASSUME NEW n \in Nat, NEW c \in Nat \ {0}
          PROVE  n \div c \in Nat /\ n % c \in 0..(c - 1) /\ (n % c) + c * (n \div c) = n
      BY <3>1
    <3>2. Len(entries') \in Nat
      BY <2>1
    <3> QED BY <3>1, <3>2, ClientsAssumption DEF Part
  <2>7. call' = "parallel" /\ i' = 0
    BY <1>6 DEF CallUploadParallel, Begin
  <2>8. Dealt(i, startIndex)'
    BY <2>2, <2>5 DEF Dealt
  <2> QED BY <2>1, <2>2, <2>4, <2>6, <2>8, ClientsAssumption
<1>7. CASE FinishDirectory \/ Join
  BY <1>7, ProcsFacts DEF FinishDirectory, EndCall, Goto, Join, shareVars
<1>8. CASE Distribute
  <2>1. call = "parallel" /\ call' = call /\ pc' = pc /\ pc[Main] = "distribute" /\ i < NumClients /\ i' = i + 1
    BY <1>8 DEF Distribute, Control, Places
  <2>2. /\ i \in 0..NumClients /\ startIndex \in Nat /\ remainingFiles \in 0..(NumClients - i)
        /\ startIndex + remainingFiles + (NumClients - i) * Part = Len(entries)
        /\ Dealt(i, startIndex)
    BY <2>1
  <2>3. Part \in Nat /\ Part' = Part /\ entries' = entries
    BY <1>8, PartFacts DEF Distribute, Part
  <2>4. EndIndex \in Nat /\ EndIndex - startIndex \in {Part, Part + 1}
    BY <2>2, <2>3 DEF EndIndex, Part
  <2>5. ASSUME NEW n, n = i, NEW last, last = EndIndex PROVE Dealt(n + 1, last)'
    <3>1. n \in Nat /\ n < NumClients /\ last \in Nat /\ last - startIndex \in {Part, Part + 1}
      BY <2>1, <2>2, <2>4, <2>5
    <3>2. clientFileEntries' = [clientFileEntries EXCEPT ![n + 1] = [first |-> startIndex, last |-> last]]
      BY <1>8, <2>5 DEF Distribute
    <3> QED BY <2>2, <2>3, <2>5, <3>1, <3>2, DealtNext
  <2>6. startIndex' = EndIndex
    BY <1>8 DEF Distribute
  <2>7. Dealt(i, startIndex)'
    <3>1. PICK m, e : m = i /\ e = EndIndex
      OBVIOUS
    <3>2. Dealt(m + 1, e)' /\ i' = m + 1 /\ startIndex' = e
      BY <2>1, <2>5, <2>6, <3>1
    <3> QED BY <3>2 DEF Dealt
  <2>8. (NumClients - i) * Part = (NumClients - (i + 1)) * Part + Part
    BY <2>2, <2>3, ClientsAssumption
  <2>9. remainingFiles' = IF remainingFiles > 0 THEN remainingFiles - 1 ELSE 0
    BY <1>8 DEF Distribute
  <2>10. EndIndex = startIndex + Part + (IF remainingFiles > 0 THEN 1 ELSE 0)
    BY DEF EndIndex, Part
  <2>11. startIndex' + remainingFiles' + (NumClients - i') * Part = Len(entries)
    <3> DEFINE product == (NumClients - (i + 1)) * Part
    <3>1. product \in Int
      BY <2>2, <2>3, ClientsAssumption
    <3>2. startIndex + remainingFiles + product + Part = Len(entries)
      BY <2>2, <2>3, <2>8, <3>1
    <3> HIDE DEF product
    <3>3. startIndex' + remainingFiles' + product = Len(entries)
      BY <2>2, <2>3, <2>6, <2>9, <2>10, <3>1, <3>2
    <3> QED BY <2>1, <3>3 DEF product
  <2>12. DOMAIN clientFileEntries' = Clients
    BY <1>8 DEF Distribute
  <2>13. i' \in 0..NumClients /\ startIndex' \in Nat /\ remainingFiles' \in 0..(NumClients - i')
    <3>1. remainingFiles <= NumClients - i /\ i + 1 <= NumClients
      BY <2>1, <2>2, ClientsAssumption
    <3> QED BY <2>1, <2>2, <2>4, <2>6, <2>9, <3>1, ClientsAssumption
  <2> QED BY <2>1, <2>3, <2>7, <2>11, <2>12, <2>13
<1>9. CASE Distributed
  <2>1. call = "parallel" /\ call' = call /\ pc[Main] = "distribute" /\ pc'[Main] = "start" /\ i = NumClients
    BY <1>9, ProcsFacts DEF Distributed, Control, Goto, Places
  <2>2. (NumClients - i) * Part = 0
    BY <2>1, PartFacts, ClientsAssumption
  <2>3. startIndex = Len(entries) /\ Dealt(NumClients, Len(entries))
    BY <2>1, <2>2, ClientsAssumption
  <2> QED BY <1>9, <2>1, <2>3 DEF Distributed, Dealt, Part, Size, Share, First, Last
<1>10. CASE StartThread
  <2>1. pc'[Main] \in {"start", "join"} /\ UNCHANGED <<call, clientFileEntries, entries, startIndex, remainingFiles>>
        /\ pc[Main] = "start"
    BY <1>10, ProcsFacts DEF StartThread, Control, Main
  <2> QED BY <2>1 DEF Dealt, Part, Size, Share, First, Last
<1>11. CASE UNCHANGED vars
  BY <1>11, <1>1 DEF vars, shareVars
<1> QED
  BY <1>2, <1>3, <1>4, <1>5, <1>6, <1>7, <1>8, <1>9, <1>10, <1>11 DEF Next, Call, MainStep

(* Every entry is in the share of exactly one thread, whatever the number  *)
(* of entries and of threads, and the shares differ by at most one entry   *)
(* (ftc 842-856).                                                          *)
THEOREM SharesFit == Spec => []FilesShared
<1>1. ASSUME ShareInv PROVE FilesShared
  <2> SUFFICES ASSUME call = "parallel", pc[Main] \in {"start", "join"}
               PROVE  /\ \A k \in DOMAIN entries :
                           \E p \in Clients : k \in Share(p) /\ \A q \in Clients : k \in Share(q) => q = p
                      /\ \A p, q \in Clients : Last(p) - First(p) <= Last(q) - First(q) + 1
    BY DEF FilesShared
  <2>1. Dealt(NumClients, Len(entries)) /\ entries \in Seq(Files)
    BY <1>1 DEF ShareInv
  <2>2. Part \in Nat
    BY <2>1, PartFacts
  <2> QED BY <2>1, <2>2 DEF Dealt, Clients, Size
<1> QED BY InitControl, NextControl, InitShare, NextShare, <1>1, PTL DEF Spec

-----------------------------------------------------------------------------
(* The sockets.  While no connect was refused, a connection owns the       *)
(* handle it has, and no call begins with a handle of an earlier one.      *)

OwnSockets ==
  /\ unconnected = {} => \A p \in Clients : m_socket[p] # None => owner[m_socket[p]] = p
  /\ \A p \in Clients : m_is_connected[p] => m_socket[p] # None
  /\ \A p \in Clients : pc[p] \in {"none", "socket", "done"} => m_socket[p] = None

SocketInv ==
  /\ DOMAIN m_socket = Clients /\ DOMAIN m_is_connected = Clients /\ DOMAIN owner = Handles
  /\ \A p \in Clients : m_socket[p] \in Handles \cup {None}
  /\ OwnSockets

LEMMA InitSocket == Init => SocketInv
BY ProcsFacts DEF Init, SocketInv, OwnSockets

LEMMA DisconnectSocket ==
  ASSUME Control, SocketInv, NEW p \in Clients, Disconnect(p), pc[p] # "none",
         \E place \in {"disconnect", "unwind", "done"} : Goto(p, place)
  PROVE  SocketInv'
<1>1. \A q \in Clients : q # p => m_socket'[q] = m_socket[q] /\ m_is_connected'[q] = m_is_connected[q]
  BY DEF Disconnect, SocketInv
<1>2. m_socket'[p] = None /\ m_is_connected'[p] = FALSE /\ UNCHANGED unconnected
  BY DEF Disconnect, SocketInv
<1>3. \A h \in Handles : owner'[h] = IF h = m_socket[p] THEN None ELSE owner[h]
  BY SpecialValues DEF Disconnect, Closed, SocketInv
<1>4. DOMAIN m_socket' = Clients /\ DOMAIN m_is_connected' = Clients /\ DOMAIN owner' = Handles
  BY DEF Disconnect, Closed, SocketInv
<1>5. \A q \in Clients : q # p => pc'[q] = pc[q]
  BY ProcsFacts DEF Goto, Control
<1>6. ASSUME unconnected = {}, NEW q \in Clients, m_socket'[q] # None PROVE owner'[m_socket'[q]] = q
  <2>1. q # p /\ m_socket[q] # None /\ owner[m_socket[q]] = q
    BY <1>1, <1>2, <1>6 DEF SocketInv, OwnSockets
  <2>2. m_socket[p] # m_socket[q]
    BY <2>1, <1>6 DEF SocketInv, OwnSockets
  <2> QED BY <2>1, <2>2, <1>1, <1>3 DEF SocketInv
<1> QED BY <1>1, <1>2, <1>4, <1>5, <1>6 DEF SocketInv, OwnSockets

LEMMA NextSocket == ASSUME Control, SocketInv, [Next]_vars PROVE SocketInv'
<1>1. CASE UNCHANGED socketVars /\ \A p \in Clients : pc'[p] \in {"none", "socket", "done"} => pc[p] \in {"none", "socket", "done"}
  BY <1>1 DEF SocketInv, OwnSockets, socketVars
<1>2. ASSUME NEW p \in Procs, UploadStep(p) PROVE SocketInv'
  <2>1. \A q \in Clients : pc'[q] = pc[q] \/ pc'[q] \notin {"none", "socket", "done"}
    BY <1>2, UploadMoves, ProcsFacts DEF Moves, ThreadPlaces, UploadPlaces, Places, Control, Goto
  <2>2. pc[p] \in Places /\ UNCHANGED socketVars
    BY <1>2, UploadMoves
  <2> QED BY <2>1, <2>2, <1>1
<1>3. ASSUME NEW p \in Clients, OpenSocket(p) PROVE SocketInv'
  <2>1. CASE \E h \in Handles : owner[h] = None /\ owner' = [owner EXCEPT ![h] = p] /\ m_socket' = [m_socket EXCEPT ![p] = h]
    <3>1. PICK h \in Handles : owner[h] = None /\ owner' = [owner EXCEPT ![h] = p] /\ m_socket' = [m_socket EXCEPT ![p] = h]
      BY <2>1
    <3>2. \A q \in Clients : q # p => m_socket'[q] = m_socket[q] /\ pc'[q] = pc[q]
      BY <1>3, <3>1, ProcsFacts DEF OpenSocket, Proceed, Throw, Goto, SocketInv, Control
    <3>3. m_socket'[p] = h /\ owner'[h] = p /\ h # None
      BY <3>1, SpecialValues DEF SocketInv
    <3>4. UNCHANGED <<m_is_connected, unconnected>>
      BY <1>3 DEF OpenSocket
    <3>5. pc'[p] \in {"connect", "unwind"}
      BY <1>3, ProcsFacts DEF OpenSocket, Proceed, Throw, Goto, Control
    <3>6. None \notin Clients
      BY SpecialValues, ProcsFacts
    <3>7. ASSUME unconnected = {}, NEW q \in Clients, m_socket'[q] # None PROVE owner'[m_socket'[q]] = q
      <4>1. CASE q = p BY <4>1, <3>3
      <4>2. CASE q # p
        <5>1. m_socket[q] # None /\ owner[m_socket[q]] = q /\ m_socket'[q] = m_socket[q]
          BY <4>2, <3>2, <3>7 DEF SocketInv, OwnSockets
        <5>2. m_socket[q] # h
          BY <5>1, <3>1, <3>6
        <5> QED BY <5>1, <5>2, <3>1 DEF SocketInv
      <4> QED BY <4>1, <4>2
    <3>8. DOMAIN m_socket' = Clients /\ DOMAIN owner' = Handles
      BY <3>1 DEF SocketInv
    <3> QED BY <3>2, <3>3, <3>4, <3>5, <3>7, <3>8 DEF SocketInv, OwnSockets
  <2>2. CASE UNCHANGED <<m_socket, owner>> /\ Throw(p)
    <3>1. \A q \in Clients : pc'[q] = pc[q] \/ pc'[q] = "unwind"
      BY <2>2, ProcsFacts DEF Throw, Goto, Control
    <3> QED BY <1>3, <2>2, <3>1, <1>1 DEF OpenSocket, socketVars
  <2> QED BY <1>3, <2>1, <2>2 DEF OpenSocket
<1>4. ASSUME NEW p \in Clients, ConnectSucceeds(p) PROVE SocketInv'
  <2>1. m_socket[p] # None /\ UNCHANGED <<m_socket, owner, unconnected>> /\ m_is_connected' = [m_is_connected EXCEPT ![p] = TRUE]
    BY <1>4 DEF ConnectSucceeds, Alive
  <2>2. \A q \in Clients : pc'[q] = pc[q] \/ pc'[q] = "login"
    BY <1>4, ProcsFacts DEF ConnectSucceeds, Proceed, Goto, Control
  <2> QED BY <2>1, <2>2 DEF SocketInv, OwnSockets
<1>5. ASSUME NEW p \in Clients, ConnectRefused(p) PROVE SocketInv'
  <2>1. unconnected' # {} /\ UNCHANGED <<m_socket, m_is_connected>> /\ DOMAIN owner' = DOMAIN owner
    BY <1>5 DEF ConnectRefused, Closed
  <2>2. \A q \in Clients : pc'[q] = pc[q] \/ pc'[q] = "unwind"
    BY <1>5, ProcsFacts DEF ConnectRefused, Throw, Goto, Control
  <2> QED BY <2>1, <2>2 DEF SocketInv, OwnSockets
<1>6. ASSUME NEW p \in Clients, Login(p) \/ LockFailedFiles(p) \/ PushFailedFile(p) PROVE SocketInv'
  <2>1. UNCHANGED socketVars
    BY <1>6 DEF Login, LockFailedFiles, PushFailedFile
  <2>2. \A q \in Clients : pc'[q] = pc[q] \/ pc'[q] \in {"next", "unwind", "push"}
    BY <1>6, ProcsFacts DEF Login, LockFailedFiles, PushFailedFile, Proceed, Throw, Goto, Control
  <2> QED BY <2>1, <2>2, <1>1
<1>7. ASSUME NEW p \in Clients, Logout(p) \/ DisconnectAgain(p) \/ Unwind(p) PROVE SocketInv'
  <2>1. pc[p] # "none"
    BY <1>7 DEF Logout, DisconnectAgain, Unwind
  <2>2. CASE Disconnect(p) /\ \E place \in {"disconnect", "unwind", "done"} : Goto(p, place)
    BY <2>1, <2>2, DisconnectSocket
  <2>3. CASE Throw(p) /\ UNCHANGED socketVars
    <3>1. \A q \in Clients : pc'[q] = pc[q] \/ pc'[q] = "unwind"
      BY <2>3, ProcsFacts DEF Throw, Goto, Control
    <3> QED BY <2>3, <3>1, <1>1
  <2> QED BY <1>7, <2>2, <2>3 DEF Logout, DisconnectAgain, Unwind, Proceed
<1>8. ASSUME NEW kind, NEW e, NEW place, Begin(kind, e), Goto(Main, place) PROVE SocketInv'
  <2>1. \A p \in Clients : pc[p] = "none" /\ pc'[p] = "none"
    BY <1>8, ProcsFacts DEF Begin, Goto, Control
  <2>2. UNCHANGED <<m_socket, owner, m_is_connected>>
    BY <1>8 DEF Begin
  <2> QED BY <2>1, <2>2 DEF SocketInv, OwnSockets
<1>9. CASE Call
  BY <1>9, <1>8 DEF Call, CallUpload, CallUploadDirectory, CallUploadParallel
<1>10. CASE FinishDirectory \/ Distribute \/ Distributed
  BY <1>10, <1>1, ProcsFacts DEF FinishDirectory, Distribute, Distributed, EndCall, Goto, Control
<1>11. CASE StartThread
  <2>1. i \in 0..(NumClients - 1) /\ i + 1 \in Clients /\ pc[i + 1] = "none"
    BY <1>11, ClientsAssumption DEF StartThread, Control, Clients, Places
  <2>2. UNCHANGED socketVars
    BY <1>11 DEF StartThread
  <2>3. \A p \in Clients : pc'[p] \in {"none", "socket", "done"} => pc[p] \in {"none", "socket", "done"}
    BY <1>11, <2>1, ProcsFacts DEF StartThread, Control
  <2> QED BY <2>2, <2>3, <1>1
<1>12. CASE Join
  BY <1>12, <1>1 DEF Join
<1>13. CASE UNCHANGED vars
  BY <1>13, <1>1 DEF vars
<1> QED
  BY <1>2, <1>3, <1>4, <1>5, <1>6, <1>7, <1>9, <1>10, <1>11, <1>12, <1>13, ProcsFacts
     DEF Next, MainStep, Thread

(* No thread loses its socket to the closesocket of another one, however   *)
(* the handles are reused, unless a connect was refused (nc 34-38, 137-147; *)
(* ftc 876, 920-924).                                                      *)
THEOREM SocketsSafe == Spec => []SocketsKept
<1>1. SocketInv => SocketsKept
  BY DEF SocketInv, OwnSockets, SocketsKept, Alive
<1> QED BY InitControl, NextControl, InitSocket, NextSocket, <1>1, PTL DEF Spec

-----------------------------------------------------------------------------
(* The checksum.  The flag is set during the upload of a directory, and    *)
(* after one that was left by an exception.                                *)

ChecksumInv ==
  /\ flag \in BOOLEAN /\ spoilt \in BOOLEAN /\ DOMAIN checksum = Procs
  /\ flag <=> call \in {"sequential", "parallel"} \/ spoilt
  /\ \A p \in Procs : checksum[p] \in BOOLEAN
  /\ ChecksumWhereDue

LEMMA InitChecksum == Init => ChecksumInv
BY ProcsFacts DEF Init, ChecksumInv, ChecksumWhereDue

LEMMA UploadChecksum ==
  ASSUME Control, ChecksumInv, NEW p \in Procs, UploadStep(p)
  PROVE  ChecksumInv'
<1> USE DEF Control, ChecksumInv, historyVars
<1>1. pc[p] \in Places
  BY UploadMoves
<1>2. IF p = Main THEN call \in {"single", "sequential"} ELSE call = "parallel"
  BY <1>1, ProcsFacts DEF Places
<1>3. /\ UNCHANGED flag /\ DOMAIN checksum' = Procs /\ \A q \in Procs : checksum'[q] \in BOOLEAN
      /\ \A q \in Procs : q # p => checksum'[q] = checksum[q]
      /\ checksum'[p] = (IF pc[p] = "next" THEN ~flag ELSE checksum[p])
  BY DEF UploadStep, RequestThrows, RequestDenied, EmptyFileAcked, UploadAllowed, ChunkAcked,
         ChunkGivenUp, CloseCheckpoint, RemoveCheckpoint, InUpload, Announce, Announced,
         ReturnTrue, ReturnFalse, Throw
<1>4. \A q \in Procs : q # p => pc'[q] = pc[q]
  BY UploadMoves DEF Moves, Goto
<1>5. CASE UNCHANGED <<call, spoilt>>
  <2>1. \A q \in Procs : q # p /\ pc'[q] \in {"chunk", "remove"} => (checksum'[q] <=> call' = "single" /\ ~spoilt')
    BY <1>3, <1>4, <1>5 DEF ChecksumWhereDue
  <2>2. pc'[p] \in {"chunk", "remove"} => (checksum'[p] <=> call' = "single" /\ ~spoilt')
    BY <1>1, <1>2, <1>3, <1>5 DEF ChecksumWhereDue, Places
  <2> QED BY <1>3, <1>5, <2>1, <2>2 DEF ChecksumWhereDue
<1>6. CASE /\ p = Main /\ call' = "none" /\ pc'[p] = "idle"
           /\ spoilt' = IF call = "sequential" THEN TRUE ELSE spoilt
  <2>1. \A q \in Procs : pc'[q] \notin {"chunk", "remove"}
    BY <1>2, <1>4, <1>6, ProcsFacts
  <2> QED BY <1>2, <1>3, <1>6, <2>1 DEF ChecksumWhereDue
<1>7. ASSUME ReturnTrue(p) PROVE ChecksumInv'
  BY <1>1, <1>2, <1>5, <1>6, <1>7 DEF ReturnTrue, EndCall, Goto, Places
<1>8. ASSUME NEW sent, ReturnFalse(p, sent) PROVE ChecksumInv'
  <2>1. CASE call = "single"
    BY <1>2, <1>6, <1>8, <2>1 DEF ReturnFalse, EndCall, Goto
  <2>2. CASE call = "sequential"
    BY <1>1, <1>2, <1>5, <1>8, <2>2 DEF ReturnFalse, Goto, Places
  <2>3. CASE call = "parallel"
    BY <1>1, <1>2, <1>5, <1>8, <2>3 DEF ReturnFalse, Goto, Places
  <2> QED BY <1>2, <2>1, <2>2, <2>3
<1>9. ASSUME Throw(p) PROVE ChecksumInv'
  BY <1>1, <1>2, <1>5, <1>6, <1>9, ProcsFacts DEF Throw, EndCall, Goto, Places
<1>10. CASE RequestThrows(p) BY <1>10, <1>9 DEF RequestThrows
<1>11. CASE RequestDenied(p) BY <1>11, <1>8 DEF RequestDenied
<1>12. CASE EmptyFileAcked(p) BY <1>12, <1>7 DEF EmptyFileAcked
<1>13. CASE UploadAllowed(p)
  BY <1>13, <1>5, <1>9 DEF UploadAllowed, InUpload
<1>14. CASE ChunkAcked(p)
  BY <1>14, <1>5 DEF ChunkAcked
<1>15. CASE ChunkGivenUp(p) BY <1>15, <1>8 DEF ChunkGivenUp
<1>16. CASE CloseCheckpoint(p)
  BY <1>16, <1>5 DEF CloseCheckpoint
<1>17. CASE RemoveCheckpoint(p) BY <1>17, <1>7, <1>9 DEF RemoveCheckpoint
<1> QED BY <1>10, <1>11, <1>12, <1>13, <1>14, <1>15, <1>16, <1>17 DEF UploadStep

LEMMA NextChecksum == ASSUME Control, ChecksumInv, [Next]_vars PROVE ChecksumInv'
<1> USE ProcsFacts DEF Control, ChecksumInv, ChecksumWhereDue
<1>1. ASSUME NEW p \in Procs, UploadStep(p) PROVE ChecksumInv'
  BY <1>1, UploadChecksum
<1>2. CASE /\ UNCHANGED <<call, flag, checksum, spoilt>>
           /\ \A p \in Procs : pc'[p] \in {"chunk", "remove"} => pc[p] \in {"chunk", "remove"}
  BY <1>2
<1>3. ASSUME NEW p \in Clients, Thread(p) PROVE ChecksumInv'
  <2>1. CASE UploadStep(p) BY <2>1, <1>1
  <2>2. CASE ~UploadStep(p)
    <3>1. UNCHANGED <<call, flag, checksum>>
      BY <1>3, <2>2
         DEF Thread, OpenSocket, ConnectSucceeds, ConnectRefused, Login, LockFailedFiles,
             PushFailedFile, Logout, DisconnectAgain, Unwind, Proceed, NoUpload, Throw
    <3>2. call = "parallel"
      BY <1>3, ThreadMoves
    <3>3. UNCHANGED spoilt
      BY <1>3, <2>2, <3>2
         DEF Thread, OpenSocket, ConnectSucceeds, ConnectRefused, Login, LockFailedFiles,
             PushFailedFile, Logout, DisconnectAgain, Unwind, Proceed, Throw, historyVars
    <3>4. \A q \in Procs : pc'[q] \in {"chunk", "remove"} => pc[q] \in {"chunk", "remove"}
      BY <1>3, <2>2
         DEF Thread, OpenSocket, ConnectSucceeds, ConnectRefused, Login, LockFailedFiles,
             PushFailedFile, Logout, DisconnectAgain, Unwind, Proceed, Throw, Goto
    <3> QED BY <3>1, <3>3, <3>4, <1>2
  <2> QED BY <2>1, <2>2
<1>4. ASSUME NEW f \in Files, CallUpload(f) PROVE ChecksumInv'
  BY <1>4 DEF CallUpload, Begin, Goto
<1>5. ASSUME NEW d, CallUploadDirectory(d) \/ CallUploadParallel(d) PROVE ChecksumInv'
  BY <1>5 DEF CallUploadDirectory, CallUploadParallel, Begin, Goto
<1>6. CASE FinishDirectory
  BY <1>6 DEF FinishDirectory, EndCall, Goto
<1>7. CASE Distribute \/ Distributed
  BY <1>7, <1>2 DEF Distribute, Distributed, Goto, historyVars
<1>8. CASE StartThread
  BY <1>8, <1>2 DEF StartThread, historyVars
<1>9. CASE Join
  BY <1>9 DEF Join
<1>10. CASE UNCHANGED vars
  BY <1>10 DEF vars, historyVars
<1> QED
  BY <1>1, <1>3, <1>4, <1>5, <1>6, <1>7, <1>8, <1>9, <1>10 DEF Next, Call, MainStep

(* A file is announced with its checksum just if it is uploaded on its     *)
(* own, unless a directory upload was left by an exception (ftc 48, 73,    *)
(* 781, 804, 836, 943).                                                    *)
THEOREM ChecksumsAnnounced == Spec => []ChecksumWhereDue
<1>1. ChecksumInv => ChecksumWhereDue
  BY DEF ChecksumInv
<1> QED BY InitControl, NextControl, InitChecksum, NextChecksum, <1>1, PTL DEF Spec

-----------------------------------------------------------------------------
(* The accounts.  A thread adds an entry of its share to uploaded or to    *)
(* refused, and passes it; a failed entry is on its way to failed_files    *)
(* while its thread waits for the lock or holds it.                        *)

Pending(p) == pc[p] \in {"lock", "push"}

(* The entries that p is done with *)
Handled(p) ==
  {k \in Share(p) : k < Current(p) \/ (k = Current(p) /\ Pending(p))}

(* What a push finds is not changed before it is put back. *)
LockInv ==
  /\ DOMAIN pos = Procs /\ DOMAIN seen = Clients
  /\ \A p \in Procs : pos[p] \in Nat
  /\ \A p \in Clients : pc[p] = "push" => failed_files_mutex = p /\ seen[p] = failed_files
  /\ call = "single" => Len(entries) = 1
  /\ \A p \in Clients : pc[p] = "none" => pos[p] = 0 \/ call # "parallel"

FailedInv ==
  Len(entries) # 1 \/ call = "sequential" \/ call = "parallel" =>
    refused = failed_files \cup {Current(p) : p \in {q \in Clients : Pending(q)}}

(* One process of a parallel upload, started already *)
Started(p) ==
  /\ pc[p] \in {"chunk", "remove", "lock", "push"} => More(p)
  /\ pc[p] \in {"disconnect", "unwind", "done"} /\ p \notin threw => ~More(p)

AccountInv ==
  /\ uploaded \cap refused = {}
  /\ call = "none" /\ Len(entries) > 1 => DOMAIN entries \ (uploaded \cup refused) \subseteq Dropped
  /\ call = "sequential" =>
       /\ uploaded \cup refused = 1..pos[Main] /\ pos[Main] <= Len(entries)
       /\ pc[Main] \in {"chunk", "remove"} => More(Main)
  /\ call = "single" => uploaded \cup refused = {}
  /\ call = "parallel" /\ pc[Main] = "distribute" =>
       uploaded \cup refused = {} /\ \A p \in Clients : pos[p] = 0
  /\ call = "parallel" /\ pc[Main] \in {"start", "join"} =>
       /\ uploaded \cup refused = UNION {Handled(p) : p \in Clients}
       /\ \A p \in Clients : Started(p)

AllInv == Control /\ ShareInv /\ LockInv /\ FailedInv /\ AccountInv

LEMMA InitAccount == Init => LockInv /\ FailedInv /\ AccountInv
BY ProcsFacts DEF Init, LockInv, FailedInv, AccountInv, Pending

(* The share of a thread, once it runs *)
LEMMA ShareFacts ==
  ASSUME ShareInv, LockInv, call = "parallel", pc[Main] \in {"start", "join"}
  PROVE  /\ \A p \in Clients : First(p) \in Nat /\ Last(p) \in Nat /\ Last(p) <= Len(entries)
         /\ \A p \in Clients : Current(p) \in Nat /\ Current(p) > First(p)
         /\ \A p, q \in Clients : \A k \in Share(p) : k \in Share(q) => p = q
         /\ UNION {Share(p) : p \in Clients} = DOMAIN entries
         /\ \A p \in Clients : More(p) => Current(p) \in Share(p)
<1>1. Dealt(NumClients, Len(entries)) /\ entries \in Seq(Files) /\ Len(entries) \in Nat
  BY DEF ShareInv
<1>2. \A p \in Clients : First(p) \in Nat /\ Last(p) \in Nat /\ Last(p) <= Len(entries)
  BY <1>1, ProcsFacts DEF Dealt, First, Last, Clients
<1>3. \A p \in Clients : Current(p) \in Nat /\ Current(p) > First(p)
  BY <1>2, ProcsFacts DEF LockInv, Current
<1>4. \A k \in 1..Len(entries) :
        \E p \in Clients : k \in Share(p) /\ \A q \in Clients : k \in Share(q) => q = p
  BY <1>1 DEF Dealt, Clients
<1>5. \A p \in Clients : Share(p) \subseteq 1..Len(entries)
  BY <1>1, <1>2 DEF Share
<1>6. DOMAIN entries = 1..Len(entries)
  BY <1>1
<1>7. \A p \in Clients : More(p) => Current(p) \in Share(p)
  BY <1>2, <1>3 DEF More, Share
<1>8. \A p, q \in Clients : \A k \in Share(p) : k \in Share(q) => p = q
  BY <1>4, <1>5
<1>9. UNION {Share(p) : p \in Clients} = DOMAIN entries
  BY <1>4, <1>5, <1>6
<1> QED BY <1>2, <1>3, <1>7, <1>8, <1>9

(* What a step of process p changes besides: nothing of the others, and    *)
(* neither the entries nor the shares *)
Local(p) ==
  /\ UNCHANGED <<entries, clientFileEntries>>
  /\ \A q \in Procs : q # p => pc'[q] = pc[q] /\ pos'[q] = pos[q]
  /\ DOMAIN pos' = Procs /\ DOMAIN seen' = Clients

(* UploadFile goes on. *)
GoesOn(p) ==
  /\ UNCHANGED <<call, pos, failedVars, historyVars>>
  /\ UNCHANGED pc \/ Goto(p, "chunk") \/ Goto(p, "remove")

LEMMA UploadCases ==
  ASSUME Control, LockInv, NEW p \in Procs, UploadStep(p)
  PROVE  /\ Local(p) /\ pc[p] \in Places /\ (pc[p] = "next" => More(p))
         /\ ReturnTrue(p) \/ (\E sent \in BOOLEAN : ReturnFalse(p, sent)) \/ Throw(p) \/ GoesOn(p)
<1>1. ReturnTrue(p) \/ (\E sent \in BOOLEAN : ReturnFalse(p, sent)) \/ Throw(p) \/ GoesOn(p)
  <2>1. CASE RequestThrows(p) BY <2>1 DEF RequestThrows
  <2>2. CASE RequestDenied(p) BY <2>2 DEF RequestDenied
  <2>3. CASE EmptyFileAcked(p) BY <2>3 DEF EmptyFileAcked
  <2>4. CASE UploadAllowed(p) BY <2>4 DEF UploadAllowed, GoesOn
  <2>5. CASE ChunkAcked(p) BY <2>5 DEF ChunkAcked, GoesOn
  <2>6. CASE ChunkGivenUp(p)
    <3>1. (left[p] < Chunks[File(p)]) \in BOOLEAN OBVIOUS
    <3> QED BY <2>6, <3>1 DEF ChunkGivenUp
  <2>7. CASE CloseCheckpoint(p) BY <2>7 DEF CloseCheckpoint, GoesOn
  <2>8. CASE RemoveCheckpoint(p) BY <2>8 DEF RemoveCheckpoint
  <2> QED BY <2>1, <2>2, <2>3, <2>4, <2>5, <2>6, <2>7, <2>8 DEF UploadStep
<1>2. pc[p] \in Places /\ UNCHANGED <<entries, clientFileEntries>>
  BY UploadMoves
<1>3. pc[p] = "next" => More(p)
  BY DEF UploadStep, RequestThrows, RequestDenied, EmptyFileAcked, UploadAllowed, ChunkAcked,
         ChunkGivenUp, CloseCheckpoint, RemoveCheckpoint, InUpload
<1>4. \A q \in Procs : q # p => pc'[q] = pc[q]
  BY UploadMoves DEF Moves, Goto, Control
<1>5. IF p = Main THEN call \in {"single", "sequential"} ELSE call = "parallel"
  BY <1>2, ProcsFacts DEF Control, Places
<1>6. UNCHANGED pos \/ Advance(p)
  BY <1>1, <1>5 DEF ReturnTrue, ReturnFalse, Throw, GoesOn
<1>7. UNCHANGED seen
  BY <1>1, <1>5 DEF ReturnTrue, ReturnFalse, Throw, GoesOn, failedVars
<1> QED BY <1>1, <1>2, <1>3, <1>4, <1>6, <1>7 DEF Local, Advance, LockInv

(* A thread is done with the entry it is at. *)
LEMMA HandledDone ==
  ASSUME AllInv, NEW p \in Clients, Local(p), call = "parallel", pc[Main] \in {"start", "join"},
         More(p), ~Pending(p), pc[p] \in Places,
         \/ pos'[p] = pos[p] + 1 /\ pc'[p] = "next"
         \/ pos'[p] = pos[p] /\ pc'[p] = "lock",
         UNCHANGED threw
  PROVE  /\ Current(p) \notin uploaded \cup refused
         /\ UNION {Handled(q)' : q \in Clients} = uploaded \cup refused \cup {Current(p)}
         /\ \A q \in Clients : Started(q)'
<1> USE ProcsFacts DEF AllInv
<1>1. /\ \A q \in Clients : First(q) \in Nat /\ Last(q) \in Nat /\ Current(q) \in Nat
      /\ \A q, r \in Clients : \A k \in Share(q) : k \in Share(r) => q = r
      /\ Current(p) \in Share(p)
  BY ShareFacts
<1>2. \A q \in Clients : Share(q)' = Share(q) /\ Last(q)' = Last(q) /\ First(q)' = First(q)
  BY DEF Local, Share, First, Last
<1>3. \A q \in Clients : q # p => Current(q)' = Current(q) /\ pc'[q] = pc[q]
  BY <1>2 DEF Current, Local
<1>4. \A q \in Clients : q # p => Handled(q)' = Handled(q) /\ Started(q)' = Started(q)
  BY <1>2, <1>3 DEF Handled, Pending, Started, More, Local
<1>5. Started(p)'
  BY <1>2 DEF Started, More, Current
<1>6. Handled(p)' = Handled(p) \cup {Current(p)}
  <2>1. CASE pos'[p] = pos[p] + 1 /\ pc'[p] = "next"
    <3>1. Current(p)' = Current(p) + 1 /\ ~Pending(p)'
      BY <2>1, <1>1, <1>2 DEF Current, Pending, LockInv
    <3>2. \A k \in Share(p) : k < Current(p) + 1 <=> k < Current(p) \/ k = Current(p)
      BY <1>1 DEF Share
    <3> QED BY <1>1, <1>2, <3>1, <3>2 DEF Handled
  <2>2. CASE pos'[p] = pos[p] /\ pc'[p] = "lock"
    <3>1. Current(p)' = Current(p) /\ Pending(p)'
      BY <2>2, <1>2 DEF Current, Pending
    <3> QED BY <1>1, <1>2, <3>1 DEF Handled
  <2> QED BY <2>1, <2>2
<1>7. uploaded \cup refused = UNION {Handled(q) : q \in Clients} /\ \A q \in Clients : Started(q)
  BY DEF AccountInv
<1>8. Current(p) \notin uploaded \cup refused
  <2>1. ASSUME NEW q \in Clients, Current(p) \in Handled(q) PROVE FALSE
    <3>1. q = p
      BY <2>1, <1>1 DEF Handled
    <3> QED BY <2>1, <3>1, <1>1 DEF Handled
  <2> QED BY <2>1, <1>7
<1>9. UNION {Handled(q)' : q \in Clients} = (UNION {Handled(q) : q \in Clients}) \cup {Current(p)}
  BY <1>4, <1>6
<1> QED BY <1>4, <1>5, <1>7, <1>8, <1>9

(* A thread goes on without being done with an entry. *)
LEMMA HandledSame ==
  ASSUME AllInv, NEW p \in Clients, Local(p), call = "parallel", pc[Main] \in {"start", "join"},
         \/ pos'[p] = pos[p] /\ (Pending(p)' <=> Pending(p))
         \/ pos'[p] = pos[p] + 1 /\ pc[p] = "push" /\ pc'[p] = "next",
         threw' \in {threw, threw \cup {p}},
         pc'[p] \in {"chunk", "remove"} => pc[p] \in {"next", "chunk", "remove"} /\ More(p),
         pc'[p] \in {"disconnect", "unwind", "done"} /\ p \notin threw' =>
           ~More(p) \/ (pc[p] \in {"disconnect", "unwind"} /\ p \notin threw),
         UNCHANGED <<uploaded, refused>>
  PROVE  /\ UNION {Handled(q)' : q \in Clients} = uploaded \cup refused
         /\ \A q \in Clients : Started(q)'
<1> USE ProcsFacts DEF AllInv
<1>1. /\ \A q \in Clients : First(q) \in Nat /\ Last(q) \in Nat /\ Current(q) \in Nat
      /\ uploaded \cup refused = UNION {Handled(q) : q \in Clients} /\ \A q \in Clients : Started(q)
  BY ShareFacts DEF AccountInv
<1>2. \A q \in Clients : Share(q)' = Share(q) /\ Last(q)' = Last(q) /\ First(q)' = First(q)
  BY DEF Local, Share, First, Last
<1>3. \A q \in Clients : q # p => Current(q)' = Current(q) /\ pc'[q] = pc[q]
  BY <1>2 DEF Current, Local
<1>4. \A q \in Clients : q # p => Handled(q)' = Handled(q) /\ Started(q)'
  BY <1>1, <1>2, <1>3 DEF Handled, Pending, Started, More
<1>5. Handled(p)' = Handled(p) /\ Started(p)'
  <2>1. CASE pos'[p] = pos[p] /\ (Pending(p)' <=> Pending(p))
    <3>1. Current(p)' = Current(p) /\ More(p)' = More(p)
      BY <2>1, <1>2 DEF Current, More
    <3>2. Pending(p) => More(p)
      BY <1>1 DEF Started, Pending
    <3>3. pc[p] \in {"disconnect", "unwind"} /\ p \notin threw => ~More(p)
      BY <1>1 DEF Started
    <3>4. Handled(p)' = Handled(p)
      BY <1>2, <2>1, <3>1 DEF Handled
    <3>5. Started(p)'
      BY <2>1, <3>1, <3>2, <3>3 DEF Started, Pending
    <3> QED BY <3>4, <3>5
  <2>2. CASE pos'[p] = pos[p] + 1 /\ pc[p] = "push" /\ pc'[p] = "next"
    <3>1. Current(p)' = Current(p) + 1 /\ ~Pending(p)' /\ Pending(p)
      BY <2>2, <1>1, <1>2 DEF Current, Pending, LockInv
    <3>2. \A k \in Share(p) : k < Current(p) + 1 <=> k < Current(p) \/ k = Current(p)
      BY <1>1 DEF Share
    <3> QED BY <2>2, <1>2, <3>1, <3>2 DEF Handled, Started
  <2> QED BY <2>1, <2>2
<1> QED BY <1>1, <1>4, <1>5

(* The entries whose threads wait for the lock or hold it *)
PendingEntries == {Current(p) : p \in {q \in Clients : Pending(q)}}

LEMMA PendingSame ==
  ASSUME Control, UNCHANGED clientFileEntries,
         NEW p \in Procs, Local(p), p \in Clients => ~Pending(p) /\ ~Pending(p)'
  PROVE  PendingEntries' = PendingEntries
<1>1. \A q \in Clients : q # p => (Pending(q)' <=> Pending(q)) /\ Current(q)' = Current(q)
  BY ProcsFacts DEF Local, Pending, Current, First
<1> QED BY <1>1 DEF PendingEntries

(* The steps of UploadFile *)
LEMMA UploadAccount ==
  ASSUME AllInv, NEW p \in Procs, UploadStep(p)
  PROVE  LockInv' /\ FailedInv' /\ AccountInv'
<1> USE ProcsFacts DEF AllInv
<1>1. /\ Local(p) /\ pc[p] \in Places /\ (pc[p] = "next" => More(p))
      /\ ReturnTrue(p) \/ (\E sent \in BOOLEAN : ReturnFalse(p, sent)) \/ Throw(p) \/ GoesOn(p)
  BY UploadCases
<1>2. IF p = Main THEN call \in {"single", "sequential"} ELSE call = "parallel" /\ pc[Main] \in {"start", "join"}
  BY <1>1 DEF Control, Places
<1>3. ~Pending(p)
  BY <1>1 DEF Places, Pending
<1>4. UNCHANGED failed_files_mutex /\ UNCHANGED seen
  BY <1>1, <1>2 DEF ReturnTrue, ReturnFalse, Throw, GoesOn, failedVars
<1>5. pos'[p] \in Nat
  <2>1. pos' = pos \/ Advance(p)
    BY <1>1, <1>2 DEF ReturnTrue, ReturnFalse, Throw, GoesOn
  <2>2. pos[p] \in Nat /\ p \in DOMAIN pos
    BY DEF LockInv
  <2> QED BY <2>1, <2>2 DEF Advance
<1>6. CASE p \in Clients
  <2>1. call = "parallel" /\ pc[Main] \in {"start", "join"} /\ p # Main
    BY <1>2, <1>6
  <2>2. More(p)
    BY <1>1, <2>1, <1>6 DEF AccountInv, Started, Places
  <2>3. pc'[Main] = pc[Main] /\ call' = call
    BY <1>1, <2>1 DEF Local, ReturnTrue, ReturnFalse, Throw, GoesOn
  <2>4. pc'[p] # "push" /\ UNCHANGED failed_files /\ pc'[p] # "none"
    BY <1>1, <2>1, <1>6 DEF ReturnTrue, ReturnFalse, Throw, GoesOn, Goto, failedVars, Control, Places
  <2>5. LockInv'
    BY <1>1, <1>4, <1>5, <2>1, <2>3, <2>4 DEF LockInv, Local
  <2>6. CASE ReturnTrue(p)
    <3>1. /\ pos'[p] = pos[p] + 1 /\ pc'[p] = "next" /\ uploaded' = uploaded \cup {Current(p)}
          /\ UNCHANGED <<refused, threw>>
      BY <2>6, <2>1, <1>6 DEF ReturnTrue, Advance, Goto, LockInv, Control
    <3>2. PendingEntries' = PendingEntries
      BY <1>1, <1>3, <3>1, PendingSame DEF Pending, Local
    <3>3. FailedInv'
      BY <1>1, <2>1, <2>3, <2>4, <3>1, <3>2 DEF FailedInv, PendingEntries, Local
    <3>4. AccountInv'
      BY <1>1, <1>3, <1>6, <2>1, <2>2, <2>3, <3>1, HandledDone DEF AccountInv
    <3> QED BY <2>5, <3>3, <3>4
  <2>7. CASE \E sent \in BOOLEAN : ReturnFalse(p, sent)
    <3>1. /\ pos'[p] = pos[p] /\ pc'[p] = "lock" /\ refused' = refused \cup {Current(p)}
          /\ UNCHANGED <<uploaded, threw>>
      BY <2>7, <2>1, <1>6 DEF ReturnFalse, Goto, LockInv, Control
    <3>2. PendingEntries' = PendingEntries \cup {Current(p)}
      <4>1. \A q \in Clients : q # p => (Pending(q)' <=> Pending(q)) /\ Current(q)' = Current(q)
        BY <1>1 DEF Local, Pending, Current, First
      <4>2. Pending(p)' /\ Current(p)' = Current(p)
        BY <1>1, <3>1 DEF Local, Pending, Current, First
      <4> QED BY <4>1, <4>2, <1>6 DEF PendingEntries
    <3>3. FailedInv'
      BY <1>1, <2>1, <2>3, <2>4, <3>1, <3>2 DEF FailedInv, PendingEntries, Local
    <3>4. AccountInv'
      BY <1>1, <1>3, <1>6, <2>1, <2>2, <2>3, <3>1, HandledDone DEF AccountInv
    <3> QED BY <2>5, <3>3, <3>4
  <2>8. CASE Throw(p) \/ GoesOn(p)
    <3>1. /\ pos'[p] = pos[p] /\ pc'[p] \in {"next", "chunk", "remove", "unwind"}
          /\ UNCHANGED <<uploaded, refused>> /\ threw' \in {threw, threw \cup {p}}
          /\ pc'[p] = "unwind" => p \in threw'
      BY <2>8, <2>1, <1>1, <1>6 DEF Throw, GoesOn, Goto, LockInv, Control, Places, historyVars
    <3>2. PendingEntries' = PendingEntries
      BY <1>1, <1>3, <3>1, PendingSame DEF Pending, Local
    <3>3. FailedInv'
      BY <1>1, <2>1, <2>3, <2>4, <3>1, <3>2 DEF FailedInv, PendingEntries, Local
    <3>4. UNION {Handled(q)' : q \in Clients} = uploaded \cup refused /\ \A q \in Clients : Started(q)'
      BY <1>1, <1>3, <1>6, <2>1, <2>2, <3>1, HandledSame DEF Pending, Places
    <3>5. AccountInv'
      BY <2>1, <2>3, <3>1, <3>4 DEF AccountInv
    <3> QED BY <2>5, <3>3, <3>5
  <2> QED BY <1>1, <2>6, <2>7, <2>8
<1>7. CASE p = Main
  <2>1. call \in {"single", "sequential"} /\ entries' = entries
    BY <1>1, <1>2, <1>7 DEF Local
  <2>2. \A q \in Clients : pc[q] = "none" /\ pc'[q] = "none"
    BY <1>1, <1>7, <2>1 DEF Local, Control
  <2>3. call' \in {call, "none"}
    BY <1>1, <1>7, <2>1 DEF ReturnTrue, ReturnFalse, Throw, GoesOn, EndCall
  <2>4. LockInv'
    BY <1>1, <1>5, <2>1, <2>2, <2>3 DEF LockInv, Local
  <2>5. \A q \in Clients : ~Pending(q) /\ ~Pending(q)'
    BY <2>2 DEF Pending
  <2>6. PendingEntries = {} /\ PendingEntries' = {}
    BY <2>5 DEF PendingEntries
  <2>7. CASE call = "single"
    <3>1. Len(entries') = 1
      BY <2>1, <2>7 DEF LockInv
    <3>2. call' = "none" \/ (call' = "single" /\ UNCHANGED <<uploaded, refused>>)
      <4>1. CASE ReturnTrue(Main) BY <4>1, <2>7 DEF ReturnTrue, EndCall
      <4>2. CASE \E sent \in BOOLEAN : ReturnFalse(Main, sent) BY <4>2, <2>7 DEF ReturnFalse, EndCall
      <4>3. CASE Throw(Main) BY <4>3 DEF Throw, EndCall
      <4>4. CASE GoesOn(Main) BY <4>4, <2>7 DEF GoesOn, historyVars
      <4> QED BY <1>1, <1>7, <4>1, <4>2, <4>3, <4>4
    <3>3. (uploaded \cap refused)' = {}
      BY <1>1, <1>7, <2>7 DEF ReturnTrue, ReturnFalse, Throw, GoesOn, historyVars, AccountInv
    <3> QED BY <2>4, <2>7, <3>1, <3>2, <3>3 DEF FailedInv, AccountInv
  <2>8. CASE call = "sequential"
    <3>1. /\ uploaded \cup refused = 1..pos[Main] /\ pos[Main] <= Len(entries) /\ pos[Main] \in Nat
          /\ uploaded \cap refused = {} /\ refused = failed_files
      BY <2>6, <2>8 DEF AccountInv, LockInv, FailedInv, PendingEntries
    <3>2. More(Main) /\ Current(Main) = pos[Main] + 1 /\ Len(entries) \in Nat /\ pos[Main] + 1 <= Len(entries)
      BY <1>1, <1>7, <2>8, <3>1 DEF AccountInv, Places, More, Current, First, Last, ShareInv
    <3>3. CASE ReturnTrue(Main) \/ \E sent \in BOOLEAN : ReturnFalse(Main, sent)
      <4>1. /\ pos'[Main] = pos[Main] + 1 /\ pc'[Main] = "next" /\ call' = call
            /\ \/ uploaded' = uploaded \cup {pos[Main] + 1} /\ UNCHANGED <<refused, failed_files>>
               \/ refused' = refused \cup {pos[Main] + 1} /\ failed_files' = failed_files \cup {pos[Main] + 1} /\ UNCHANGED uploaded
        BY <3>2, <3>3, <2>8 DEF ReturnTrue, ReturnFalse, Advance, Goto, LockInv, Control, failedVars
      <4>2. FailedInv'
        BY <2>6, <3>1, <4>1 DEF FailedInv, PendingEntries
      <4>3. uploaded' \cup refused' = 1..(pos[Main] + 1) /\ uploaded' \cap refused' = {}
        BY <3>1, <4>1
      <4>4. AccountInv'
        BY <2>1, <2>8, <3>2, <4>1, <4>3 DEF AccountInv
      <4> QED BY <2>4, <4>2, <4>4
    <3>4. CASE Throw(Main)
      <4>1. /\ call' = "none" /\ Main \in threw'
            /\ UNCHANGED <<entries, pos, failed_files, uploaded, refused>>
        BY <2>1, <3>4 DEF Throw, EndCall, failedVars
      <4>2. First(Main)' = 0 /\ Last(Main)' = Len(entries) /\ Current(Main)' = pos[Main] + 1
        BY <3>2, <4>1 DEF First, Last, Current
      <4>3. Share(Main)' = 1..Len(entries) /\ DOMAIN entries = 1..Len(entries)
        BY <3>2, <4>2 DEF Share, ShareInv
      <4>4. \A k \in DOMAIN entries' : k \notin 1..pos[Main] => k \in Share(Main)' /\ k >= Current(Main)'
        BY <3>1, <3>2, <4>1, <4>2, <4>3
      <4>5. (DOMAIN entries \ (uploaded \cup refused) \subseteq Dropped)'
        BY <3>1, <4>1, <4>4 DEF Dropped
      <4>6. FailedInv'
        BY <2>6, <3>1, <4>1 DEF FailedInv, PendingEntries
      <4>7. AccountInv'
        BY <3>1, <4>1, <4>5 DEF AccountInv
      <4> QED BY <2>4, <4>6, <4>7
    <3>5. CASE GoesOn(Main)
      <4>1. More(Main)'
        BY <2>1, <3>2, <3>5 DEF GoesOn, More, Current, First, Last
      <4> QED BY <2>1, <2>4, <2>6, <2>8, <3>1, <3>5, <4>1 DEF GoesOn, FailedInv, AccountInv, PendingEntries, failedVars, historyVars
    <3> QED BY <1>1, <1>7, <3>3, <3>4, <3>5
  <2> QED BY <2>1, <2>7, <2>8
<1> QED BY <1>6, <1>7

(* A thread at work but not in UploadFile, and not at the list of failed   *)
(* files                                                                   *)
LEMMA QuietAccount ==
  ASSUME AllInv, NEW p \in Clients, call = "parallel", pc[Main] \in {"start", "join"}, NoUpload,
         ~Pending(p),
         \/ Throw(p)
         \/ /\ \E place \in {"connect", "login", "next", "disconnect", "unwind", "done"} : Proceed(p, place)
            /\ pc'[p] \in {"disconnect", "unwind", "done"} => ~More(p) \/ pc[p] \in {"disconnect", "unwind"}
  PROVE  LockInv' /\ FailedInv' /\ AccountInv'
<1> USE ProcsFacts DEF AllInv
<1>1. Local(p) /\ UNCHANGED <<call, pos, failedVars, uploaded, refused>> /\ pc'[Main] = pc[Main]
  <2>1. p # Main /\ UNCHANGED <<entries, clientFileEntries>>
    BY DEF NoUpload, shareVars
  <2>2. UNCHANGED <<call, pos, failedVars, uploaded, refused>>
    BY <2>1 DEF Throw, Proceed, historyVars
  <2>3. \A q \in Procs : q # p => pc'[q] = pc[q]
    BY <2>1 DEF Throw, Proceed, Goto, Control
  <2> QED BY <2>1, <2>2, <2>3 DEF Local, LockInv, failedVars
<1>2. /\ pc'[p] \in {"connect", "login", "next", "disconnect", "unwind", "done"}
      /\ threw' \in {threw, threw \cup {p}}
      /\ pc'[p] \in {"disconnect", "unwind", "done"} /\ p \notin threw' =>
           ~More(p) \/ (pc[p] \in {"disconnect", "unwind"} /\ p \notin threw)
  BY DEF Throw, Proceed, Goto, Control, historyVars
<1>3. LockInv'
  BY <1>1, <1>2 DEF LockInv, Local, failedVars
<1>4. PendingEntries' = PendingEntries
  BY <1>1, <1>2, PendingSame DEF Pending, Local
<1>5. FailedInv'
  BY <1>1, <1>4 DEF FailedInv, PendingEntries, Local, failedVars
<1>6. UNION {Handled(q)' : q \in Clients} = uploaded \cup refused /\ \A q \in Clients : Started(q)'
  BY <1>1, <1>2, HandledSame DEF Pending, failedVars
<1>7. AccountInv'
  BY <1>1, <1>6 DEF AccountInv, Local
<1> QED BY <1>3, <1>5, <1>7

LEMMA LockAccount ==
  ASSUME AllInv, NEW p \in Clients, call = "parallel", pc[Main] \in {"start", "join"},
         LockFailedFiles(p)
  PROVE  LockInv' /\ FailedInv' /\ AccountInv'
<1> USE ProcsFacts DEF AllInv
<1>1. /\ Local(p) /\ UNCHANGED <<call, pos, failed_files, uploaded, refused, threw>>
      /\ pc'[Main] = pc[Main] /\ pc'[p] = "push" /\ pc[p] = "lock"
  BY DEF LockFailedFiles, Local, NoUpload, shareVars, Goto, LockInv, Control, historyVars
<1>2. \A q \in Clients : pc[q] # "push"
  BY SpecialValues DEF LockInv, LockFailedFiles
<1>3. LockInv'
  BY <1>1, <1>2 DEF LockInv, Local, LockFailedFiles
<1>4. \A q \in Clients : (Pending(q)' <=> Pending(q)) /\ Current(q)' = Current(q)
  BY <1>1 DEF Local, Pending, Current, First
<1>5. PendingEntries' = PendingEntries
  BY <1>4 DEF PendingEntries
<1>6. FailedInv'
  BY <1>1, <1>5 DEF FailedInv, PendingEntries, Local
<1>7. UNION {Handled(q)' : q \in Clients} = uploaded \cup refused /\ \A q \in Clients : Started(q)'
  BY <1>1, <1>4, HandledSame DEF Pending
<1>8. AccountInv'
  BY <1>1, <1>7 DEF AccountInv, Local
<1> QED BY <1>3, <1>6, <1>8

LEMMA PushAccount ==
  ASSUME AllInv, NEW p \in Clients, call = "parallel", pc[Main] \in {"start", "join"},
         PushFailedFile(p)
  PROVE  LockInv' /\ FailedInv' /\ AccountInv'
<1> USE ProcsFacts DEF AllInv
<1>1. /\ Local(p) /\ UNCHANGED <<call, uploaded, refused, threw>> /\ pos'[p] = pos[p] + 1
      /\ pc'[Main] = pc[Main] /\ pc'[p] = "next" /\ pc[p] = "push"
  BY DEF PushFailedFile, Local, NoUpload, shareVars, Goto, Advance, LockInv, Control, historyVars
<1>2. failed_files' = failed_files \cup {Current(p)} /\ \A q \in Clients : q # p => pc[q] # "push"
  BY <1>1 DEF LockInv, PushFailedFile
<1>3. LockInv'
  BY <1>1, <1>2 DEF LockInv, Local
<1>4. /\ \A q \in Clients : q # p => (Pending(q)' <=> Pending(q)) /\ Current(q)' = Current(q)
      /\ Pending(p) /\ ~Pending(p)'
  BY <1>1 DEF Local, Pending, Current, First
<1>5. PendingEntries = PendingEntries' \cup {Current(p)}
  BY <1>4 DEF PendingEntries
<1>6. FailedInv'
  BY <1>1, <1>2, <1>5 DEF FailedInv, PendingEntries, Local
<1>7. UNION {Handled(q)' : q \in Clients} = uploaded \cup refused /\ \A q \in Clients : Started(q)'
  BY <1>1, HandledSame
<1>8. AccountInv'
  BY <1>1, <1>7 DEF AccountInv, Local
<1> QED BY <1>3, <1>6, <1>8

LEMMA ThreadAccount ==
  ASSUME AllInv, NEW p \in Clients, Thread(p)
  PROVE  LockInv' /\ FailedInv' /\ AccountInv'
<1> USE ProcsFacts DEF AllInv
<1>1. call = "parallel" /\ pc[Main] \in {"start", "join"}
  BY ThreadMoves DEF Control
<1>2. CASE UploadStep(p)
  BY <1>2, UploadAccount
<1>3. CASE OpenSocket(p)
  BY <1>1, <1>3, QuietAccount DEF OpenSocket, Pending, Proceed, Goto, Control
<1>4. CASE ConnectSucceeds(p)
  BY <1>1, <1>4, QuietAccount DEF ConnectSucceeds, Pending, Proceed, Goto, Control
<1>5. CASE ConnectRefused(p)
  BY <1>1, <1>5, QuietAccount DEF ConnectRefused, Pending
<1>6. CASE Login(p)
  BY <1>1, <1>6, QuietAccount DEF Login, Pending, Proceed, Goto, Control
<1>7. CASE LockFailedFiles(p)
  BY <1>1, <1>7, LockAccount
<1>8. CASE PushFailedFile(p)
  BY <1>1, <1>8, PushAccount
<1>9. CASE Logout(p)
  BY <1>1, <1>9, QuietAccount DEF Logout, Pending, Proceed
<1>10. CASE DisconnectAgain(p)
  BY <1>1, <1>10, QuietAccount DEF DisconnectAgain, Pending, Proceed
<1>11. CASE Unwind(p)
  BY <1>1, <1>11, QuietAccount DEF Unwind, Pending, Proceed
<1> QED BY <1>2, <1>3, <1>4, <1>5, <1>6, <1>7, <1>8, <1>9, <1>10, <1>11 DEF Thread

(* Main's steps between the uploads, and the calls *)
LEMMA BeginAccount ==
  ASSUME AllInv, NEW kind \in {"single", "sequential", "parallel"}, NEW e \in Seq(Files),
         Begin(kind, e), kind = "single" => Len(e) = 1,
         Goto(Main, IF kind = "parallel" THEN "distribute" ELSE "next")
  PROVE  LockInv' /\ FailedInv' /\ AccountInv'
<1> USE ProcsFacts DEF AllInv
<1>1. \A p \in Clients : pc'[p] = "none"
  BY DEF Begin, Control, Goto
<1>2. PendingEntries' = {}
  BY <1>1 DEF PendingEntries, Pending
<1>3. LockInv'
  BY <1>1 DEF LockInv, Begin
<1>4. FailedInv'
  BY <1>2 DEF FailedInv, Begin, PendingEntries
<1>5. pc'[Main] = IF kind = "parallel" THEN "distribute" ELSE "next"
  BY DEF Goto, Control
<1>6. AccountInv'
  <2>1. /\ call' = kind /\ entries' = e /\ uploaded' = {} /\ refused' = {}
        /\ \A p \in Procs : pos'[p] = 0
    BY DEF Begin
  <2>2. Len(e) \in Nat /\ 1..0 = {}
    OBVIOUS
  <2> QED BY <1>5, <2>1, <2>2 DEF AccountInv
<1> QED BY <1>3, <1>4, <1>6

LEMMA FinishAccount ==
  ASSUME AllInv, FinishDirectory
  PROVE  LockInv' /\ FailedInv' /\ AccountInv'
<1> USE ProcsFacts DEF AllInv
<1>1. /\ call = "sequential" /\ call' = "none"
      /\ UNCHANGED <<entries, clientFileEntries, pos, failedVars, uploaded, refused>>
      /\ \A p \in Clients : pc[p] = "none" /\ pc'[p] = "none"
  BY DEF FinishDirectory, EndCall, Goto, Control, shareVars
<1>2. LockInv'
  BY <1>1 DEF LockInv, failedVars
<1>3. PendingEntries = {} /\ PendingEntries' = {}
  BY <1>1 DEF PendingEntries, Pending
<1>4. FailedInv'
  BY <1>1, <1>3 DEF FailedInv, PendingEntries, failedVars
<1>5. pos[Main] = Len(entries)
  <2>1. pos[Main] \in Nat /\ pos[Main] <= Len(entries) /\ Len(entries) \in Nat
    BY <1>1 DEF AccountInv, LockInv, ShareInv
  <2> QED BY <2>1 DEF FinishDirectory, More, Current, First, Last
<1>6. uploaded \cup refused = DOMAIN entries
  <2>1. entries \in Seq(Files) /\ uploaded \cup refused = 1..pos[Main]
    BY <1>1 DEF AccountInv, ShareInv
  <2>2. DOMAIN entries = 1..Len(entries)
    BY <2>1
  <2> QED BY <1>5, <2>1, <2>2
<1> QED BY <1>1, <1>2, <1>4, <1>6 DEF AccountInv

LEMMA DistributeAccount ==
  ASSUME AllInv, Distribute \/ Distributed
  PROVE  LockInv' /\ FailedInv' /\ AccountInv'
<1> USE ProcsFacts DEF AllInv
<1>1. /\ call = "parallel" /\ call' = call /\ pc[Main] = "distribute"
      /\ UNCHANGED <<entries, pos, failedVars, uploaded, refused>>
      /\ \A p \in Clients : pc[p] = "none" /\ pc'[p] = "none"
  BY DEF Distribute, Distributed, Goto, Control, historyVars, Places
<1>2. LockInv'
  BY <1>1 DEF LockInv, failedVars
<1>3. PendingEntries = {} /\ PendingEntries' = {}
  BY <1>1 DEF PendingEntries, Pending
<1>4. FailedInv'
  BY <1>1, <1>3 DEF FailedInv, PendingEntries, failedVars
<1>5. uploaded \cup refused = {} /\ \A p \in Clients : pos[p] = 0
  BY <1>1 DEF AccountInv
<1>6. CASE Distribute
  BY <1>1, <1>2, <1>4, <1>5, <1>6 DEF AccountInv, Distribute
<1>7. CASE Distributed
  <2>1. pc'[Main] = "start" /\ UNCHANGED clientFileEntries
    BY <1>7 DEF Distributed, Goto, Control
  <2>2. \A p \in Clients : First(p)' \in Nat /\ Last(p)' \in Nat
    BY <1>1, <1>7, <2>1 DEF ShareInv, Dealt, Distributed, First, Last, Clients
  <2>3. \A p \in Clients : Handled(p)' = {} /\ Started(p)'
    BY <1>1, <1>5, <2>2 DEF Handled, Started, Share, Current, Pending
  <2> QED BY <1>1, <1>2, <1>4, <1>5, <2>1, <2>3 DEF AccountInv
<1> QED BY <1>6, <1>7

LEMMA StartAccount ==
  ASSUME AllInv, StartThread
  PROVE  LockInv' /\ FailedInv' /\ AccountInv'
<1> USE ProcsFacts DEF AllInv
<1>1. /\ call = "parallel" /\ call' = call /\ pc[Main] = "start" /\ pc'[Main] \in {"start", "join"}
      /\ UNCHANGED <<entries, clientFileEntries, pos, failedVars, uploaded, refused, threw>>
      /\ \A p \in Clients : pc'[p] = pc[p] \/ (pc'[p] = "socket" /\ p = i + 1)
  <2>1. call = "parallel" /\ pc[Main] = "start"
    BY DEF StartThread, Control, Places
  <2>2. i + 1 \in Clients /\ i + 1 # Main
    BY <2>1, ClientsAssumption DEF Control, Clients, Main
  <2>3. /\ pc'[Main] \in {"start", "join"} /\ pc'[i + 1] = "socket"
        /\ \A p \in Clients : p # i + 1 => pc'[p] = pc[p]
    BY <2>2 DEF StartThread, Control
  <2>4. UNCHANGED <<call, entries, clientFileEntries, pos, failedVars, uploaded, refused, threw>>
    BY DEF StartThread, historyVars
  <2> QED BY <2>1, <2>2, <2>3, <2>4
<1>2. \A p \in Clients : pc'[p] # pc[p] => pc[p] = "none" /\ pc'[p] = "socket"
  BY <1>1, ClientsAssumption DEF Control, Clients
<1>3. LockInv'
  BY <1>1, <1>2 DEF LockInv, failedVars
<1>4. \A p \in Clients : /\ Pending(p)' <=> Pending(p)
                         /\ Current(p)' = Current(p) /\ Share(p)' = Share(p)
                         /\ More(p)' = More(p)
  BY <1>1, <1>2 DEF Pending, Current, Share, More, First, Last
<1>5. PendingEntries' = PendingEntries
  BY <1>4 DEF PendingEntries
<1>6. FailedInv'
  BY <1>1, <1>5 DEF FailedInv, PendingEntries, failedVars
<1>7. \A p \in Clients : Handled(p)' = Handled(p) /\ (Started(p) => Started(p)')
  BY <1>1, <1>2, <1>4 DEF Handled, Started
<1>8. AccountInv'
  BY <1>1, <1>7 DEF AccountInv
<1> QED BY <1>3, <1>6, <1>8

LEMMA JoinAccount ==
  ASSUME AllInv, Join
  PROVE  LockInv' /\ FailedInv' /\ AccountInv'
<1> USE ProcsFacts DEF AllInv
<1>1. /\ call = "parallel" /\ call' = "none" /\ pc[Main] = "join"
      /\ UNCHANGED <<entries, clientFileEntries, pos, failedVars, uploaded, refused, threw>>
      /\ \A p \in Clients : pc[p] = "done" /\ pc'[p] = "none"
  BY DEF Join, Control, historyVars, shareVars, Places
<1>2. LockInv'
  BY <1>1 DEF LockInv, failedVars
<1>3. PendingEntries = {} /\ PendingEntries' = {}
  BY <1>1 DEF PendingEntries, Pending
<1>4. FailedInv'
  BY <1>1, <1>3 DEF FailedInv, PendingEntries, failedVars
<1>5. DOMAIN entries' \ (uploaded' \cup refused') \subseteq Dropped'
  <2>1. /\ \A p \in Clients : First(p) \in Nat /\ Last(p) \in Nat /\ Current(p) \in Nat
        /\ UNION {Share(p) : p \in Clients} = DOMAIN entries
    BY <1>1, ShareFacts
  <2>2. /\ uploaded \cup refused = UNION {Handled(p) : p \in Clients}
        /\ \A p \in Clients : p \notin threw => ~More(p)
    BY <1>1 DEF AccountInv, Started
  <2>3. ASSUME NEW k \in DOMAIN entries, k \notin uploaded \cup refused PROVE k \in Dropped'
    <3>1. PICK p \in Clients : k \in Share(p)
      BY <2>1
    <3>2. ~(k < Current(p)) /\ k \in Nat /\ k <= Last(p)
      BY <2>1, <2>2, <2>3, <3>1 DEF Handled, Share
    <3>3. k >= Current(p) /\ More(p)
      BY <2>1, <3>2 DEF More
    <3>4. p \in threw /\ Share(p)' = Share(p) /\ Current(p)' = Current(p)
      BY <1>1, <2>2, <3>3 DEF Share, Current, First, Last
    <3> QED BY <1>1, <3>1, <3>3, <3>4 DEF Dropped
  <2> QED BY <1>1, <2>3
<1>6. AccountInv'
  BY <1>1, <1>5 DEF AccountInv
<1> QED BY <1>2, <1>4, <1>6

LEMMA NextAccount == ASSUME AllInv, [Next]_vars PROVE AllInv'
<1> USE DEF AllInv
<1>1. Control' /\ ShareInv'
  BY NextControl, NextShare
<1>2. ASSUME NEW f \in Files, CallUpload(f) PROVE LockInv' /\ FailedInv' /\ AccountInv'
  <2>1. <<f>> \in Seq(Files) /\ Len(<<f>>) = 1
    OBVIOUS
  <2> QED BY <1>2, <2>1, BeginAccount DEF CallUpload
<1>3. ASSUME NEW d \in Directories, CallUploadDirectory(d) \/ CallUploadParallel(d)
      PROVE  LockInv' /\ FailedInv' /\ AccountInv'
  <2>1. PICK e \in Sorted(d) : Begin("sequential", e) \/ Begin("parallel", e)
    BY <1>3 DEF CallUploadDirectory, CallUploadParallel
  <2>2. entries' = e /\ e \in Seq(Files)
    BY <1>1, <2>1 DEF Begin, ShareInv
  <2>3. CASE CallUploadDirectory(d)
    BY <1>1, <2>3, BeginAccount DEF CallUploadDirectory, Begin, ShareInv
  <2>4. CASE CallUploadParallel(d)
    BY <1>1, <2>4, BeginAccount DEF CallUploadParallel, Begin, ShareInv
  <2> QED BY <1>3, <2>3, <2>4
<1>4. CASE UploadStep(Main)
  BY <1>1, <1>4, UploadAccount, ProcsFacts
<1>5. CASE FinishDirectory
  BY <1>1, <1>5, FinishAccount
<1>6. CASE Distribute \/ Distributed
  BY <1>1, <1>6, DistributeAccount
<1>7. CASE StartThread
  BY <1>1, <1>7, StartAccount
<1>8. CASE Join
  BY <1>1, <1>8, JoinAccount
<1>9. ASSUME NEW p \in Clients, Thread(p) PROVE LockInv' /\ FailedInv' /\ AccountInv'
  BY <1>9, ThreadAccount
<1>10. CASE UNCHANGED vars
  <2>1. UNCHANGED <<call, pc, entries, clientFileEntries, pos, failed_files, failed_files_mutex, seen,
                    uploaded, refused, threw>>
    BY <1>10 DEF vars, shareVars, failedVars, historyVars
  <2>2. LockInv'
    BY <2>1 DEF LockInv
  <2>3. \A p \in Clients : /\ Pending(p)' <=> Pending(p)
                           /\ Current(p)' = Current(p) /\ Share(p)' = Share(p)
                           /\ More(p)' = More(p)
    BY <2>1 DEF Pending, Current, Share, More, First, Last
  <2>4. PendingEntries' = PendingEntries
    BY <2>3 DEF PendingEntries
  <2>5. FailedInv'
    BY <2>1, <2>4 DEF FailedInv, PendingEntries
  <2>6. \A p \in Clients : Handled(p)' = Handled(p) /\ (Started(p) => Started(p)')
    BY <2>1, <2>3 DEF Handled, Started
  <2>7. More(Main)' = More(Main)
    BY <2>1 DEF More, Current, First, Last
  <2>9. Dropped' = Dropped
    BY <2>1 DEF Dropped, Share, Current, First, Last
  <2>8. AccountInv'
    BY <2>1, <2>6, <2>7, <2>9 DEF AccountInv
  <2> QED BY <1>1, <2>2, <2>5, <2>8
<1> QED
  BY <1>1, <1>2, <1>3, <1>4, <1>5, <1>6, <1>7, <1>8, <1>9, <1>10 DEF Next, Call, MainStep

(* When a directory upload has ended, each of its entries is counted as    *)
(* uploaded or as failed, never as both, unless an exception ended its     *)
(* process before it was done with it; and failed_files, which the threads *)
(* share, has lost none of those that failed (ftc 783-794, 907-941).       *)
THEOREM FilesAreAccounted == Spec => []FilesAccounted
<1>1. Init => AllInv
  BY InitControl, InitShare, InitAccount DEF AllInv
<1>2. AllInv => FilesAccounted
  <2> SUFFICES ASSUME AllInv, call = "none", Len(entries) > 1 PROVE FilesAccounted
    BY DEF FilesAccounted
  <2>1. \A p \in Clients : ~Pending(p)
    BY ProcsFacts DEF AllInv, Control, Pending
  <2>2. PendingEntries = {}
    BY <2>1 DEF PendingEntries
  <2>3. entries \in Seq(Files)
    BY DEF AllInv, ShareInv
  <2>4. Len(entries) # 1
    BY <2>3
  <2>5. refused = failed_files \cup PendingEntries
    BY <2>4 DEF AllInv, FailedInv, PendingEntries
  <2>6. failed_files = refused
    BY <2>2, <2>5
  <2> QED BY <2>6 DEF AllInv, AccountInv, FilesAccounted
<1>3. AllInv /\ [Next]_vars => AllInv'
  BY NextAccount
<1> QED BY <1>1, <1>2, <1>3, PTL DEF Spec

-----------------------------------------------------------------------------
(* Types.  Beyond AllInv: the places of the threads, the holder of the     *)
(* lock, the counters of the distribution and the checkpoint files.        *)

ClientPlaces ==
  {"none", "socket", "connect", "login", "next", "chunk", "remove", "lock", "push", "disconnect",
   "unwind", "done"}

LockHeld ==
  /\ \A p \in Clients : pc[p] \in ClientPlaces
  /\ \A p \in Clients : pc[p] = "push" <=> failed_files_mutex = p
  /\ failed_files_mutex \in Clients \cup {None}
  /\ call = "single" /\ pc[Main] \in {"chunk", "remove"} => More(Main)

Counters ==
  /\ i \in 0..NumClients /\ startIndex \in 0..Len(entries) /\ remainingFiles \in 0..NumClients
  /\ call = "parallel" =>
       \A p \in Clients : /\ clientFileEntries[p].first \in Nat /\ clientFileEntries[p].last \in Nat
                          /\ clientFileEntries[p].last <= Len(entries)

FileTypes ==
  /\ DOMAIN left = Procs /\ DOMAIN buf = Procs
  /\ \A p \in Procs : left[p] \in Nat /\ buf[p] \in BOOLEAN
  /\ ckp \in [Stems -> Files \cup {Absent, Empty}]
  /\ owner \in [Handles -> Clients \cup {None}]
  /\ failed_files \subseteq DOMAIN entries

SocketTable == m_socket \in [Clients -> Handles \cup {None}]

TypeInv == AllInv /\ SocketInv /\ LockHeld /\ Counters /\ FileTypes /\ SocketTable

(* A process that uploads is at an entry that is not accounted for. *)
LEMMA AtEntry ==
  ASSUME AllInv, LockHeld, NEW p \in Procs, pc[p] \in Places \cup {"lock", "push"},
         pc[p] = "next" => More(p)
  PROVE  /\ More(p) /\ Current(p) \in DOMAIN entries /\ File(p) \in Files
         /\ pc[p] \in Places => Current(p) \notin uploaded \cup refused
<1> USE ProcsFacts DEF AllInv
<1>1. entries \in Seq(Files) /\ Len(entries) \in Nat /\ DOMAIN entries = 1..Len(entries)
  BY DEF ShareInv
<1>2. CASE p = Main
  <2>1. call \in {"single", "sequential"} /\ pc[p] \in Places
    BY <1>2 DEF Control, Places
  <2>2. More(p)
    BY <1>2, <2>1 DEF LockHeld, AccountInv, Places
  <2>3. pos[p] \in Nat /\ Current(p) = pos[p] + 1 /\ pos[p] + 1 <= Len(entries)
    BY <1>2, <2>2 DEF LockInv, More, Current, First, Last
  <2>4. Current(p) \in 1..Len(entries)
    BY <1>1, <2>3
  <2>5. Current(p) \notin uploaded \cup refused
    <3>1. CASE call = "single"
      BY <3>1 DEF AccountInv
    <3>2. CASE call = "sequential"
      <4>1. uploaded \cup refused = 1..pos[p]
        BY <1>2, <3>2 DEF AccountInv
      <4> QED BY <2>3, <4>1
    <3> QED BY <2>1, <3>1, <3>2
  <2> QED BY <1>1, <2>2, <2>4, <2>5 DEF File
<1>3. CASE p \in Clients
  <2>1. call = "parallel" /\ pc[Main] \in {"start", "join"}
    BY <1>3 DEF Control, Places
  <2>2. More(p)
    BY <1>3, <2>1 DEF AccountInv, Started, Places
  <2>3. /\ Current(p) \in Share(p)
        /\ \A q \in Clients : \A k \in Share(p) : k \in Share(q) => p = q
        /\ UNION {Share(q) : q \in Clients} = DOMAIN entries
        /\ Current(p) \in Nat
    BY <1>3, <2>1, <2>2, ShareFacts
  <2>4. ASSUME pc[p] \in Places PROVE Current(p) \notin uploaded \cup refused
    <3>1. ~Pending(p)
      BY <2>4 DEF Places, Pending
    <3>2. ASSUME NEW q \in Clients, Current(p) \in Handled(q) PROVE FALSE
      <4>1. q = p
        BY <1>3, <2>3, <3>2 DEF Handled
      <4> QED BY <2>3, <3>1, <3>2, <4>1 DEF Handled
    <3> QED BY <2>1, <3>2 DEF AccountInv
  <2> QED BY <1>1, <1>3, <2>2, <2>3, <2>4 DEF File
<1> QED BY <1>2, <1>3

LEMMA InitTypes == Init => LockHeld /\ Counters /\ FileTypes
BY ProcsFacts, ClientsAssumption, SpecialValues
   DEF Init, LockHeld, Counters, FileTypes, ClientPlaces, Places

(* What a step of UploadFile does to the lock and the list of failed files *)
LEMMA UploadLock ==
  ASSUME AllInv, LockHeld, NEW p \in Procs, UploadStep(p)
  PROVE  /\ UNCHANGED failed_files_mutex
         /\ failed_files' \in {failed_files, failed_files \cup {Current(p)}}
         /\ pc'[p] \in {"chunk", "remove"} /\ call' = "single" => UNCHANGED pos
<1> USE ProcsFacts DEF AllInv
<1>1. /\ pc[p] \in Places
      /\ ReturnTrue(p) \/ (\E sent \in BOOLEAN : ReturnFalse(p, sent)) \/ Throw(p) \/ GoesOn(p)
  BY UploadCases
<1>2. IF p = Main THEN call \in {"single", "sequential"} ELSE call = "parallel"
  BY <1>1 DEF Control, Places
<1>3. CASE ReturnTrue(p)
  BY <1>1, <1>2, <1>3 DEF ReturnTrue, EndCall, failedVars, Goto, Control
<1>4. CASE \E sent \in BOOLEAN : ReturnFalse(p, sent)
  <2>1. CASE call = "single"
    BY <1>2, <1>4, <2>1 DEF ReturnFalse, EndCall
  <2>2. CASE call = "sequential"
    BY <1>2, <1>4, <2>2 DEF ReturnFalse
  <2>3. CASE call = "parallel"
    BY <1>2, <1>4, <2>3 DEF ReturnFalse
  <2> QED BY <1>2, <2>1, <2>2, <2>3
<1>5. CASE Throw(p) \/ GoesOn(p)
  BY <1>5 DEF Throw, GoesOn, failedVars
<1> QED BY <1>1, <1>3, <1>4, <1>5

LEMMA UploadHeld ==
  ASSUME AllInv, LockHeld, NEW p \in Procs, UploadStep(p)
  PROVE  LockHeld'
<1> USE ProcsFacts DEF AllInv
<1>1. /\ Moves(p, UploadPlaces) /\ pc[p] \in Places /\ UNCHANGED <<entries, clientFileEntries>>
      /\ pc[p] = "next" => More(p)
      /\ \A q \in Procs : q # p => pc'[q] = pc[q]
  BY UploadMoves, UploadCases DEF Local
<1>2. UNCHANGED failed_files_mutex /\ (pc'[p] \in {"chunk", "remove"} /\ call' = "single" => UNCHANGED pos)
  BY UploadLock
<1>3. pc'[p] \in UploadPlaces \cup {"idle"} /\ (p \in Clients => pc'[p] \in UploadPlaces)
  BY <1>1 DEF Moves, Goto, Control, Places, UploadPlaces
<1>4. \A q \in Clients : /\ pc'[q] \in ClientPlaces
                         /\ pc'[q] = "push" <=> pc[q] = "push"
  BY <1>1, <1>3 DEF LockHeld, ClientPlaces, Places, UploadPlaces
<1>5. ASSUME call' = "single", pc'[Main] \in {"chunk", "remove"} PROVE More(Main)'
  <2>1. p = Main /\ call = "single"
    BY <1>1, <1>5 DEF Moves, Control, Places
  <2>2. More(Main)
    BY <1>1, <2>1 DEF LockHeld, Places
  <2> QED BY <1>1, <1>2, <1>5, <2>1, <2>2 DEF More, Current, First, Last
<1> QED BY <1>2, <1>4, <1>5 DEF LockHeld

LEMMA ThreadHeld ==
  ASSUME AllInv, LockHeld, NEW p \in Clients, Thread(p)
  PROVE  LockHeld'
<1> USE ProcsFacts, SpecialValues DEF AllInv
<1>1. call = "parallel" /\ call' = call /\ p # Main
  BY ThreadMoves DEF Control, Moves
<1>2. CASE UploadStep(p)
  BY <1>2, UploadHeld
<1>3. ASSUME \/ Throw(p)
             \/ \E place \in ClientPlaces \ {"push"} : Proceed(p, place), pc[p] # "push"
      PROVE  LockHeld'
  <2>1. /\ \A q \in Clients : q # p => pc'[q] = pc[q]
        /\ pc'[p] \in ClientPlaces \ {"push"} /\ UNCHANGED failed_files_mutex
    BY <1>1, <1>3 DEF Throw, Proceed, Goto, Control, failedVars, ClientPlaces
  <2> QED BY <1>1, <1>3, <2>1 DEF LockHeld
<1>4. CASE LockFailedFiles(p)
  <2>1. /\ \A q \in Clients : q # p => pc'[q] = pc[q]
        /\ pc'[p] = "push" /\ failed_files_mutex = None /\ failed_files_mutex' = p
    BY <1>4 DEF LockFailedFiles, Goto, Control
  <2> QED BY <1>1, <2>1 DEF LockHeld, ClientPlaces
<1>5. CASE PushFailedFile(p)
  <2>1. /\ \A q \in Clients : q # p => pc'[q] = pc[q]
        /\ pc'[p] = "next" /\ pc[p] = "push" /\ failed_files_mutex' = None
    BY <1>5 DEF PushFailedFile, Goto, Control
  <2> QED BY <1>1, <2>1 DEF LockHeld, ClientPlaces
<1>6. CASE OpenSocket(p)
  BY <1>3, <1>6 DEF OpenSocket, ClientPlaces
<1>7. CASE ConnectSucceeds(p) \/ ConnectRefused(p)
  BY <1>3, <1>7 DEF ConnectSucceeds, ConnectRefused, ClientPlaces
<1>8. CASE Login(p)
  BY <1>3, <1>8 DEF Login, ClientPlaces
<1>9. CASE Logout(p)
  BY <1>3, <1>9 DEF Logout, ClientPlaces
<1>10. CASE DisconnectAgain(p) \/ Unwind(p)
  BY <1>3, <1>10 DEF DisconnectAgain, Unwind, ClientPlaces
<1> QED BY <1>2, <1>4, <1>5, <1>6, <1>7, <1>8, <1>9, <1>10 DEF Thread

LEMMA NextHeld == ASSUME AllInv, LockHeld, [Next]_vars PROVE LockHeld'
<1> USE ProcsFacts DEF AllInv
<1>1. ASSUME NEW p \in Clients, Thread(p) PROVE LockHeld'
  BY <1>1, ThreadHeld
<1>2. CASE UploadStep(Main)
  BY <1>2, UploadHeld
<1>3. CASE Call
  <2>1. /\ call = "none" /\ UNCHANGED failed_files_mutex
        /\ \E place \in {"next", "distribute"} : Goto(Main, place)
    BY <1>3 DEF Call, CallUpload, CallUploadDirectory, CallUploadParallel, Begin
  <2>2. \A p \in Clients : pc'[p] = pc[p]
    BY <2>1 DEF Goto, Control
  <2>3. pc'[Main] \notin {"chunk", "remove"}
    BY <2>1 DEF Goto, Control
  <2> QED BY <2>1, <2>2, <2>3 DEF LockHeld
<1>4. CASE FinishDirectory \/ Distribute \/ Distributed
  <2>1. /\ UNCHANGED failed_files_mutex /\ \A p \in Clients : pc'[p] = pc[p]
        /\ pc'[Main] \notin {"chunk", "remove"}
    BY <1>4 DEF FinishDirectory, Distribute, Distributed, EndCall, Goto, Control, failedVars
  <2> QED BY <2>1 DEF LockHeld
<1>5. CASE StartThread
  <2>1. /\ i + 1 \in Clients /\ pc[i + 1] = "none" /\ i + 1 # Main
    BY <1>5, ClientsAssumption DEF StartThread, Control, Clients, Places
  <2>2. /\ UNCHANGED failed_files_mutex /\ pc'[Main] \in {"start", "join"}
        /\ \A p \in Clients : pc'[p] = pc[p] \/ (pc'[p] = "socket" /\ pc[p] = "none")
    BY <1>5, <2>1 DEF StartThread, Control, failedVars
  <2> QED BY <2>2 DEF LockHeld, ClientPlaces
<1>6. CASE Join
  <2>1. /\ UNCHANGED failed_files_mutex /\ pc'[Main] = "idle"
        /\ \A p \in Clients : pc'[p] = "none" /\ pc[p] = "done"
    BY <1>6 DEF Join, failedVars
  <2> QED BY <2>1 DEF LockHeld, ClientPlaces
<1>7. CASE UNCHANGED vars
  BY <1>7 DEF vars, LockHeld, failedVars, shareVars, More, Current, First, Last
<1> QED BY <1>1, <1>2, <1>3, <1>4, <1>5, <1>6, <1>7 DEF Next, MainStep

LEMMA NextCounters == ASSUME Control, ShareInv, Counters, [Next]_vars PROVE Counters'
<1> USE ProcsFacts, ClientsAssumption
<1>0. ShareInv' /\ Len(entries) \in Nat /\ Len(entries') \in Nat
  BY NextShare DEF ShareInv
<1>1. CASE /\ UNCHANGED <<startIndex, remainingFiles, clientFileEntries, entries>>
           /\ i' \in 0..NumClients /\ (call' = "parallel" => call = "parallel")
  BY <1>1 DEF Counters
<1>2. ASSUME NEW p \in Clients, Thread(p) PROVE Counters'
  BY <1>1, <1>2, ThreadMoves DEF Moves, Counters
<1>3. CASE UploadStep(Main)
  BY <1>1, <1>3, UploadMoves DEF Moves, Counters
<1>4. CASE Call
  <2>1. PICK kind, e : Begin(kind, e) /\ kind \in {"single", "sequential", "parallel"}
    BY <1>4 DEF Call, CallUpload, CallUploadDirectory, CallUploadParallel
  <2>2. /\ i' = 0 /\ startIndex' = 0
        /\ remainingFiles' = IF kind = "parallel" THEN Len(entries') % NumClients ELSE 0
        /\ clientFileEntries' = [p \in Clients |-> NoShare]
    BY <2>1 DEF Begin
  <2>3. Len(entries') % NumClients \in 0..NumClients
    BY <1>0
  <2> QED BY <1>0, <2>2, <2>3 DEF Counters, NoShare
<1>5. CASE FinishDirectory \/ Join \/ UNCHANGED vars
  BY <1>1, <1>5 DEF FinishDirectory, Join, EndCall, vars, shareVars, Counters
<1>6. CASE Distributed
  BY <1>1, <1>6 DEF Distributed
<1>7. CASE StartThread
  <2>1. i \in 0..(NumClients - 1)
    BY <1>7 DEF StartThread, Control
  <2> QED BY <1>1, <1>7, <2>1 DEF StartThread
<1>8. CASE Distribute
  <2>1. call = "parallel" /\ pc[Main] = "distribute" /\ i < NumClients
    BY <1>8 DEF Distribute, Control, Places
  <2>2. /\ startIndex \in Nat /\ remainingFiles \in 0..(NumClients - i) /\ Part \in Nat /\ i \in 0..NumClients
        /\ startIndex + remainingFiles + (NumClients - i) * Part = Len(entries)
    BY <2>1, PartFacts DEF ShareInv
  <2>3. (NumClients - i) * Part = (NumClients - i - 1) * Part + Part /\ (NumClients - i - 1) * Part \in Nat
    BY <2>1, <2>2
  <2>4. EndIndex = startIndex + Part + (IF remainingFiles > 0 THEN 1 ELSE 0)
    BY DEF EndIndex, Part
  <2>5. EndIndex \in Nat /\ EndIndex <= Len(entries)
    <3> DEFINE product == (NumClients - i - 1) * Part
    <3>1. product \in Nat /\ startIndex + remainingFiles + product + Part = Len(entries)
      BY <2>2, <2>3
    <3> HIDE DEF product
    <3> QED BY <1>0, <2>2, <2>4, <3>1
  <2>6. \A p \in Clients : \/ clientFileEntries'[p] = clientFileEntries[p]
                           \/ clientFileEntries'[p] = [first |-> startIndex, last |-> EndIndex]
    BY <1>8 DEF Distribute, ShareInv
  <2>7. \A p \in Clients : /\ clientFileEntries'[p].first \in Nat /\ clientFileEntries'[p].last \in Nat
                           /\ clientFileEntries'[p].last <= Len(entries)
    BY <2>1, <2>2, <2>5, <2>6 DEF Counters
  <2> QED BY <1>8, <2>1, <2>2, <2>5, <2>7 DEF Counters, Distribute
<1> QED BY <1>2, <1>3, <1>4, <1>5, <1>6, <1>7, <1>8 DEF Next, MainStep

LEMMA UploadFiles ==
  ASSUME TypeInv, NEW p \in Procs, UploadStep(p)
  PROVE  FileTypes'
<1> USE ProcsFacts DEF TypeInv, FileTypes
<1>1. /\ pc[p] \in Places /\ (pc[p] = "next" => More(p)) /\ UNCHANGED <<entries, owner>>
  BY UploadMoves, UploadCases DEF AllInv, socketVars
<1>2. Current(p) \in DOMAIN entries /\ File(p) \in Files
  BY <1>1, AtEntry
<1>3. Stem[File(p)] \in Stems /\ Chunks[File(p)] \in Nat
  BY <1>2, DirectoryAssumption DEF Stems
<1>4. failed_files' \subseteq DOMAIN entries'
  BY <1>1, <1>2, UploadLock
<1>5. left' \in {left, [left EXCEPT ![p] = Chunks[File(p)]]} \/ (left[p] > 0 /\ left' = [left EXCEPT ![p] = @ - 1])
  BY DEF UploadStep, RequestThrows, RequestDenied, EmptyFileAcked, UploadAllowed, ChunkAcked,
         ChunkGivenUp, CloseCheckpoint, RemoveCheckpoint, fileVars
<1>6. DOMAIN left' = Procs /\ \A q \in Procs : left'[q] \in Nat
  BY <1>3, <1>5
<1>7. UNCHANGED buf \/ \E b \in BOOLEAN : buf' = [buf EXCEPT ![p] = b]
  BY DEF UploadStep, RequestThrows, RequestDenied, EmptyFileAcked, UploadAllowed, ChunkAcked,
         ChunkGivenUp, CloseCheckpoint, RemoveCheckpoint, CloseState, fileVars
<1>8. \/ UNCHANGED ckp
      \/ \E r \in Files \cup {Absent, Empty} : ckp' = [ckp EXCEPT ![Stem[File(p)]] = r]
  BY <1>2 DEF UploadStep, RequestThrows, RequestDenied, EmptyFileAcked, UploadAllowed, ChunkAcked,
         ChunkGivenUp, CloseCheckpoint, RemoveCheckpoint, CloseState, Flushed, fileVars
<1>9. ckp' \in [Stems -> Files \cup {Absent, Empty}]
  BY <1>3, <1>8
<1> QED BY <1>1, <1>4, <1>6, <1>7, <1>9

LEMMA NextFiles == ASSUME TypeInv, [Next]_vars PROVE FileTypes'
<1> USE ProcsFacts DEF TypeInv
<1>1. ASSUME UNCHANGED <<left, buf, ckp, owner>>, failed_files' \subseteq DOMAIN entries' PROVE FileTypes'
  BY <1>1 DEF FileTypes
<1>2. CASE UploadStep(Main)
  BY <1>2, UploadFiles
<1>3. CASE Call
  BY <1>3 DEF Call, CallUpload, CallUploadDirectory, CallUploadParallel, Begin, FileTypes
<1>4. CASE FinishDirectory \/ Distribute \/ Distributed \/ StartThread \/ Join \/ UNCHANGED vars
  BY <1>1, <1>4 DEF FinishDirectory, Distribute, Distributed, StartThread, Join, vars, shareVars,
                    fileVars, failedVars, socketVars, FileTypes
<1>5. ASSUME NEW p \in Clients, Thread(p) PROVE FileTypes'
  <2>1. CASE UploadStep(p)
    BY <2>1, UploadFiles
  <2>2. CASE PushFailedFile(p)
    <3>1. Current(p) \in DOMAIN entries /\ seen[p] = failed_files
      BY <2>2, AtEntry DEF PushFailedFile, AllInv, LockInv
    <3> QED BY <1>1, <2>2, <3>1 DEF PushFailedFile, NoUpload, fileVars, socketVars, FileTypes
  <2>3. CASE LockFailedFiles(p) \/ Login(p) \/ ConnectSucceeds(p)
    BY <1>1, <2>3 DEF LockFailedFiles, Login, ConnectSucceeds, NoUpload, Throw, Proceed, fileVars,
                      failedVars, socketVars, FileTypes
  <2>4. ASSUME UNCHANGED <<left, buf, ckp, failed_files, entries>>,
               UNCHANGED owner \/ (\E h \in Handles : owner' = [owner EXCEPT ![h] = p])
               \/ owner' = Closed(m_socket[p])
        PROVE  FileTypes'
    <3>1. owner' \in [Handles -> Clients \cup {None}]
      BY <2>4 DEF Closed, FileTypes
    <3> QED BY <2>4, <3>1 DEF FileTypes
  <2>5. CASE OpenSocket(p)
    BY <2>4, <2>5 DEF OpenSocket, NoUpload, Throw, Proceed, fileVars, failedVars
  <2>6. CASE ConnectRefused(p)
    BY <2>4, <2>6 DEF ConnectRefused, NoUpload, Throw, fileVars, failedVars
  <2>7. CASE Logout(p)
    BY <2>4, <2>7 DEF Logout, Disconnect, NoUpload, Throw, Proceed, fileVars, failedVars, socketVars
  <2>8. CASE DisconnectAgain(p) \/ Unwind(p)
    BY <2>4, <2>8 DEF DisconnectAgain, Unwind, Disconnect, NoUpload, Proceed, fileVars, failedVars
  <2> QED BY <1>5, <2>1, <2>2, <2>3, <2>5, <2>6, <2>7, <2>8 DEF Thread
<1> QED BY <1>2, <1>3, <1>4, <1>5 DEF Next, MainStep

LEMMA NextSocketTable == ASSUME TypeInv, [Next]_vars PROVE SocketTable'
<1> USE DEF TypeInv, SocketTable
<1>1. CASE UNCHANGED vars
  BY <1>1 DEF vars, socketVars
<1>2. ASSUME NEW p \in Procs, UploadStep(p) PROVE SocketTable'
  BY <1>2 DEF UploadStep, RequestThrows, RequestDenied, EmptyFileAcked, UploadAllowed, ChunkAcked,
              ChunkGivenUp, CloseCheckpoint, RemoveCheckpoint, socketVars
<1>3. CASE Call
  BY <1>3 DEF Call, CallUpload, CallUploadDirectory, CallUploadParallel, Begin
<1>4. CASE FinishDirectory \/ Distribute \/ Distributed \/ StartThread \/ Join
  BY <1>4 DEF FinishDirectory, Distribute, Distributed, StartThread, Join, socketVars
<1>5. ASSUME NEW p \in Clients, Thread(p) PROVE SocketTable'
  <2>1. CASE UploadStep(p)
    BY <1>2, <2>1, ProcsFacts
  <2>2. CASE ConnectSucceeds(p) \/ ConnectRefused(p) \/ Login(p) \/ LockFailedFiles(p) \/ PushFailedFile(p)
    BY <2>2 DEF ConnectSucceeds, ConnectRefused, Login, LockFailedFiles, PushFailedFile, socketVars
  <2>3. CASE OpenSocket(p)
    BY <2>3 DEF OpenSocket
  <2>4. CASE Logout(p) \/ DisconnectAgain(p) \/ Unwind(p)
    BY <2>4 DEF Logout, DisconnectAgain, Unwind, Disconnect, socketVars
  <2> QED BY <1>5, <2>1, <2>2, <2>3, <2>4 DEF Thread
<1> QED BY <1>1, <1>2, <1>3, <1>4, <1>5, ProcsFacts DEF Next, MainStep

LEMMA TypeInvariance == Spec => []TypeInv
<1>1. Init => TypeInv
  BY InitControl, InitShare, InitAccount, InitSocket, InitTypes DEF TypeInv, AllInv, SocketTable, Init
<1>2. TypeInv /\ [Next]_vars => TypeInv'
  BY NextAccount, NextSocket, NextHeld, NextCounters, NextFiles, NextSocketTable DEF TypeInv, AllInv
<1> QED BY <1>1, <1>2, PTL DEF Spec

(* Every variable has its type; a process that uploads is at an entry of   *)
(* its share, and just the one that holds the lock is about to push.       *)
THEOREM TypeCorrect == Spec => []TypeOK
<1> USE ProcsFacts DEF TypeInv
<1>1. TypeInv => PlaceTypeOK
  <2> SUFFICES ASSUME TypeInv PROVE PlaceTypeOK
    OBVIOUS
  <2>1. \A p \in Procs : pc[p] \in {"chunk", "remove", "lock", "push"} => More(p)
    BY AtEntry DEF Places
  <2>2. pc[Main] \in {"idle", "next", "chunk", "remove", "distribute", "start", "join"}
        /\ call \in {"none", "single", "sequential", "parallel"}
    BY DEF AllInv, Control, Places
  <2> QED BY <2>1, <2>2 DEF PlaceTypeOK, LockHeld, ClientPlaces
<1>2. TypeInv => EntriesTypeOK
  <2> SUFFICES ASSUME TypeInv PROVE EntriesTypeOK
    OBVIOUS
  <2>1. entries \in Seq(Files) /\ DOMAIN entries = 1..Len(entries) /\ Len(entries) \in Nat
    BY DEF AllInv, ShareInv
  <2>2. ASSUME NEW p \in Clients, call = "parallel" PROVE Share(p) \subseteq DOMAIN entries
    BY <2>1, <2>2 DEF Counters, Share, First, Last
  <2>3. \A p \in Procs : pos[p] \in Nat /\ left[p] \in Nat
    BY DEF AllInv, LockInv, FileTypes
  <2> QED BY <2>1, <2>2, <2>3 DEF EntriesTypeOK, Counters
<1>3. TypeInv => SharedTypeOK
  <2> SUFFICES ASSUME TypeInv PROVE SharedTypeOK
    OBVIOUS
  <2> QED BY DEF SharedTypeOK, FileTypes, LockHeld, SocketTable
<1> QED BY <1>1, <1>2, <1>3, TypeInvariance, PTL DEF TypeOK

-----------------------------------------------------------------------------
(* Checkpoints.  A step of process p writes only the checkpoint of the     *)
(* stem it uploads; for an entry that shares its stem with no other one    *)
(* this is the entry p is at, which is not accounted for yet.              *)

Lone(k) == \A j \in DOMAIN entries : Stem[entries[j]] = Stem[entries[k]] => j = k

(* Once a chunk is acknowledged, its record waits in the stream. *)
Recorded(p) == pc[p] = "chunk" /\ left[p] < Chunks[File(p)] => buf[p]

TellInv ==
  /\ halfway \subseteq refused
  /\ \A p \in Procs : Recorded(p)
  /\ CheckpointsTell

(* Two processes that upload are at different entries. *)
LEMMA EntriesApart ==
  ASSUME AllInv, LockHeld, NEW p \in Procs, NEW q \in Procs, pc[p] \in {"chunk", "remove"},
         pc[q] \in {"chunk", "remove"}, Current(p) = Current(q)
  PROVE  p = q
<1> USE ProcsFacts DEF AllInv
<1>1. CASE p = Main \/ q = Main
  BY <1>1 DEF Control, Places
<1>2. CASE p \in Clients /\ q \in Clients
  <2>1. call = "parallel" /\ pc[Main] \in {"start", "join"}
    BY <1>2 DEF Control
  <2>2. More(p) /\ More(q)
    BY <1>2, AtEntry DEF Places
  <2> QED BY <1>2, <2>1, <2>2, ShareFacts
<1> QED BY <1>1, <1>2

(* Who is between the answer and the end of an upload stays there, unless  *)
(* it makes a step.                                                        *)
LEMMA RemovalIsOwn ==
  ASSUME AllInv, NEW p \in Procs, pc[p] = "remove", [Next]_vars, pc'[p] # "remove"
  PROVE  RemoveCheckpoint(p)
<1> USE ProcsFacts DEF AllInv
<1>1. call # "none" /\ (p \in Clients => call = "parallel" /\ pc[Main] \in {"start", "join"})
  BY DEF Control, Places
<1>2. ~Call
  BY <1>1 DEF Call, CallUpload, CallUploadDirectory, CallUploadParallel, Begin
<1>3. ASSUME NEW q \in Procs, UploadStep(q) PROVE RemoveCheckpoint(p)
  <2>1. q = p
    BY <1>3, UploadCases DEF Local
  <2> QED BY <1>3, <2>1 DEF UploadStep, RequestThrows, RequestDenied, EmptyFileAcked, UploadAllowed,
                            ChunkAcked, ChunkGivenUp, CloseCheckpoint, InUpload
<1>4. ASSUME NEW q \in Clients, Thread(q), ~UploadStep(q) PROVE FALSE
  <2>1. \A r \in Procs : r # q => pc'[r] = pc[r]
    BY <1>4, ThreadMoves DEF Moves, Goto, Control
  <2> QED BY <1>4, <2>1 DEF Thread, OpenSocket, ConnectSucceeds, ConnectRefused, Login,
                          LockFailedFiles, PushFailedFile, Logout, DisconnectAgain, Unwind
<1>5. ASSUME FinishDirectory \/ Distribute \/ Distributed PROVE FALSE
  BY <1>1, <1>5 DEF FinishDirectory, Distribute, Distributed
<1>6. ASSUME StartThread PROVE FALSE
  <2>1. p \in Clients /\ p # i + 1
    BY <1>1, <1>6, ClientsAssumption DEF StartThread, Control, Clients
  <2> QED BY <1>6, <2>1 DEF StartThread, Control
<1>7. ASSUME Join PROVE FALSE
  BY <1>7 DEF Join
<1> QED BY <1>2, <1>3, <1>4, <1>5, <1>6, <1>7 DEF Next, MainStep, vars

(* A file that was sent completely is counted as uploaded if no other one  *)
(* of its stem is in the directory: nobody else has its checkpoint open    *)
(* when it is removed (ftc 290-295, 926).                                  *)
THEOREM SentCounted == Spec => SentIsCounted
<1> USE ProcsFacts DEF TypeInv
<1>1. ASSUME TypeInv, [Next]_vars, NEW p \in Procs, pc[p] = "remove", pc'[p] # "remove",
             \A k \in DOMAIN entries : Stem[entries[k]] = Stem[File(p)] => k = Current(p)
      PROVE  uploaded' = uploaded \cup {Current(p)}
  <2>1. RemoveCheckpoint(p)
    BY <1>1, RemovalIsOwn
  <2>2. ASSUME NEW q \in Procs, HasOpen(q, Stem[File(p)]) PROVE FALSE
    <3>1. pc[q] = "chunk" /\ Current(q) \in DOMAIN entries
      BY <1>1, <2>2, AtEntry DEF HasOpen, Places
    <3>2. Current(q) = Current(p)
      BY <1>1, <2>2, <3>1 DEF HasOpen, File
    <3> QED BY <1>1, <3>1, <3>2, EntriesApart
  <2> QED BY <2>1, <2>2 DEF RemoveCheckpoint, ReturnTrue
<1>2. TypeInv /\ [Next]_vars =>
        \A p \in Procs :
          pc[p] = "remove" /\ pc'[p] # "remove"
          /\ (\A k \in DOMAIN entries : Stem[entries[k]] = Stem[File(p)] => k = Current(p))
          => uploaded' = uploaded \cup {Current(p)}
  BY <1>1
<1> QED BY <1>2, TypeInvariance, PTL DEF Spec, SentIsCounted

LEMMA UploadTell ==
  ASSUME TypeInv, TellInv, NEW p \in Procs, UploadStep(p)
  PROVE  TellInv'
<1> USE ProcsFacts DEF TypeInv
<1>1. /\ Local(p) /\ pc[p] \in Places /\ (pc[p] = "next" => More(p))
      /\ ReturnTrue(p) \/ (\E sent \in BOOLEAN : ReturnFalse(p, sent)) \/ Throw(p) \/ GoesOn(p)
  BY UploadCases DEF AllInv
<1>2. /\ Current(p) \in DOMAIN entries /\ Current(p) \notin uploaded \cup refused
      /\ File(p) \in Files /\ File(p) = entries[Current(p)]
  BY <1>1, AtEntry DEF File
<1>3. Stem[File(p)] \in Stems /\ DOMAIN ckp = Stems /\ Chunks[File(p)] \in Nat
      /\ left[p] \in Nat /\ DOMAIN left = Procs /\ DOMAIN buf = Procs
  BY <1>2, DirectoryAssumption DEF Stems, FileTypes
<1>4. ckp' = ckp \/ \E r : ckp' = [ckp EXCEPT ![Stem[File(p)]] = r]
  BY DEF UploadStep, RequestThrows, RequestDenied, EmptyFileAcked, UploadAllowed, ChunkAcked,
         ChunkGivenUp, CloseCheckpoint, RemoveCheckpoint, CloseState, Flushed, fileVars
<1>5. ASSUME NEW k \in DOMAIN entries, Lone(k), k # Current(p)
      PROVE  ckp'[Stem[entries[k]]] = ckp[Stem[entries[k]]]
  <2>1. Stem[File(p)] # Stem[entries[k]]
    BY <1>2, <1>5 DEF Lone
  <2>2. Stem[entries[k]] \in DOMAIN ckp
    BY <1>3, <1>5 DEF Stems, AllInv, ShareInv
  <2> QED BY <1>4, <2>1, <2>2
<1>6. /\ uploaded' = uploaded \/ (ReturnTrue(p) /\ uploaded' = uploaded \cup {Current(p)})
      /\ \/ UNCHANGED <<refused, halfway>>
         \/ \E sent \in BOOLEAN :
              /\ ReturnFalse(p, sent) /\ refused' = refused \cup {Current(p)}
              /\ halfway' = IF sent THEN halfway \cup {Current(p)} ELSE halfway
  BY <1>1 DEF ReturnTrue, ReturnFalse, Throw, GoesOn, historyVars
<1>7. ASSUME Current(p) \in uploaded', Chunks[File(p)] > 0 PROVE ckp'[Stem[File(p)]] = Absent
  <2>1. uploaded' # uploaded
    BY <1>2, <1>7
  <2>2. RemoveCheckpoint(p)
    <3>1. ~EmptyFileAcked(p)
      BY <1>3, <1>7 DEF EmptyFileAcked
    <3>2. ~RequestThrows(p) /\ ~RequestDenied(p)
      BY <2>1 DEF RequestThrows, RequestDenied, Throw, ReturnFalse
    <3>3. ~UploadAllowed(p)
      BY <2>1 DEF UploadAllowed, Throw, historyVars
    <3>4. ~ChunkAcked(p) /\ ~ChunkGivenUp(p) /\ ~CloseCheckpoint(p)
      BY <2>1 DEF ChunkAcked, ChunkGivenUp, CloseCheckpoint, ReturnFalse, historyVars
    <3> QED BY <3>1, <3>2, <3>3, <3>4 DEF UploadStep
  <2> QED BY <1>3, <2>1, <2>2 DEF RemoveCheckpoint, Throw
<1>8. ASSUME Current(p) \in halfway' PROVE ckp'[Stem[File(p)]] = File(p)
  <2>1. halfway' # halfway
    BY <1>2, <1>8 DEF TellInv
  <2>2. ChunkGivenUp(p) /\ left[p] < Chunks[File(p)]
    BY <2>1 DEF UploadStep, RequestThrows, RequestDenied, EmptyFileAcked, UploadAllowed, ChunkAcked,
       ChunkGivenUp, CloseCheckpoint, RemoveCheckpoint, Throw, ReturnTrue, ReturnFalse, historyVars
  <2>3. buf[p]
    BY <2>2 DEF TellInv, Recorded, ChunkGivenUp
  <2> QED BY <1>3, <2>2, <2>3 DEF ChunkGivenUp, CloseState, Flushed
<1>9. CheckpointsTell'
  <2>1. UNCHANGED entries
    BY <1>1 DEF Local
  <2>2. ASSUME NEW k \in DOMAIN entries, Lone(k)
        PROVE  /\ k \in uploaded' /\ Chunks[entries[k]] > 0 => ckp'[Stem[entries[k]]] = Absent
               /\ k \in halfway' => ckp'[Stem[entries[k]]] = entries[k]
    <3>1. CASE k = Current(p)
      BY <1>2, <1>7, <1>8, <3>1
    <3>2. CASE k # Current(p)
      <4>1. (k \in uploaded' => k \in uploaded) /\ (k \in halfway' => k \in halfway)
        BY <1>6, <3>2
      <4> QED BY <1>5, <2>2, <3>2, <4>1 DEF TellInv, CheckpointsTell, Lone
    <3> QED BY <3>1, <3>2
  <2> QED BY <2>1, <2>2 DEF CheckpointsTell, Lone
<1>10. \A q \in Procs : Recorded(q)'
  <2>1. ASSUME NEW q \in Procs, q # p PROVE Recorded(q)'
    <3>1. File(q)' = File(q) /\ pc'[q] = pc[q]
      BY <1>1, <2>1 DEF Local, File, Current, First
    <3>2. left'[q] = left[q] /\ buf'[q] = buf[q]
      BY <1>3, <2>1 DEF UploadStep, RequestThrows, RequestDenied, EmptyFileAcked, UploadAllowed,
         ChunkAcked, ChunkGivenUp, CloseCheckpoint, RemoveCheckpoint, CloseState, fileVars
    <3> QED BY <3>1, <3>2 DEF TellInv, Recorded
  <2>2. ASSUME pc'[p] = "chunk" PROVE left'[p] < Chunks[File(p)]' => buf'[p]
    <3>1. (UploadAllowed(p) /\ left' = [left EXCEPT ![p] = Chunks[File(p)]] /\ UNCHANGED pos) \/ ChunkAcked(p)
      <4> USE <1>1, <2>2 DEF AllInv, Control
      <4>1. pc'[p] \notin {"idle", "next", "lock", "unwind", "remove"}
        OBVIOUS
      <4>2. ~Throw(p) /\ ~ReturnTrue(p)
        BY <4>1 DEF Throw, ReturnTrue, EndCall, Goto
      <4>3. ASSUME NEW sent, ReturnFalse(p, sent) PROVE FALSE
        <5>1. call \in {"single", "sequential", "parallel"}
          BY ProcsFacts DEF Places
        <5> QED BY <4>1, <4>3, <5>1 DEF ReturnFalse, EndCall, Goto
      <4>4. ~CloseCheckpoint(p)
        BY <4>1 DEF CloseCheckpoint, Goto
      <4> QED BY <4>2, <4>3, <4>4 DEF UploadStep, RequestThrows, RequestDenied, EmptyFileAcked,
                                     UploadAllowed, ChunkGivenUp, RemoveCheckpoint
    <3>2. File(p)' = File(p)
      BY <1>1, <3>1 DEF Local, File, Current, First, ChunkAcked
    <3>3. CASE ChunkAcked(p)
      BY <1>3, <3>3 DEF ChunkAcked
    <3>4. CASE left' = [left EXCEPT ![p] = Chunks[File(p)]]
      BY <1>3, <3>2, <3>4
    <3> QED BY <3>1, <3>3, <3>4
  <2> QED BY <2>1, <2>2 DEF Recorded
<1>11. halfway' \subseteq refused'
  BY <1>6 DEF TellInv
<1> QED BY <1>9, <1>10, <1>11 DEF TellInv

LEMMA NextTell == ASSUME TypeInv, TellInv, [Next]_vars PROVE TellInv'
<1> USE ProcsFacts DEF TypeInv
(* Nothing that the checkpoints are compared with changes. *)
<1>1. ASSUME UNCHANGED <<entries, left, buf, ckp, uploaded, refused, halfway>>,
             \A q \in Procs : pc'[q] = "chunk" =>
               pc[q] = "chunk" /\ pos'[q] = pos[q] /\ First(q)' = First(q)
      PROVE  TellInv'
  <2>1. \A q \in Procs : pc'[q] = "chunk" => File(q)' = File(q)
    BY <1>1 DEF File, Current
  <2>2. \A q \in Procs : Recorded(q)'
    BY <1>1, <2>1 DEF TellInv, Recorded
  <2>3. CheckpointsTell'
    BY <1>1 DEF TellInv, CheckpointsTell
  <2> QED BY <1>1, <2>2, <2>3 DEF TellInv
<1>2. CASE UNCHANGED vars
  BY <1>1, <1>2 DEF vars, shareVars, fileVars, historyVars, First
<1>3. ASSUME NEW p \in Procs, UploadStep(p) PROVE TellInv'
  BY <1>3, UploadTell
<1>4. CASE Call
  <2>1. \A q \in Procs : pc'[q] # "chunk"
    BY <1>4 DEF Call, CallUpload, CallUploadDirectory, CallUploadParallel, Begin, Goto, AllInv, Control
  <2>2. halfway' = {} /\ uploaded' = {}
    BY <1>4 DEF Call, CallUpload, CallUploadDirectory, CallUploadParallel, Begin
  <2> QED BY <2>1, <2>2 DEF TellInv, Recorded, CheckpointsTell
<1>5. ASSUME NEW p \in Clients, Thread(p), ~UploadStep(p) PROVE TellInv'
  <2>1. UNCHANGED <<entries, clientFileEntries, left, buf, ckp, uploaded, refused, halfway>>
    BY <1>5 DEF Thread, OpenSocket, ConnectSucceeds, ConnectRefused, Login, LockFailedFiles,
       PushFailedFile, Logout, DisconnectAgain, Unwind, NoUpload, Throw, Proceed, shareVars, fileVars,
       historyVars
  <2>2. \A q \in Procs : q # p => pc'[q] = pc[q]
    BY <1>5, ThreadMoves DEF Moves, Goto, AllInv, Control
  <2>3. pc'[p] # "chunk" /\ \A q \in Procs : q # p => pos'[q] = pos[q]
    BY <1>5 DEF Thread, OpenSocket, ConnectSucceeds, ConnectRefused, Login, LockFailedFiles,
       PushFailedFile, Logout, DisconnectAgain, Unwind, Throw, Proceed, Goto, Advance, AllInv,
       Control, LockInv
  <2> QED BY <1>1, <2>1, <2>2, <2>3 DEF First
<1>6. CASE FinishDirectory \/ Distributed
  BY <1>1, <1>6 DEF FinishDirectory, Distributed, EndCall, Goto, First, shareVars, fileVars,
                    historyVars, AllInv, Control
<1>7. CASE Distribute
  <2>1. \A q \in Procs : pc[q] # "chunk"
    BY <1>7 DEF Distribute, AllInv, Control
  <2> QED BY <1>1, <1>7, <2>1 DEF Distribute, fileVars, historyVars
<1>8. CASE StartThread
  BY <1>1, <1>8 DEF StartThread, First, fileVars, historyVars, AllInv, Control
<1>9. CASE Join
  BY <1>1, <1>9 DEF Join, fileVars
<1> QED BY <1>2, <1>3, <1>4, <1>5, <1>6, <1>7, <1>8, <1>9 DEF Next, MainStep

(* The checkpoint of an entry that shares its stem with no other one is    *)
(* gone when the upload returned true, and names it when the upload failed *)
(* after a chunk (ftc 141, 254-258, 281, 291-295).                         *)
THEOREM CheckpointsTold == Spec => []CheckpointsTell
<1>1. Init => TellInv
  BY ProcsFacts DEF Init, TellInv, Recorded, CheckpointsTell
<1>2. TellInv => CheckpointsTell
  BY DEF TellInv
<1> QED BY <1>1, <1>2, TypeInvariance, NextTell, PTL DEF Spec

=============================================================================
