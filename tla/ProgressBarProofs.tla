--------------------------- MODULE ProgressBarProofs ---------------------------
(***************************************************************************)
(* The bars stay bounded: proofs about ProgressBar.                        *)
(***************************************************************************)
EXTENDS ProgressBar, TLAPS

NamesShown == Names \cup {Label}

(* The table and the queue fit, and the file worked on is in both. *)
BarsInv ==
  /\ m_file_queue \in Seq(NamesShown) /\ reported \in Nat
  /\ BarsBounded /\ TableFitsQueue /\ CurrentIsShown
  /\ current \in NamesShown \cup {None}

-----------------------------------------------------------------------------
(* Queues *)

LEMMA AppendSet ==
  ASSUME NEW S, NEW q \in Seq(S), NEW n \in S
  PROVE  /\ Append(q, n) \in Seq(S) /\ Len(Append(q, n)) = Len(q) + 1
         /\ ToSet(Append(q, n)) = ToSet(q) \cup {n}
<1>1. ToSet(Append(q, n)) \subseteq ToSet(q) \cup {n}
  BY DEF ToSet
<1>2. n \in ToSet(Append(q, n))
  <2>1. Append(q, n)[Len(q) + 1] = n /\ Len(q) + 1 \in DOMAIN Append(q, n)
    OBVIOUS
  <2> QED BY <2>1 DEF ToSet
<1>3. ASSUME NEW m \in ToSet(q) PROVE m \in ToSet(Append(q, n))
  <2>1. PICK k \in DOMAIN q : q[k] = m
    BY DEF ToSet
  <2>2. k \in DOMAIN Append(q, n) /\ Append(q, n)[k] = m
    BY <2>1
  <2> QED BY <2>2 DEF ToSet
<1> QED BY <1>1, <1>2, <1>3

LEMMA TailSet ==
  ASSUME NEW S, NEW q \in Seq(S), q # << >>
  PROVE  /\ Tail(q) \in Seq(S) /\ Len(Tail(q)) = Len(q) - 1
         /\ ToSet(q) = ToSet(Tail(q)) \cup {Head(q)}
<1>1. ToSet(Tail(q)) \subseteq ToSet(q)
  <2> SUFFICES ASSUME NEW k \in DOMAIN Tail(q) PROVE Tail(q)[k] \in ToSet(q)
    BY DEF ToSet
  <2>1. k + 1 \in DOMAIN q /\ Tail(q)[k] = q[k + 1]
    OBVIOUS
  <2> QED BY <2>1 DEF ToSet
<1>2. Head(q) \in ToSet(q)
  <2>1. 1 \in DOMAIN q /\ Head(q) = q[1]
    OBVIOUS
  <2> QED BY <2>1 DEF ToSet
<1>3. ASSUME NEW m \in ToSet(q), m # Head(q) PROVE m \in ToSet(Tail(q))
  <2>1. PICK k \in DOMAIN q : q[k] = m
    BY DEF ToSet
  <2>2. k \in 2..Len(q)
    BY <1>3, <2>1
  <2>3. k - 1 \in DOMAIN Tail(q) /\ Tail(q)[k - 1] = m
    BY <2>1, <2>2
  <2> QED BY <2>3 DEF ToSet
<1> QED BY <1>1, <1>2, <1>3

(* The newest bar is never the one that is evicted. *)
LEMMA NewestStays ==
  ASSUME NEW S, NEW q \in Seq(S), NEW n \in S, q # << >>
  PROVE  n \in ToSet(Tail(Append(q, n)))
<1>1. /\ Len(q) \in DOMAIN Tail(Append(q, n))
      /\ Tail(Append(q, n))[Len(q)] = n
  <2>1. Len(q) \in 1..Len(q) /\ Append(q, n) \in Seq(S) /\ Len(Append(q, n)) = Len(q) + 1
    OBVIOUS
  <2>2. Append(q, n)[Len(q) + 1] = n
    OBVIOUS
  <2> QED BY <2>1, <2>2
<1> QED BY <1>1 DEF ToSet

-----------------------------------------------------------------------------
(* The operations *)

(* What evicting and redrawing make of the table, once a bar is added *)
LEMMA AddedFits ==
  ASSUME BarsInv, NEW n \in NamesShown, AddFile(n)
  PROVE  /\ m_file_queue' \in Seq(NamesShown) /\ BarsBounded' /\ TableFitsQueue'
         /\ n \in ToSet(m_file_queue') /\ m_files_progress'[n].progress = 0
<1> DEFINE q == Append(m_file_queue, n)
           t == Set(m_files_progress, n, Bar(n, 0))
<1>1. /\ q \in Seq(NamesShown) /\ Len(q) = Len(m_file_queue) + 1
      /\ ToSet(q) = ToSet(m_file_queue) \cup {n}
  BY AppendSet DEF BarsInv
<1>2. DOMAIN t = ToSet(q) /\ t[n] = Bar(n, 0)
  BY <1>1 DEF Set, BarsInv, TableFitsQueue
<1>3. /\ m_file_queue' = Evicted(t, q).queue
      /\ m_files_progress' = Redrawn(Evicted(t, q).table, Evicted(t, q).queue)
  BY DEF AddFile
<1>4. Bar(n, 0).progress = 0 /\ Bar(None, 0).progress = 0
  BY DEF Bar
<1>5. CASE Len(q) > MAX_DISPLAY_BARS
  <2>1. Evicted(t, q) = [table |-> Erase(t, Head(q)), queue |-> Tail(q)]
    BY <1>5 DEF Evicted
  <2>2. Evicted(t, q).table = Erase(t, Head(q)) /\ Evicted(t, q).queue = Tail(q)
    BY <2>1
  <2>3. m_file_queue' = Tail(q) /\ m_files_progress' = Redrawn(Erase(t, Head(q)), Tail(q))
    BY <1>3, <2>2
  <2>4. m_file_queue # << >> /\ q # << >>
    BY <1>1, <1>5, BarsAssumption DEF BarsInv
  <2>5. Tail(q) \in Seq(NamesShown) /\ Len(Tail(q)) = Len(q) - 1 /\ ToSet(q) = ToSet(Tail(q)) \cup {Head(q)}
    BY <1>1, <2>4, TailSet
  <2>6. n \in ToSet(Tail(q))
    BY <2>4, NewestStays DEF BarsInv
  <2>7. DOMAIN Erase(t, Head(q)) = ToSet(q) \ {Head(q)}
        /\ \A m \in ToSet(q) \ {Head(q)} : Erase(t, Head(q))[m] = t[m]
    BY <1>2 DEF Erase
  <2>8. DOMAIN m_files_progress' = ToSet(Tail(q))
    BY <2>3, <2>5, <2>7 DEF Redrawn
  <2>9. m_files_progress'[n] = Bar(n, 0) \/ m_files_progress'[n] = Bar(None, 0)
    BY <1>2, <2>3, <2>6, <2>7 DEF Redrawn
  <2> QED BY <1>1, <1>4, <2>3, <2>5, <2>6, <2>8, <2>9, BarsAssumption
             DEF BarsInv, BarsBounded, TableFitsQueue
<1>6. CASE ~(Len(q) > MAX_DISPLAY_BARS)
  <2>1. Evicted(t, q) = [table |-> t, queue |-> q]
    BY <1>6 DEF Evicted
  <2>2. Evicted(t, q).table = t /\ Evicted(t, q).queue = q
    BY <2>1
  <2>3. m_file_queue' = q /\ m_files_progress' = Redrawn(t, q)
    BY <1>3, <2>2
  <2>4. DOMAIN m_files_progress' = ToSet(q) /\ m_files_progress'[n] = Bar(n, 0)
    BY <1>1, <1>2, <2>3 DEF Redrawn
  <2>5. Len(q) <= MAX_DISPLAY_BARS
    <3>1. Len(q) \in Nat /\ MAX_DISPLAY_BARS \in Nat
      BY <1>1, BarsAssumption
    <3> QED BY <1>6, <3>1
  <2> QED BY <1>1, <1>4, <2>3, <2>4, <2>5 DEF BarsBounded, TableFitsQueue
<1> QED BY <1>5, <1>6

(* A bar that is there is not added again, and gets its progress. *)
LEMMA UpdatedFits ==
  ASSUME BarsInv, NEW n \in DOMAIN m_files_progress, NEW p, UpdateProgress(n, p)
  PROVE  /\ m_file_queue' = m_file_queue /\ TableFitsQueue'
         /\ m_files_progress'[n].progress = p
<1> DEFINE b == Bar(m_files_progress[n].file_name, p)
           t == Set(m_files_progress, n, b)
<1>1. m_file_queue' = m_file_queue
      /\ (m_files_progress' = t \/ m_files_progress' = Redrawn(t, m_file_queue))
  BY DEF UpdateProgress
<1>2. DOMAIN t = ToSet(m_file_queue) /\ t[n] = b
  BY DEF Set, BarsInv, TableFitsQueue
<1>3. DOMAIN m_files_progress' = ToSet(m_file_queue) /\ m_files_progress'[n] = b
  BY <1>1, <1>2 DEF Redrawn, BarsInv, TableFitsQueue
<1> QED BY <1>1, <1>3 DEF TableFitsQueue, Bar

-----------------------------------------------------------------------------
LEMMA InitBars == Init => BarsInv
BY BarsAssumption DEF Init, BarsInv, BarsBounded, TableFitsQueue, CurrentIsShown, ToSet

LEMMA NextBars == ASSUME BarsInv, [Next]_vars PROVE BarsInv'
<1>1. ASSUME NEW n \in NamesShown, Start(n) PROVE BarsInv'
  BY <1>1, AddedFits DEF Start, BarsInv, CurrentIsShown
<1>2. ASSUME NEW p \in 0..MaxProgress, Report(p) PROVE BarsInv'
  <2>1. current \in DOMAIN m_files_progress
    BY <1>2 DEF Report, BarsInv, CurrentIsShown, TableFitsQueue
  <2>2. UpdateProgress(current, p)
    BY <1>2 DEF Report
  <2>3. m_file_queue' = m_file_queue /\ TableFitsQueue' /\ m_files_progress'[current].progress = p
    BY <2>1, <2>2, UpdatedFits
  <2> QED BY <1>2, <2>3, BarsAssumption DEF Report, BarsInv, BarsBounded, CurrentIsShown
<1>3. CASE Finish \/ FinishOfDirectory
  BY <1>3 DEF Finish, FinishOfDirectory, UpdateTotalProgress, BarsInv, BarsBounded,
              TableFitsQueue, CurrentIsShown
<1>4. CASE Clean
  BY <1>4, BarsAssumption
     DEF Clean, Cleanup, BarsInv, BarsBounded, TableFitsQueue, CurrentIsShown, ToSet
<1>5. ASSUME NEW total \in 1..MaxFiles, StartDirectory(total) PROVE BarsInv'
  BY <1>5 DEF StartDirectory, ShowTotalProgress, Redrawn, BarsInv, BarsBounded,
              TableFitsQueue, CurrentIsShown
<1>6. CASE UNCHANGED vars
  BY <1>6 DEF vars, BarsInv, BarsBounded, TableFitsQueue, CurrentIsShown
<1> QED BY <1>1, <1>2, <1>3, <1>4, <1>5, <1>6 DEF Next, NamesShown

LEMMA BarsInvariance == Spec => []BarsInv
BY InitBars, NextBars, PTL DEF Spec

(* For any names and any length of the display there are never more bars   *)
(* than fit, though UpdateProgress adds one without looking (pb 57-63,     *)
(* 82-87).                                                                 *)
THEOREM BarsStayBounded == Spec => []BarsBounded
<1>1. BarsInv => BarsBounded BY DEF BarsInv
<1> QED BY <1>1, BarsInvariance, PTL

(* The table and the queue have the same names between two calls, also     *)
(* when a name stands in the queue twice (pb 50-94, 174-178).              *)
THEOREM TableAndQueueFit == Spec => []TableFitsQueue
<1>1. BarsInv => TableFitsQueue BY DEF BarsInv
<1> QED BY <1>1, BarsInvariance, PTL

(* The file that is worked on has a bar, with the progress last reported.  *)
THEOREM CurrentStaysShown == Spec => []CurrentIsShown
<1>1. BarsInv => CurrentIsShown BY DEF BarsInv
<1> QED BY <1>1, BarsInvariance, PTL

-----------------------------------------------------------------------------
(* Types.  A new total is given while nothing is shown, and then none of   *)
(* its files is finished; that the name of an entry is its own follows     *)
(* from the entries being made under it.                                   *)

Entry(n) == [file_name : {n, None}, progress : 0..MaxProgress]

Entries(table) == \A n \in DOMAIN table : table[n] \in Entry(n)

TotalInv ==
  /\ m_show_total_progress => m_initialized
  /\ ~m_initialized => m_total_progress = 0

TypeInv == BarsInv /\ TypeOK /\ TotalInv

LEMMA NewEntry ==
  ASSUME NEW n, NEW p \in 0..MaxProgress
  PROVE  Bar(n, p) \in Entry(n) /\ Bar(None, p) \in Entry(n)
BY DEF Bar, Entry

LEMMA RedrawnEntries ==
  ASSUME NEW table, NEW queue, Entries(table)
  PROVE  Entries(Redrawn(table, queue))
<1>1. 0 \in 0..MaxProgress
  BY BarsAssumption
<1> QED BY <1>1, NewEntry DEF Redrawn, Entries

LEMMA SetEntries ==
  ASSUME NEW table, NEW n, NEW bar \in Entry(n), Entries(table)
  PROVE  Entries(Set(table, n, bar))
BY DEF Set, Entries

LEMMA EvictedEntries ==
  ASSUME NEW table, NEW queue, Entries(table)
  PROVE  Entries(Evicted(table, queue).table)
<1>1. Entries(Erase(table, Head(queue)))
  BY DEF Erase, Entries
<1>2. CASE Len(queue) > MAX_DISPLAY_BARS
  <2>1. Evicted(table, queue).table = Erase(table, Head(queue))
    BY <1>2 DEF Evicted
  <2> QED BY <1>1, <2>1
<1>3. CASE ~(Len(queue) > MAX_DISPLAY_BARS)
  <2>1. Evicted(table, queue).table = table
    BY <1>3 DEF Evicted
  <2> QED BY <2>1
<1> QED BY <1>2, <1>3

LEMMA AddedEntries ==
  ASSUME Entries(m_files_progress), NEW n, AddFile(n)
  PROVE  Entries(m_files_progress')
<1> DEFINE t == Set(m_files_progress, n, Bar(n, 0))
           kept == Evicted(t, Append(m_file_queue, n))
<1>1. Bar(n, 0) \in Entry(n)
  BY NewEntry, BarsAssumption
<1>2. Entries(t)
  BY <1>1, SetEntries
<1>3. Entries(kept.table)
  BY <1>2, EvictedEntries
<1>4. m_files_progress' = Redrawn(kept.table, kept.queue)
  BY DEF AddFile
<1> HIDE DEF kept
<1> QED BY <1>3, <1>4, RedrawnEntries

LEMMA UpdatedEntries ==
  ASSUME Entries(m_files_progress), NEW n, NEW p \in 0..MaxProgress, UpdateProgress(n, p)
  PROVE  Entries(m_files_progress')
<1> DEFINE known == n \in DOMAIN m_files_progress
           bar == Bar(IF known THEN m_files_progress[n].file_name ELSE n, p)
           table == Set(m_files_progress, n, bar)
           queue == IF known THEN m_file_queue ELSE Append(m_file_queue, n)
<1>1. known => m_files_progress[n].file_name \in {n, None}
  BY DEF Entries, Entry
<1>2. bar \in Entry(n)
  BY <1>1, NewEntry
<1>3. Entries(table)
  BY <1>2, SetEntries
<1>4. m_files_progress' = table \/ m_files_progress' = Redrawn(table, queue)
  BY DEF UpdateProgress
<1> HIDE DEF table, queue
<1> QED BY <1>3, <1>4, RedrawnEntries

LEMMA InitTypes == Init => TypeInv
<1> SUFFICES ASSUME Init PROVE TypeInv
  OBVIOUS
<1>1. BarsInv
  BY InitBars
<1>2. Entries(m_files_progress) /\ TotalInv
  BY DEF Init, Entries, TotalInv
<1>3. DOMAIN m_files_progress = {} /\ ToSet(m_file_queue) = {}
  BY DEF Init, ToSet
<1>4. TypeOK
  <2>1. /\ m_total_files \in 0..MaxFiles /\ m_total_progress \in 0..m_total_files
        /\ reported \in 0..MaxProgress
    BY BarsAssumption DEF Init
  <2>2. \A n \in DOMAIN m_files_progress :
          m_files_progress[n] \in [file_name : {n, None}, progress : 0..MaxProgress]
    BY <1>3
  <2>3. m_initialized \in BOOLEAN /\ m_show_total_progress \in BOOLEAN
        /\ current \in Names \cup {Label, None}
    BY DEF Init
  <2> QED BY <1>3, <2>1, <2>2, <2>3 DEF TypeOK
<1> QED BY <1>1, <1>2, <1>4 DEF TypeInv

LEMMA NextTypes == ASSUME TypeInv, [Next]_vars PROVE TypeInv'
<1> USE DEF totalVars
<1>1. BarsInv' /\ Entries(m_files_progress) /\ TotalInv
      /\ m_initialized \in BOOLEAN /\ m_show_total_progress \in BOOLEAN
      /\ m_total_files \in 0..MaxFiles /\ m_total_progress \in 0..m_total_files
      /\ reported \in 0..MaxProgress
  BY NextBars DEF TypeInv, TypeOK, Entries, Entry
<1>2. ASSUME /\ Entries(m_files_progress') /\ TotalInv'
             /\ m_initialized' \in BOOLEAN /\ m_show_total_progress' \in BOOLEAN
             /\ m_total_files' \in 0..MaxFiles /\ m_total_progress' \in 0..m_total_files'
             /\ reported' \in 0..MaxProgress
      PROVE  TypeInv'
  <2>1. ToSet(m_file_queue') \subseteq NamesShown /\ DOMAIN m_files_progress' = ToSet(m_file_queue')
        /\ current' \in NamesShown \cup {None}
    BY <1>1 DEF BarsInv, TableFitsQueue, ToSet
  <2>2. TypeOK'
    BY <1>2, <2>1 DEF Entries, Entry, TypeOK, NamesShown
  <2> QED BY <1>1, <1>2, <2>2 DEF TypeInv
<1>3. ASSUME NEW n \in NamesShown, Start(n) PROVE TypeInv'
  <2>1. AddFile(n)
    BY <1>3 DEF Start
  <2>2. Entries(m_files_progress')
    BY <1>1, <2>1, AddedEntries
  <2> QED BY <1>1, <1>2, <1>3, <2>2, BarsAssumption DEF Start, AddFile, TotalInv
<1>4. ASSUME NEW p \in 0..MaxProgress, Report(p) PROVE TypeInv'
  <2>1. UpdateProgress(current, p)
    BY <1>4 DEF Report
  <2>2. Entries(m_files_progress')
    BY <1>1, <2>1, UpdatedEntries
  <2> QED BY <1>1, <1>2, <1>4, <2>2 DEF Report, UpdateProgress, TotalInv
<1>5. CASE Finish \/ UNCHANGED vars
  BY <1>1, <1>2, <1>5 DEF Finish, vars, TotalInv
<1>6. CASE FinishOfDirectory
  BY <1>1, <1>2, <1>6 DEF FinishOfDirectory, UpdateTotalProgress, TotalInv
<1>7. CASE Clean
  <2>1. Entries(m_files_progress')
    BY <1>7 DEF Clean, Cleanup, Entries
  <2>2. m_total_files' = 0 /\ m_total_progress' = 0 /\ ~m_show_total_progress' /\ TotalInv'
    BY <1>7 DEF Clean, Cleanup, TotalInv
  <2>3. 0 \in 0..MaxFiles /\ 0 \in 0..0
    BY BarsAssumption
  <2>4. m_total_files' \in 0..MaxFiles /\ m_total_progress' \in 0..m_total_files'
    BY <2>2, <2>3
  <2>5. m_initialized' = FALSE /\ m_show_total_progress' = FALSE /\ reported' = reported
    BY <1>7 DEF Clean, Cleanup
  <2> QED BY <1>1, <1>2, <2>1, <2>2, <2>4, <2>5
<1>8. ASSUME NEW total \in 1..MaxFiles, StartDirectory(total) PROVE TypeInv'
  <2>1. m_files_progress' = Redrawn(m_files_progress, m_file_queue) /\ m_total_progress' = 0
    BY <1>1, <1>8 DEF StartDirectory, ShowTotalProgress, TotalInv
  <2>2. Entries(m_files_progress')
    BY <1>1, <2>1, RedrawnEntries
  <2> QED BY <1>1, <1>2, <1>8, <2>1, <2>2, BarsAssumption
             DEF StartDirectory, ShowTotalProgress, TotalInv
<1> QED BY <1>3, <1>4, <1>5, <1>6, <1>7, <1>8 DEF Next, NamesShown

(* For any names, bound on the progress and number of files, every entry   *)
(* of the table has its own name or none, and no more files are finished   *)
(* than there are: the total is only given anew when nothing is finished   *)
(* (pb 96-121, ftc 785, 797, 802).                                         *)
THEOREM TypeCorrect == Spec => []TypeOK
<1>1. TypeInv => TypeOK BY DEF TypeInv
<1> QED BY <1>1, InitTypes, NextTypes, PTL DEF Spec

=============================================================================
