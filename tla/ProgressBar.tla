------------------------------ MODULE ProgressBar ------------------------------
(***************************************************************************)
(* ProgressBarManager (progressbar_manager.h): a table of the files'       *)
(* progress and a queue of the bars to draw, and the calls that the        *)
(* transfers make (file_transfer_client.cpp 50-58, 170, 250, 284, 378,     *)
(* 464, 578, 663, 722-750, 785, 797, 1057, 1134, 1202; cli.h 624; main     *)
(* 59).  A transfer adds its file, also when an earlier one of the same    *)
(* name is still shown, as in a directory or the share of a thread, and    *)
(* reports progress on it.  Cursor and characters are left out.            *)
(***************************************************************************)
EXTENDS Naturals, Sequences, SequencesExt

CONSTANTS Names,             \* file names
          Label,             \* "Calculating checksum", "Scan Directory"
          None,
          MAX_DISPLAY_BARS,  \* 15
          MaxProgress,       \* 100 per cent
          MaxFiles           \* bound: files of a directory

ASSUME NamesAssumption == None \notin Names \cup {Label} /\ Label \notin Names
ASSUME BarsAssumption ==
  MAX_DISPLAY_BARS \in Nat \ {0} /\ MaxProgress \in Nat /\ MaxFiles \in Nat

VARIABLES
  m_files_progress,   \* of the names in the table: [file_name, progress]
  m_file_queue,
  m_initialized,
  m_show_total_progress, m_total_files,
  m_total_progress,   \* in files
  current,            \* the file or label that is worked on
  reported            \* history: the progress last reported on it

totalVars == <<m_show_total_progress, m_total_files, m_total_progress>>
vars == <<m_files_progress, m_file_queue, m_initialized, totalVars, current, reported>>

Bar(name, progress) == [file_name |-> name, progress |-> progress]

Set(table, name, bar) ==
  [n \in DOMAIN table \cup {name} |-> IF n = name THEN bar ELSE table[n]]

Erase(table, name) == [n \in DOMAIN table \ {name} |-> table[n]]

(* Mutant of Redrawn: drawing leaves the table alone *)
DrawnOnly(table, queue) == table

(* redrawProgressBars: operator[] makes an entry, without name and         *)
(* progress, for a bar that has none.                                      *)
Redrawn(table, queue) ==
  [n \in DOMAIN table \cup ToSet(queue) |->
    IF n \in DOMAIN table THEN table[n] ELSE Bar(None, 0)]

(* Mutant of Evicted: the entry of the oldest bar is kept *)
EvictedFromQueue(table, queue) ==
  [table |-> table,
   queue |-> IF Len(queue) > MAX_DISPLAY_BARS THEN Tail(queue) ELSE queue]

(* Mutant of Evicted: the newest bar goes *)
EvictedNewest(table, queue) ==
  IF Len(queue) > MAX_DISPLAY_BARS
  THEN [table |-> Erase(table, Last(queue)), queue |-> Front(queue)]
  ELSE [table |-> table, queue |-> queue]

(* The oldest bar goes if there are too many. *)
Evicted(table, queue) ==
  IF Len(queue) > MAX_DISPLAY_BARS
  THEN [table |-> Erase(table, Head(queue)), queue |-> Tail(queue)]
  ELSE [table |-> table, queue |-> queue]

AddFile(name) ==
  LET kept == Evicted(Set(m_files_progress, name, Bar(name, 0)), Append(m_file_queue, name))
  IN /\ m_file_queue' = kept.queue
     /\ m_files_progress' = Redrawn(kept.table, kept.queue)
     /\ m_initialized' = TRUE
     /\ UNCHANGED totalVars

(* The bars are redrawn if the last time was long enough ago. *)
UpdateProgress(name, progress) ==
  LET known == name \in DOMAIN m_files_progress
      bar == Bar(IF known THEN m_files_progress[name].file_name ELSE name, progress)
      table == Set(m_files_progress, name, bar)
      queue == IF known THEN m_file_queue ELSE Append(m_file_queue, name)
  IN /\ m_file_queue' = queue
     /\ m_files_progress' \in {table, IF m_initialized THEN Redrawn(table, queue) ELSE table}
     /\ UNCHANGED <<m_initialized, totalVars>>

ShowTotalProgress(total) ==
  /\ m_show_total_progress' = TRUE /\ m_total_files' = total
  /\ m_initialized' = TRUE
  /\ m_files_progress' = Redrawn(m_files_progress, m_file_queue)
  /\ UNCHANGED <<m_file_queue, m_total_progress>>

UpdateTotalProgress(finished) ==
  /\ m_total_progress' = IF m_show_total_progress THEN finished ELSE m_total_progress
  /\ UNCHANGED <<m_files_progress, m_file_queue, m_initialized, m_show_total_progress,
                 m_total_files>>

(* Mutant of Cleanup: the total progress is kept *)
CleanupBars ==
  /\ m_files_progress' = << >> /\ m_file_queue' = << >> /\ m_initialized' = FALSE
  /\ m_show_total_progress' = FALSE /\ m_total_files' = 0 /\ UNCHANGED m_total_progress

Cleanup ==
  /\ m_files_progress' = << >> /\ m_file_queue' = << >> /\ m_initialized' = FALSE
  /\ m_show_total_progress' = FALSE /\ m_total_files' = 0 /\ m_total_progress' = 0

-----------------------------------------------------------------------------
(* The calls of a client *)

Init ==
  /\ m_files_progress = << >> /\ m_file_queue = << >> /\ m_initialized = FALSE
  /\ m_show_total_progress = FALSE /\ m_total_files = 0 /\ m_total_progress = 0
  /\ current = None /\ reported = 0

Start(name) ==
  /\ current = None
  /\ AddFile(name)
  /\ current' = name /\ reported' = 0

Report(progress) ==
  /\ current # None
  /\ UpdateProgress(current, progress)
  /\ reported' = progress
  /\ UNCHANGED current

(* A transfer ends, well or not. *)
Finish ==
  /\ current \in Names /\ ~m_show_total_progress
  /\ current' = None
  /\ UNCHANGED <<m_files_progress, m_file_queue, m_initialized, totalVars, reported>>

(* UploadDirectory counts the file, also one that was denied before it had *)
(* a bar; in the end it counts all.  There are no more files than total.   *)
FinishOfDirectory ==
  /\ current # Label /\ m_show_total_progress
  /\ \E finished \in {m_total_progress + 1, m_total_files} \cap 0..m_total_files :
       UpdateTotalProgress(finished)
  /\ current' = None /\ UNCHANGED reported

(* After the checksum or the scan, after the transfers of a page, and at   *)
(* the logout                                                              *)
Clean ==
  /\ current \notin Names
  /\ Cleanup
  /\ current' = None /\ UNCHANGED reported

(* UploadDirectory, after the cleanup of its scan *)
StartDirectory(total) ==
  /\ current = None /\ ~m_initialized
  /\ ShowTotalProgress(total)
  /\ UNCHANGED <<current, reported>>

Next ==
  \/ \E name \in Names \cup {Label} : Start(name)
  \/ \E progress \in 0..MaxProgress : Report(progress)
  \/ Finish \/ FinishOfDirectory \/ Clean
  \/ \E total \in 1..MaxFiles : StartDirectory(total)

Spec == Init /\ [][Next]_vars

-----------------------------------------------------------------------------
(* Properties *)

(* Every variable has its type. *)
TypeOK ==
  /\ DOMAIN m_files_progress \subseteq Names \cup {Label}
  /\ \A n \in DOMAIN m_files_progress :
       m_files_progress[n] \in [file_name : {n, None}, progress : 0..MaxProgress]
  /\ ToSet(m_file_queue) \subseteq Names \cup {Label}
  /\ m_initialized \in BOOLEAN /\ m_show_total_progress \in BOOLEAN
  /\ m_total_files \in 0..MaxFiles /\ m_total_progress \in 0..m_total_files
  /\ current \in Names \cup {Label, None} /\ reported \in 0..MaxProgress

(* There are never more bars than MAX_DISPLAY_BARS, though UpdateProgress  *)
(* adds a bar without looking: the file it is about always has one, also   *)
(* when its name stood in the queue twice and the older one, evicted, has  *)
(* taken the entry of both (pb 57-63, 82-87, 174-178).                     *)
BarsBounded == Len(m_file_queue) <= MAX_DISPLAY_BARS

(* Between two calls the table and the queue have the same names (pb 50-94).*)
TableFitsQueue == DOMAIN m_files_progress = ToSet(m_file_queue)

(* The file that is worked on has a bar, with the progress last reported.  *)
CurrentIsShown ==
  current # None =>
    /\ current \in ToSet(m_file_queue)
    /\ m_files_progress[current].progress = reported

=============================================================================
