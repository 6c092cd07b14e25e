--------------------------------- MODULE Cli ---------------------------------
(***************************************************************************)
(* main, login_page and transfer_page (File_Transfer_Client_Project_Cpp    *)
(* .cpp), the menus and dialogs of CLI (cli.h), and the session they keep: *)
(* SessionManager (session_manager.cpp), CloseSession (ftc 1193-1207),     *)
(* Connect and Disconnect (network_connection.cpp).                        *)
(*                                                                         *)
(* A page is where the program waits: for the user, the server or the      *)
(* transfer it runs.  What a transfer does is in Upload, Download and      *)
(* DirectoryUpload; here it ends, well or badly.  The menus call           *)
(* themselves again after an invalid choice, and the pages never return.   *)
(***************************************************************************)
EXTENDS Naturals

CONSTANTS Users,       \* user names that can be typed in
          LongNames,   \* those of MAX_USERNAME_LENGTH characters and more
          NoUser       \* no session: the empty name

ASSUME UsersAssumption == NoUser \notin Users

VARIABLES
  page,       \* where the program waits; "ended" when it has ended
  op,         \* the page that called the transfer that runs, or ran last
  state,      \* CLI::state
  cin,        \* "good", or "bad" once a read has failed: nothing clears it
  declined,   \* history: the user declined the operation of this page
  connected,  \* m_is_connected
  user,       \* m_username, with the session id of its authentication
  server,     \* external: the user the server has authenticated
  result      \* "none", or how it ended: "exit", "error", "invalid" (an "Invalid
              \* state" exception), "crash" or "overflow" (of the stack)

session == <<connected, user, server>>
vars == <<page, op, state, cin, declined, session, result>>

(* The state that each page checks for, or "Invalid state" is thrown *)
Required ==
  [main   |-> "MAIN_MENU",      auth        |-> "AUTHENTICATION",
   upload |-> "UPLOAD",         folder      |-> "UPLOAD_DIR",
   folder_type |-> "UPLOAD_DIR", download   |-> "DOWNLOAD",
   resume |-> "RESUME",         resume_upload |-> "RESUME",
   resume_download |-> "RESUME"]

TransferPages == {"upload", "folder", "download", "resume"}
Operations == {"upload", "folder", "download", "resume_upload", "resume_download"}

-----------------------------------------------------------------------------
(* How a step goes on *)

(* Mutant of End: the program goes on after exitApplication *)
EndNotReached(r) == UNCHANGED page /\ result' = r

End(r) == page' = "ended" /\ result' = r

(* An exception that main catches; or the program dies. *)
Ends(r) == End(r) /\ UNCHANGED <<op, state, cin, declined, session>>

Show(p) ==
  IF p \in DOMAIN Required /\ state' # Required[p] THEN End("invalid")
  ELSE page' = p /\ UNCHANGED result

Stay == UNCHANGED <<op, declined, session>>

(* The page returns to transfer_page, which shows its menu. *)
Back(s) == state' = s /\ Show("transfer") /\ Stay

-----------------------------------------------------------------------------
(* Input.  A choice is a number, valid or not; anything else sets failbit. *)

(* A menu that reads from a bad stream gets 0 and calls itself: as nothing *)
(* clears the stream, it never stops before the stack does.                *)
MenuPages == {"main", "transfer", "nested_menu", "resume"}

MenuOverflows ==
  /\ page \in MenuPages /\ cin = "bad"
  /\ page = "transfer" => state = "SESSION"
  /\ Ends("overflow")

InputFails ==
  /\ page \in MenuPages \cup {"folder_type", "resume_download"}
  /\ page = "transfer" => state = "SESSION"
  /\ cin = "good" /\ cin' = "bad"
  /\ UNCHANGED <<page, op, state, declined, session, result>>

(* The choice of a menu *)
Chooses(p) == page = p /\ cin = "good" /\ UNCHANGED cin

(* confirmAction: with a bad stream its answer is not initialised. *)
Confirm(answer) == answer \in BOOLEAN /\ cin' \in {cin, "bad"}

-----------------------------------------------------------------------------
(* login_page *)

Disconnected == connected' = FALSE /\ user' = NoUser /\ server' = NoUser

(* Disconnect, ResetSession, Connect, PerformHandshake, showWelcomeMessage *)
Connects ==
  /\ page = "login"
  /\ connected' = TRUE /\ user' = NoUser /\ server' = NoUser
  /\ state' = "MAIN_MENU"
  /\ Show("main")
  /\ UNCHANGED <<op, cin, declined>>

(* Connect or PerformHandshake throws; after Connect m_is_connected is set. *)
ConnectFails ==
  /\ page = "login"
  /\ connected' \in BOOLEAN /\ user' = NoUser /\ server' = NoUser
  /\ End("error")
  /\ UNCHANGED <<op, state, cin, declined>>

ChooseLogin ==
  /\ Chooses("main")
  /\ state' = "AUTHENTICATION" /\ Show("auth")
  /\ Stay

(* CloseSession, which fails if there is no connection *)
CloseSession == IF connected THEN Disconnected ELSE UNCHANGED session

ChooseExit ==
  /\ Chooses("main")
  /\ state' = "EXIT"
  /\ CloseSession
  /\ End(IF connected THEN "exit" ELSE "error")
  /\ UNCHANGED <<op, declined>>

(* PerformAuthentication: strncpy_s aborts if a name does not fit. *)
NameTooLong ==
  /\ page = "auth" /\ LongNames # {}
  /\ Ends("crash")

Authenticated(u) ==
  /\ page = "auth" /\ connected /\ u \in Users \ LongNames
  /\ user' = u /\ server' = u
  /\ state' = "SESSION" /\ Show("transfer")
  /\ UNCHANGED <<op, cin, declined, connected>>

(* showAuthentication calls itself. *)
Refused ==
  /\ page = "auth" /\ connected
  /\ UNCHANGED state /\ Show("auth")
  /\ UNCHANGED <<op, cin, declined, session>>

(* No answer comes; the server may have accepted. *)
AuthenticationFails ==
  /\ page = "auth"
  /\ server' \in (Users \ LongNames) \cup {NoUser}
  /\ End("error")
  /\ UNCHANGED <<op, state, cin, declined, connected, user>>

-----------------------------------------------------------------------------
(* transfer_page *)

(* SetState and the page of a choice *)
ChooseTransfer(p) ==
  /\ Chooses("transfer") /\ state = "SESSION"
  /\ state' = Required[p] /\ Show(p)
  /\ declined' = FALSE
  /\ UNCHANGED <<op, session>>

(* Mutant of Logout: no logout of the session *)
LogoutKeepsSession ==
  /\ page = "transfer"
  /\ Chooses("transfer") \/ (state # "SESSION" /\ UNCHANGED cin)
  /\ IF connected
     THEN connected' = FALSE /\ state' = "MAIN_MENU" /\ Show("login") /\ UNCHANGED <<user, server>>
     ELSE End("error") /\ UNCHANGED <<session, state>>
  /\ UNCHANGED <<op, declined>>

(* The user's choice; and what showTransferMenu returns, without showing   *)
(* anything, if the page before has not set the state back to SESSION.     *)
Logout ==
  /\ page = "transfer"
  /\ Chooses("transfer") \/ (state # "SESSION" /\ UNCHANGED cin)
  /\ CloseSession
  /\ IF connected THEN state' = "MAIN_MENU" /\ Show("login")
     ELSE End("error") /\ UNCHANGED state
  /\ UNCHANGED <<op, declined>>

-----------------------------------------------------------------------------
(* The pages of the transfers *)

Run(answer) ==
  /\ page' = "running" /\ op' = page /\ declined' = ~answer
  /\ UNCHANGED <<state, session, result>>

(* The file or folder dialog is cancelled or fails: the exception is       *)
(* caught on the page.                                                     *)
Cancel ==
  /\ page \in {"upload", "folder", "resume_upload"}
  /\ Back("SESSION")
  /\ UNCHANGED cin

(* showUploadFile: if the user declines, the menu is shown, and what is    *)
(* chosen there is thrown away.                                            *)
ConfirmUpload(answer) ==
  /\ page = "upload" /\ Confirm(answer)
  /\ IF answer THEN Run(TRUE)
     ELSE /\ state' = "SESSION" /\ page' = "nested_menu" /\ declined' = TRUE
          /\ UNCHANGED <<op, session, result>>

ChooseNested ==
  /\ Chooses("nested_menu")
  /\ UNCHANGED state /\ Show("transfer")
  /\ Stay

(* showUploadFolder: if the user declines, showTransferMenu returns at     *)
(* once, as the state is not SESSION, and the page goes on.                *)
ConfirmFolder(answer) ==
  /\ page = "folder" /\ Confirm(answer)
  /\ UNCHANGED state /\ Show("folder_type")
  /\ declined' = ~answer
  /\ UNCHANGED <<op, session>>

ChooseFolderType ==
  /\ Chooses("folder_type")
  /\ page' = "running" /\ op' = "folder"
  /\ UNCHANGED <<state, declined, session, result>>

(* Mutant of InvalidFolderType: the state is set back first *)
FolderTypeResets ==
  /\ page = "folder_type"
  /\ state' = "SESSION" /\ Show("folder")
  /\ Stay /\ UNCHANGED cin

(* An invalid choice, or a bad stream: showUploadFolder again *)
InvalidFolderType ==
  /\ page = "folder_type"
  /\ UNCHANGED <<state, cin>> /\ Show("folder")
  /\ Stay

(* showDownloadFile: the same *)
ConfirmDownload(answer) ==
  page = "download" /\ Confirm(answer) /\ Run(answer)

(* showResume *)
ChooseResume(p) ==
  /\ Chooses("resume")
  /\ state' = "RESUME" /\ Show(p)
  /\ Stay

ChooseBack ==
  /\ Chooses("resume")
  /\ Back("SESSION")

(* showResumeUpload: if the user declines, the state stays RESUME. *)
ConfirmResumeUpload(answer) ==
  /\ page = "resume_upload" /\ Confirm(answer)
  /\ IF answer THEN Run(TRUE)
     ELSE state' = state /\ Show("transfer") /\ declined' = TRUE /\ UNCHANGED <<op, session>>

(* showResumeDownload: no checkpoint, an invalid number, or the user       *)
(* declines                                                                *)
NoResumeDownload ==
  /\ page = "resume_download"
  /\ Back("SESSION") /\ cin' \in {cin, "bad"}

(* A valid number; or 0, also read from a bad stream, for which files[-1]  *)
(* is outside the vector: the program dies, or what is there is taken.     *)
ConfirmResumeDownload ==
  /\ page = "resume_download" /\ Confirm(TRUE)
  /\ Run(TRUE)

NumberZero ==
  /\ page = "resume_download"
  /\ Ends("crash")

(* The transfer has ended.  Each page but showDownloadFile sets the state; *)
(* showResumeDownload catches no other exceptions than fs' own.            *)
Finish ==
  /\ page = "running"
  /\ state' = IF op = "download" THEN state ELSE "SESSION"
  /\ Show("transfer")
  /\ Stay /\ UNCHANGED cin

ResumeDownloadThrows ==
  /\ page = "running" /\ op = "resume_download"
  /\ Ends("error")

-----------------------------------------------------------------------------
Init ==
  /\ page = "login" /\ op = "upload" /\ state = "MAIN_MENU" /\ cin = "good"
  /\ declined = FALSE /\ connected = FALSE /\ user = NoUser /\ server = NoUser
  /\ result = "none"

Ended == page = "ended" /\ UNCHANGED vars

(* What the program does without the user *)
Program ==
  \/ MenuOverflows \/ Connects \/ ConnectFails
  \/ state # "SESSION" /\ Logout
  \/ Finish \/ ResumeDownloadThrows

Next ==
  \/ Program
  \/ InputFails \/ ChooseLogin \/ ChooseExit \/ NameTooLong \/ Refused \/ AuthenticationFails
  \/ \E u \in Users : Authenticated(u)
  \/ \E p \in TransferPages : ChooseTransfer(p)
  \/ Logout
  \/ Cancel \/ ChooseNested \/ ChooseFolderType \/ InvalidFolderType
  \/ ChooseBack \/ NoResumeDownload \/ ConfirmResumeDownload \/ NumberZero
  \/ \E p \in {"resume_upload", "resume_download"} : ChooseResume(p)
  \/ \E answer \in BOOLEAN :
       ConfirmUpload(answer) \/ ConfirmFolder(answer) \/ ConfirmDownload(answer)
       \/ ConfirmResumeUpload(answer)
  \/ Ended

Spec == Init /\ [][Next]_vars

(* The program runs, and every wait for the server ends with a timeout. *)
FairSpec == Spec /\ WF_vars(Program)

-----------------------------------------------------------------------------
(* Properties *)

(* Every variable has its type. *)
TypeOK ==
  /\ page \in {"login", "transfer", "nested_menu", "running", "ended"} \cup DOMAIN Required
  /\ op \in Operations
  /\ state \in {Required[p] : p \in DOMAIN Required} \cup {"SESSION", "EXIT"}
  /\ cin \in {"good", "bad"} /\ declined \in BOOLEAN
  /\ connected \in BOOLEAN /\ user \in Users \cup {NoUser} /\ server \in Users \cup {NoUser}
  /\ result \in {"none", "exit", "error", "invalid", "crash", "overflow"}
  /\ page = "ended" <=> result # "none"

(* Whatever page follows whatever other one, its check of the state never  *)
(* throws, also where a page calls itself, calls the menu of another one   *)
(* or leaves a state behind (cli.h 85, 127, 324, 387, 541, 631, 685, 807). *)
NoInvalidState == result # "invalid"

(* The session follows the pages: the menus of transfers and the transfers *)
(* have a connection on which the server knows the user whose name is      *)
(* kept; before the login, and after the exit, nobody's name and session   *)
(* is left, here or at the server (main 44-50, 68-102; sm 44-91, 118-123). *)
SessionFitsPage ==
  /\ page = "login" => user = NoUser /\ server = NoUser
  /\ page \in {"main", "auth"} => connected /\ user = NoUser /\ server = NoUser
  /\ page \in TransferPages \cup Operations \cup {"transfer", "nested_menu", "folder_type", "running"}
       => connected /\ user \in Users /\ server = user
  /\ result = "exit" => ~connected /\ user = NoUser /\ server = NoUser

(* "Return to transfer menu", comment at cli.h 427, after the download: the *)
(* menu is shown again, as showTransferMenu shows it in the state SESSION  *)
(* only (cli.h 183-187).                                                   *)
MenuAfterDownload ==
  page = "running" /\ op = "download" ~> page = "transfer" /\ state = "SESSION"

(* "Return to transfer menu", comments at cli.h 408 and 568: an operation  *)
(* that the user declines is not run.                                      *)
DeclinedIsNotRun == page = "running" /\ cin = "good" => ~declined

=============================================================================
