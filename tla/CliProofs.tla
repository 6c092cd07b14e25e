------------------------------- MODULE CliProofs -------------------------------
(***************************************************************************)
(* The pages of Cli never meet a state they do not expect, and have the    *)
(* session they need, for every set of users.  What makes this inductive   *)
(* is that a page that checks the state is only ever shown in the state it *)
(* checks for (PageFits).                                                  *)
(***************************************************************************)
EXTENDS Cli, TLAPS

PageFits == page \in DOMAIN Required => state = Required[page]

Inv == TypeOK /\ NoInvalidState /\ SessionFitsPage /\ PageFits

LEMMA InitInv == Init => Inv
BY UsersAssumption
   DEF Init, Inv, TypeOK, NoInvalidState, SessionFitsPage, PageFits, Required, Operations,
       TransferPages

(* The steps that leave the session alone, and those that end the program *)
LEMMA InputStep ==
  ASSUME Inv, MenuOverflows \/ InputFails \/ NameTooLong \/ NumberZero \/ ResumeDownloadThrows
  PROVE  Inv'
<1> USE UsersAssumption DEF Inv, TypeOK, NoInvalidState, SessionFitsPage, PageFits, Required,
        Operations, TransferPages, Stay, Back, Show, End, Ends, Chooses, Confirm, session
<1>1. CASE MenuOverflows BY <1>1 DEF MenuOverflows, MenuPages
<1>2. CASE InputFails BY <1>2 DEF InputFails, MenuPages
<1>3. CASE NameTooLong BY <1>3 DEF NameTooLong
<1>4. CASE NumberZero BY <1>4 DEF NumberZero
<1>5. CASE ResumeDownloadThrows BY <1>5 DEF ResumeDownloadThrows
<1> QED BY <1>1, <1>2, <1>3, <1>4, <1>5

(* login_page and the authentication *)
LEMMA LoginStep ==
  ASSUME Inv,
         \/ Connects \/ ConnectFails \/ ChooseLogin \/ ChooseExit \/ Refused
         \/ AuthenticationFails
         \/ \E u \in Users : Authenticated(u)
  PROVE  Inv'
<1> USE UsersAssumption DEF Inv, TypeOK, NoInvalidState, SessionFitsPage, PageFits, Required,
        Operations, TransferPages, Stay, Back, Show, End, Ends, Chooses, Confirm, session
<1>1. CASE Connects BY <1>1 DEF Connects
<1>2. CASE ConnectFails BY <1>2 DEF ConnectFails
<1>3. CASE ChooseLogin BY <1>3 DEF ChooseLogin
<1>4. CASE ChooseExit BY <1>4 DEF ChooseExit, CloseSession, Disconnected
<1>5. CASE Refused BY <1>5 DEF Refused
<1>6. CASE AuthenticationFails BY <1>6 DEF AuthenticationFails
<1>7. CASE \E u \in Users : Authenticated(u)
  BY <1>7 DEF Authenticated
<1> QED BY <1>1, <1>2, <1>3, <1>4, <1>5, <1>6, <1>7

(* transfer_page *)
LEMMA TransferPageStep ==
  ASSUME Inv, Logout \/ Finish \/ \E p \in TransferPages : ChooseTransfer(p)
  PROVE  Inv'
<1> USE UsersAssumption DEF Inv, TypeOK, NoInvalidState, SessionFitsPage, PageFits, Required,
        Operations, TransferPages, Stay, Back, Show, End, Ends, Chooses, Confirm, session
<1>1. CASE Logout BY <1>1 DEF Logout, CloseSession, Disconnected
<1>2. CASE Finish BY <1>2 DEF Finish
<1>3. CASE \E p \in TransferPages : ChooseTransfer(p)
  <2>1. PICK p \in TransferPages : ChooseTransfer(p) BY <1>3
  <2>2. CASE p = "upload" BY <2>1, <2>2 DEF ChooseTransfer
  <2>3. CASE p = "folder" BY <2>1, <2>3 DEF ChooseTransfer
  <2>4. CASE p = "download" BY <2>1, <2>4 DEF ChooseTransfer
  <2>5. CASE p = "resume" BY <2>1, <2>5 DEF ChooseTransfer
  <2> QED BY <2>2, <2>3, <2>4, <2>5
<1> QED BY <1>1, <1>2, <1>3

(* The pages of the transfers *)
LEMMA PageStep ==
  ASSUME Inv, NEW answer \in BOOLEAN,
         \/ Cancel \/ ChooseNested \/ ChooseFolderType \/ InvalidFolderType
         \/ ChooseBack \/ NoResumeDownload \/ ConfirmResumeDownload
         \/ \E p \in {"resume_upload", "resume_download"} : ChooseResume(p)
         \/ ConfirmUpload(answer) \/ ConfirmFolder(answer) \/ ConfirmDownload(answer)
         \/ ConfirmResumeUpload(answer)
  PROVE  Inv'
<1> USE UsersAssumption DEF Inv, TypeOK, NoInvalidState, SessionFitsPage, PageFits, Required,
        Operations, TransferPages, Stay, Back, Show, End, Ends, Chooses, Confirm, session, Run
<1>1. CASE Cancel BY <1>1 DEF Cancel
<1>2. CASE ChooseNested BY <1>2 DEF ChooseNested
<1>3. CASE ChooseFolderType BY <1>3 DEF ChooseFolderType
<1>4. CASE InvalidFolderType BY <1>4 DEF InvalidFolderType
<1>5. CASE ChooseBack BY <1>5 DEF ChooseBack
<1>6. CASE NoResumeDownload BY <1>6 DEF NoResumeDownload
<1>7. CASE ConfirmResumeDownload BY <1>7 DEF ConfirmResumeDownload
<1>8. CASE \E p \in {"resume_upload", "resume_download"} : ChooseResume(p)
  BY <1>8 DEF ChooseResume
<1>9. CASE ConfirmUpload(answer) BY <1>9 DEF ConfirmUpload
<1>10. CASE ConfirmFolder(answer) BY <1>10 DEF ConfirmFolder
<1>11. CASE ConfirmDownload(answer) BY <1>11 DEF ConfirmDownload
<1>12. CASE ConfirmResumeUpload(answer) BY <1>12 DEF ConfirmResumeUpload
<1> QED BY <1>1, <1>2, <1>3, <1>4, <1>5, <1>6, <1>7, <1>8, <1>9, <1>10, <1>11, <1>12

LEMMA StutterInv == ASSUME Inv, UNCHANGED vars PROVE Inv'
BY DEF Inv, TypeOK, NoInvalidState, SessionFitsPage, PageFits, vars, session

LEMMA StepInv == ASSUME Inv, [Next]_vars PROVE Inv'
<1>1. CASE Next
  BY <1>1, InputStep, LoginStep, TransferPageStep, PageStep, StutterInv DEF Next, Program, Ended
<1>2. CASE UNCHANGED vars
  BY <1>2, StutterInv
<1> QED BY <1>1, <1>2

LEMMA Invariance == Spec => []Inv
BY InitInv, StepInv, PTL DEF Spec

(* Every variable has its type. *)
THEOREM TypeCorrect == Spec => []TypeOK
<1>1. Inv => TypeOK BY DEF Inv
<1> QED BY <1>1, Invariance, PTL

(* No page ever meets a state that it answers with "Invalid state" (cli.h  *)
(* 85, 127, 324, 387, 541, 631, 685, 807).                                 *)
THEOREM PagesFitState == Spec => []NoInvalidState
<1>1. Inv => NoInvalidState BY DEF Inv
<1> QED BY <1>1, Invariance, PTL

(* Every page has the session it needs, and none is left before the login  *)
(* or after the exit (main 44-50, 68-102; cli.h 125-428).                  *)
THEOREM SessionFits == Spec => []SessionFitsPage
<1>1. Inv => SessionFitsPage BY DEF Inv
<1> QED BY <1>1, Invariance, PTL

=============================================================================
