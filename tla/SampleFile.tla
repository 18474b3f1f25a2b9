----------------------------- MODULE SampleFile -----------------------------
(***************************************************************************)
(* One sample recording in the Download Samples window: a FileNode with its *)
(* check box and its RemoteFile, which asks for the header of the file,     *)
(* follows redirections, then fetches the body into a QSaveFile next to the *)
(* local file and commits it.  Unchecking aborts and deletes; Refresh makes *)
(* the node anew.                                                           *)
(***************************************************************************)
EXTENDS Integers, Sequences

CONSTANTS
  Content,       \* the file as the server has it: a sequence of blocks
  Pages,         \* bodies an answer that redirects may have
  MaxRedirects,  \* redirections that are followed (10)
  MaxClicks,     \* bound: commands of the operator
  MaxFaults      \* bound: failures of network and file system

SampleAssumption ==
  /\ Content # <<>> /\ MaxRedirects \in Nat /\ MaxClicks \in Nat /\ MaxFaults \in Nat

VARIABLES
  checked,         \* the check box
  local_file,      \* the file in the save directory, or NoFile
  file,            \* file_: what the QSaveFile holds if it is open, or NoFile
  url,             \* url_ has been set
  reply, is_valid, redirect_count,
  answer, rest,    \* how the server answers the request, blocks still to come
  crashed,         \* reply_ was used after abort had cleared it
  clicks, faults

vars == <<checked, local_file, file, url, reply, is_valid, redirect_count, answer, rest,
          crashed, clicks, faults>>
counts == <<clicks, faults>>

NoFile == <<0>>

Init ==
  /\ local_file \in {NoFile, Content} /\ checked = (local_file # NoFile)
  /\ file = NoFile /\ url = FALSE /\ reply = "none" /\ is_valid = FALSE
  /\ redirect_count = 0 /\ answer = "file" /\ rest = <<>>
  /\ crashed = FALSE /\ clicks = 0 /\ faults = 0

-----------------------------------------------------------------------------
\* download: the header first, then the body; the server answers with the file or
\* with a redirection.
Answers(kind) ==
  IF kind = "head" THEN answer' \in {"file", "redirect"} /\ rest' = <<>>
  ELSE \/ answer' = "file" /\ rest' = Content
       \/ answer' = "redirect" /\ rest' \in Pages

download(valid) == reply' = (IF valid THEN "get" ELSE "head") /\ Answers(reply')
NoReply == reply' = "none" /\ UNCHANGED <<answer, rest>>

\* Failed: cancelWriting, download_finished (FALSE).
Cancelled_not == file
Cancelled == NoFile
Failed ==
  /\ file' = Cancelled /\ checked' = FALSE /\ is_valid' = FALSE /\ NoReply

-----------------------------------------------------------------------------
\* The operator

Click == ~crashed /\ clicks < MaxClicks /\ clicks' = clicks + 1 /\ UNCHANGED faults
Fault == faults < MaxFaults /\ faults' = faults + 1

\* sync (TRUE) while a download is active is refused, and the box set back.
Check ==
  /\ Click /\ ~checked
  /\ IF reply # "none"
     THEN UNCHANGED <<checked, url, reply, redirect_count, answer, rest>>
     ELSE /\ checked' = TRUE
          /\ IF local_file = NoFile \/ ~url
             THEN url' = TRUE /\ redirect_count' = 0 /\ download(is_valid)
             ELSE UNCHANGED <<url, reply, redirect_count, answer, rest>>
  /\ UNCHANGED <<local_file, file, is_valid, crashed>>

\* sync (FALSE): abort answers at once.
Uncheck ==
  /\ ~crashed /\ clicks < MaxClicks /\ clicks' = clicks + 1 /\ checked
  /\ IF reply # "none" THEN file' = Cancelled /\ is_valid' = FALSE /\ NoReply
     ELSE UNCHANGED <<file, is_valid, reply, answer, rest>>
  /\ \/ local_file' = NoFile /\ checked' = FALSE /\ UNCHANGED faults
     \/ /\ local_file # NoFile /\ Fault
        /\ checked' = TRUE /\ UNCHANGED local_file
  /\ UNCHANGED <<url, redirect_count, crashed>>

Abort ==
  /\ Click /\ reply # "none" /\ Failed
  /\ UNCHANGED <<local_file, url, redirect_count, crashed>>

\* The node is deleted, and its QSaveFile; the new one looks for the local file.
Refresh ==
  /\ Click /\ checked' = (local_file # NoFile) /\ file' = NoFile /\ url' = FALSE
  /\ is_valid' = FALSE /\ redirect_count' = 0 /\ NoReply
  /\ UNCHANGED <<local_file, crashed>>

-----------------------------------------------------------------------------
\* The network

\* store: the part of the body that has come in.
Store ==
  /\ ~crashed /\ reply = "get" /\ rest # <<>>
  /\ \/ /\ file' = IF file = NoFile THEN <<Head(rest)>> ELSE Append(file, Head(rest))
        /\ rest' = Tail(rest)
        /\ UNCHANGED <<checked, is_valid, reply, answer, faults, crashed>>
     \/ /\ Fault /\ Failed
        /\ crashed' \in (IF file = NoFile THEN BOOLEAN ELSE {FALSE})
  /\ UNCHANGED <<local_file, url, redirect_count, clicks>>

\* The steps of reply_finished.
Finishes == ~crashed /\ reply # "none" /\ rest = <<>>

FollowRedirect ==
  /\ Finishes /\ answer = "redirect" /\ redirect_count' = redirect_count + 1
  /\ IF redirect_count' < MaxRedirects
     THEN download(is_valid) /\ UNCHANGED <<checked, is_valid>>
     ELSE checked' = FALSE /\ is_valid' = FALSE /\ NoReply
  /\ UNCHANGED <<local_file, file, url, crashed, counts>>

NetworkError ==
  /\ ~crashed /\ reply # "none" /\ Fault /\ Failed
  /\ UNCHANGED <<local_file, url, redirect_count, crashed, clicks>>

HeaderDone ==
  /\ Finishes /\ reply = "head" /\ answer = "file"
  /\ is_valid' = TRUE /\ download(TRUE)
  /\ UNCHANGED <<checked, local_file, file, url, redirect_count, crashed, counts>>

BodyDone ==
  /\ Finishes /\ reply = "get" /\ answer = "file"
  /\ \/ local_file' = file /\ checked' = TRUE /\ UNCHANGED faults
     \/ Fault /\ checked' = FALSE /\ UNCHANGED local_file
  /\ file' = NoFile /\ is_valid' = FALSE /\ NoReply
  /\ UNCHANGED <<url, redirect_count, crashed, clicks>>

Network == Store \/ FollowRedirect \/ HeaderDone \/ BodyDone
Next == Check \/ Uncheck \/ Abort \/ Refresh \/ Network \/ NetworkError

Spec == Init /\ [][Next]_vars /\ WF_vars(Network)

-----------------------------------------------------------------------------
\* A local file is the server's file from its first to its last block, and when
\* nothing is under way the box says whether there is one.
SampleWhole ==
  /\ local_file \in {NoFile, Content}
  /\ reply = "none" /\ ~crashed => (checked <=> local_file # NoFile)

\* Redirections come to an end, and so does every download.
Idle == reply = "none" \/ crashed
DownloadEnds == []<>Idle
=============================================================================
