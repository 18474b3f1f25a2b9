---------------------------- MODULE SpotUpload -----------------------------
(***************************************************************************)
(* From a WSPR interval to wsprnet.org: MainWindow::dataSink starts the     *)
(* decoder wsprd as a process, wsprd writes wspr_spots.txt, and             *)
(* p1ReadFromStdout, uploadTimer, uploadSpots and the object WSPRNet post   *)
(* its lines, one request per spot, over a network that answers late, in    *)
(* any order, with an error or with a refusal.                              *)
(*                                                                          *)
(* A spot is the interval it was heard in, a number, and the band wsprd was *)
(* told.  A frequency is a band, so the 200 Hz of the frequency test are    *)
(* "the same band".  Percentages, power and texts of a request are left out.*)
(***************************************************************************)
EXTENDS Integers, Sequences, FiniteSets, SequencesExt

CONSTANTS
  Bands,
  None,          \* no band (m_dialFreqRxWSPR = 0), no file
  MaxSpots,      \* bound: spots in an interval
  MaxIntervals,  \* bound: intervals received
  MaxReplays,    \* bound: recordings opened
  MaxEvents      \* bound: band changes, presses of the check box, rig failures and
                 \* recoveries, requests that fail or are refused

\* The lines of wspr_spots.txt
Lines == [of : Nat, k : Nat, band : Bands \cup {None}]

UploadAssumption ==
  /\ None \notin Seq(Lines) /\ IsFiniteSet(Bands) /\ Bands # {} /\ None \notin Bands
  /\ {MaxSpots, MaxIntervals, MaxReplays, MaxEvents} \subseteq Nat

VARIABLES
  interval,      \* the interval being received
  marked,        \* three quarters of it have passed
  freq,          \* the band of m_freqNominal
  m_dialFreqRxWSPR, m_diskData, m_uploadSpots, m_uploading,
  online,        \* is_transceiver_online
  uploadTimer,   \* the random delay before uploadSpots runs
  saved,         \* the interval's .wav: "no", "part" (being written), "yes"
  p1,            \* the process wsprd, or None
  finished,      \* <DecodeFinished> was printed and not read
  file,          \* wspr_spots.txt, or None
  urlQueue, requests, sendTimer, m_uploadType,  \* of WSPRNet
  posted,        \* history: the spots requested, one after the other
  refused,       \* history: wsprnet.org refused a request of this upload
  found,         \* history: the last run of wsprd and the number of spots it found
  late,          \* history: the intervals whose file met what was left of another's
  replays, events

station == <<interval, marked, freq>>
flags == <<m_dialFreqRxWSPR, m_diskData, m_uploadSpots, online>>
net == <<urlQueue, requests, sendTimer, m_uploadType>>
wsprd == <<saved, p1, finished>>
vars == <<station, flags, m_uploading, uploadTimer, wsprd, file, net, posted, refused,
          found, late, replays, events>>

Init ==
  /\ interval = 1 /\ marked = FALSE /\ freq = CHOOSE b \in Bands : TRUE  \* any will do
  /\ m_dialFreqRxWSPR = None /\ m_diskData = FALSE /\ m_uploadSpots = TRUE
  /\ online = TRUE /\ m_uploading = FALSE /\ uploadTimer = FALSE
  /\ saved = "no" /\ p1 = None /\ finished = FALSE /\ file = None
  /\ urlQueue = <<>> /\ requests = <<>> /\ sendTimer = FALSE /\ m_uploadType = 0
  /\ posted = <<>> /\ refused = FALSE /\ found = [of |-> 0, n |-> 0] /\ late = {}
  /\ replays = 0 /\ events = 0

----------------------------------------------------------------------------
(* Reception and wsprd *)

\* dataSink at three quarters of the interval
MarkFrequency ==
  /\ ~m_diskData /\ ~marked /\ interval <= MaxIntervals
  /\ marked' = TRUE /\ m_dialFreqRxWSPR' = freq
  /\ UNCHANGED <<interval, freq, m_diskData, m_uploadSpots, online, m_uploading,
                 uploadTimer, wsprd, file, net, posted, refused, found, late, replays, events>>

\* A process that still runs is not started again.
Start(run) == p1' = IF p1 = None THEN run ELSE p1

\* dataSink with the whole interval: the recording is written by another
\* thread while wsprd starts to read it.
EndOfInterval ==
  /\ marked /\ ~m_diskData
  /\ interval' = interval + 1 /\ marked' = FALSE
  /\ saved' = "no"
  /\ Start([of |-> interval, band |-> m_dialFreqRxWSPR, open |-> "no"])
  /\ UNCHANGED <<freq, flags, m_uploading, uploadTimer, finished, file, net, posted,
                 refused, found, late, replays, events>>

save_wave_file ==
  /\ interval > 1 /\ saved # "yes"
  /\ saved' = IF saved = "no" THEN "part" ELSE "yes"
  /\ UNCHANGED <<station, flags, m_uploading, uploadTimer, p1, finished, file, net, posted,
                 refused, found, late, replays, events>>

Happens == events < MaxEvents /\ events' = events + 1

\* The operator opens a recording: its frequency is in its header or unknown.
OpenRecording ==
  /\ replays < MaxReplays /\ replays' = replays + 1
  /\ m_diskData' = TRUE /\ m_dialFreqRxWSPR' = freq
  /\ \E b \in Bands \cup {None} : Start([of |-> 0, band |-> b, open |-> "no"])
  /\ UNCHANGED <<station, m_uploadSpots, online, m_uploading, uploadTimer, saved, finished,
                 file, net, posted, refused, found, late, events>>

\* What the run of wsprd before had to do with the file is done: uploaded and
\* answered, or not uploaded at all.  Nothing makes the next run wait for it.
Over == requests = <<>> /\ urlQueue = <<>> /\ ~finished /\ ~uploadTimer

\* wsprd truncates the file of spots, then reads its input; without one it
\* exits and prints no <DecodeFinished>.
WsprdOpens ==
  /\ p1 # None /\ p1.open = "no"
  /\ file' = <<>>
  /\ late' = IF Over THEN late
             ELSE late \cup {p1.of} \cup (IF finished \/ uploadTimer THEN {found.of} ELSE {})
  /\ p1' = IF p1.of # 0 /\ saved = "no" THEN None
           ELSE [p1 EXCEPT !.open = IF p1.of = 0 THEN "yes" ELSE saved]
  /\ UNCHANGED <<station, flags, m_uploading, uploadTimer, saved, finished, net, posted,
                 refused, found, replays, events>>

\* What it finds is written when it exits, to the file it opened, which may
\* have been removed; half a recording holds nothing.
WsprdExits ==
  /\ p1 # None /\ p1.open # "no"
  /\ \E n \in 0 .. MaxSpots :
       /\ p1.open = "yes" \/ n = 0
       /\ found' = [of |-> p1.of, n |-> n]
       /\ file' = IF file = None THEN None
                  ELSE [k \in 1 .. n |-> [of |-> p1.of, k |-> k, band |-> p1.band]]
  /\ p1' = None /\ finished' = TRUE
  /\ UNCHANGED <<station, flags, m_uploading, uploadTimer, saved, net, posted, refused,
                 late, replays, events>>

----------------------------------------------------------------------------
(* MainWindow and WSPRNet *)

p1ReadFromStdout ==
  /\ finished /\ finished' = FALSE
  /\ IF m_uploadSpots /\ online THEN uploadTimer' = TRUE /\ UNCHANGED file
     ELSE file' = None /\ UNCHANGED uploadTimer
  /\ UNCHANGED <<station, flags, m_uploading, saved, p1, net, posted, refused, found, late,
                 replays, events>>

\* upload: the lines of the file that lie in the band of m_rfreq, all or none: a file
\* is of one interval.  (Mutant: without the test of the frequency.)
Fits_all(s) == TRUE
Fits(s) == s.band = m_dialFreqRxWSPR
Fitting == IF Fits(file[1]) THEN file ELSE <<>>

\* A request names the spot and m_rfreq; number 0 reports that there is none.
Request(s) == [spot |-> s, rfreq |-> m_dialFreqRxWSPR]
NoSpot == [of |-> interval - 1, k |-> 0, band |-> None]

\* abortOutstandingRequests, if the previous upload is not over: the queue is
\* cleared, then each request is aborted in turn.  It answers within abort, with an
\* error, for which networkReply does no more than take it off the list.  It is the
\* first of the list by then, and a QList that loses its first element leaves the
\* others in their places, so the loop comes to every request and none is left.
Unaborted(list) == IF m_uploading THEN <<>> ELSE list

uploadSpots ==
  /\ uploadTimer /\ uploadTimer' = FALSE
  /\ IF m_diskData \/ ~online
     THEN UNCHANGED <<m_uploading, net, refused>>
     ELSE LET left == Unaborted(urlQueue)
          IN /\ requests' = Unaborted(requests)
             /\ m_uploading' = TRUE /\ sendTimer' = TRUE /\ refused' = FALSE
             /\ IF file \in {None, <<>>}
                THEN urlQueue' = Append(left, Request(NoSpot)) /\ m_uploadType' = 1
                ELSE /\ urlQueue' = left \o [n \in 1 .. Len(Fitting) |-> Request(Fitting[n])]
                     /\ m_uploadType' = IF Fitting = <<>> THEN m_uploadType ELSE 2
  /\ UNCHANGED <<station, flags, wsprd, file, posted, found, late, replays, events>>

work ==
  /\ sendTimer
  /\ IF urlQueue = <<>>
     THEN sendTimer' = FALSE /\ UNCHANGED <<urlQueue, requests, posted>>
     ELSE /\ requests' = Append(requests, Head(urlQueue)) /\ urlQueue' = Tail(urlQueue)
          /\ posted' = IF Head(urlQueue).spot.k = 0 THEN posted ELSE Append(posted, Head(urlQueue))
          /\ UNCHANGED sendTimer
  /\ UNCHANGED <<station, flags, m_uploading, uploadTimer, wsprd, file, m_uploadType,
                 refused, found, late, replays, events>>

\* networkReply to request n
Answered(n) == n \in DOMAIN requests /\ requests' = RemoveAt(requests, n)

Failed(n) ==
  /\ Happens
  /\ Answered(n)
  /\ UNCHANGED <<m_uploading, file, urlQueue, sendTimer, refused>>

\* Mutant: the upload is over with the first answer.
Accepted_first(n) ==
  /\ Answered(n)
  /\ m_uploading' = FALSE /\ file' = None /\ sendTimer' = FALSE
  /\ UNCHANGED <<urlQueue, refused, events>>

Accepted(n) ==
  /\ Answered(n)
  /\ IF urlQueue = <<>>
     THEN m_uploading' = FALSE /\ file' = None /\ sendTimer' = FALSE
     ELSE UNCHANGED <<m_uploading, file, sendTimer>>
  /\ UNCHANGED <<urlQueue, refused, events>>

Refused(n) ==
  /\ m_uploadType = 2 /\ Happens
  /\ Answered(n)
  /\ urlQueue' = <<>> /\ m_uploading' = FALSE /\ file' = None /\ sendTimer' = FALSE
  /\ refused' = TRUE

networkReply ==
  /\ \E n \in DOMAIN requests : Failed(n) \/ Accepted(n) \/ Refused(n)
  /\ UNCHANGED <<station, flags, uploadTimer, wsprd, m_uploadType, posted, found, late,
                 replays>>

----------------------------------------------------------------------------
(* The operator and the rig *)

MoveBand ==
  /\ Happens
  /\ \E b \in Bands \ {freq} : freq' = b
  /\ m_diskData' \in {m_diskData, FALSE}  \* band_changed resumes Monitor, the rig does not
  /\ UNCHANGED <<interval, marked, m_dialFreqRxWSPR, m_uploadSpots, online, m_uploading,
                 uploadTimer, wsprd, file, net, posted, refused, found, late, replays>>

Monitor ==
  /\ m_diskData /\ m_diskData' = FALSE
  /\ UNCHANGED <<station, m_dialFreqRxWSPR, m_uploadSpots, online, m_uploading, uploadTimer,
                 wsprd, file, net, posted, refused, found, late, replays, events>>

Other ==
  /\ Happens
  /\ \/ m_uploadSpots' = ~m_uploadSpots /\ UNCHANGED online
     \/ online' = ~online /\ UNCHANGED m_uploadSpots
  /\ UNCHANGED <<station, m_dialFreqRxWSPR, m_diskData, m_uploading, uploadTimer, wsprd,
                 file, net, posted, refused, found, late, replays>>

Next ==
  \/ MarkFrequency \/ EndOfInterval \/ save_wave_file \/ OpenRecording
  \/ WsprdOpens \/ WsprdExits \/ p1ReadFromStdout \/ uploadSpots \/ work \/ networkReply
  \/ MoveBand \/ Monitor \/ Other

Spec == Init /\ [][Next]_vars

----------------------------------------------------------------------------
(* Properties *)

TypeOK ==
  /\ freq \in Bands /\ m_dialFreqRxWSPR \in Bands \cup {None}
  /\ {m_diskData, m_uploadSpots, m_uploading, online, uploadTimer} \subseteq BOOLEAN
  /\ saved \in {"no", "part", "yes"} /\ m_uploadType \in 0 .. 2

\* No spot is posted twice, unless its file met another upload, and none under a
\* band it was not heard on, whoever moved the band meanwhile.  (Recordings all
\* have number 0.)
SpotsSound ==
  /\ \A i, j \in DOMAIN posted :
       i # j /\ posted[i].spot.of \notin late \cup {0} => posted[i] # posted[j]
  /\ \A i \in DOMAIN posted : posted[i].rfreq = posted[i].spot.band

\* An answer does not remove the file before each of its spots was posted, unless
\* wsprnet.org refused one or the file met another upload.
Posted == {posted[i].spot : i \in DOMAIN posted}
SpotsKept ==
  [][file' # file /\ networkReply =>
       refused' \/ \A n \in DOMAIN file : file[n] \in Posted \/ file[n].of \in late]_vars

\* wsprnet.org is told that an interval had no spots only if wsprd found none, or
\* the file met another upload.
NoSpotTrue ==
  [][urlQueue' # urlQueue /\ uploadSpots /\ m_uploadType' = 1 =>
       found.n = 0 \/ found.of \in late]_vars

\* Not so: what an upload that is late may lose is its own spots, "Previous upload
\* has not completed, spots were lost" (mainwindow.cpp:6541).  The file is the one
\* of the next interval by then: an answer to the late upload removes it, unread.
NextSpotsKept ==
  [][file' # file /\ networkReply =>
       refused' \/ \A n \in DOMAIN file : file[n] \in Posted]_vars

\* Not so: an interval reported as empty was empty.
NoSpotAlwaysTrue ==
  [][urlQueue' # urlQueue /\ uploadSpots /\ m_uploadType' = 1 => found.n = 0]_vars

\* Not so: "do not spot replays" (mainwindow.cpp:6536).
ReplaysNotSpotted == \A i \in DOMAIN posted : posted[i].spot.of # 0
=============================================================================
