----------------------------- MODULE SpotsProofs -----------------------------
(***************************************************************************)
(* Proofs about the band hopping of WSPR (WsprHopping), its schedule         *)
(* (TxSchedule), the upload of its spots (SpotUpload) and the spots of the   *)
(* other modes (PskSpots), as MCSpots puts them side by side, for every      *)
(* value of the constants.                                                   *)
(***************************************************************************)
EXTENDS MCSpots, FiniteSetTheorems, SequenceTheorems, TLAPS

----------------------------------------------------------------------------
(* PskSpots *)

\* What the program last heard from the rig is the band that its 50 s run for, and
\* until they are over audio of another band may still be decoded.
Followed ==
  /\ shown = m_lastDialFreq
  /\ ~recent => audio \in {None, m_lastDialFreq}

\* A band chosen in the program is the rig's until the rig reports it, and the program
\* follows the rig otherwise, unless the rig left that band before it had reported it.
Linked ==
  ~outrun => /\ asked => freq = rig /\ text = rig
             /\ ~asked => freq = shown /\ text = shown

\* A spot that waits was heard where it says, and the station is described as it is there
\* for as long as nobody turned the knob.
Spot == [heard : Bands \cup {None}, freq : Bands, astray : BOOLEAN]
Queued ==
  \A n \in 1..Len(m_spotQueue) :
    \/ m_spotQueue[n].astray
    \/ /\ m_spotQueue[n].heard = m_spotQueue[n].freq /\ ~asked
       /\ knob \/ (antenna = m_spotQueue[n].freq /\ text = m_spotQueue[n].freq)

PskType ==
  /\ rig \in Bands /\ freq \in Bands /\ shown \in Bands /\ text \in Bands
  /\ audio \in Bands \cup {None} /\ recent \in BOOLEAN /\ knob \in BOOLEAN
  /\ asked \in BOOLEAN /\ outrun \in BOOLEAN
  /\ m_spotQueue \in Seq(Spot) /\ report \in Seq(Spot)

PskInv == PskType /\ Followed /\ Linked /\ Queued /\ Psk!ReportTrue

LEMMA PskStarts == Psk!Init => PskInv
<1> SUFFICES ASSUME Psk!Init PROVE PskInv
  OBVIOUS
<1>. USE DEF Psk!Init
<1>1. PskType /\ Followed /\ Linked
  <2>1. <<>> \in Seq(Spot)
    OBVIOUS
  <2>. QED
    BY <2>1, Zenon DEF PskType, Followed, Linked
<1>2. Queued /\ Psk!ReportTrue
  BY DEF Queued, Psk!ReportTrue
<1>. QED
  BY <1>1, <1>2 DEF PskInv

\* Sending the queue off makes its spots the report, or loses them.
LEMMA Sent ==
  ASSUME PskInv, Psk!SendReport
  PROVE  /\ m_spotQueue' = <<>> /\ m_spotQueue' \in Seq(Spot) /\ knob' = FALSE
         /\ report' \in Seq(Spot) /\ Psk!ReportTrue'
<1>1. m_spotQueue' = <<>> /\ knob' = FALSE
  BY DEF Psk!SendReport
<1>2. report' \in Seq(Spot)
  BY DEF Psk!SendReport, PskInv, PskType
<1>3. Psk!ReportTrue'
  <2>1. CASE m_spotQueue # <<>> /\ known
    <3>1. report' = m_spotQueue /\ described' = antenna /\ crossed' = knob
      BY <2>1 DEF Psk!SendReport
    <3>2. ASSUME NEW n \in 1..Len(m_spotQueue)
          PROVE  \/ m_spotQueue[n].astray
                 \/ /\ m_spotQueue[n].heard = m_spotQueue[n].freq
                    /\ antenna = m_spotQueue[n].freq \/ knob
      BY DEF PskInv, Queued
    <3>3. DOMAIN m_spotQueue = 1..Len(m_spotQueue)
      BY DEF PskInv, PskType
    <3>. QED
      BY <3>1, <3>2, <3>3 DEF Psk!ReportTrue
  <2>2. CASE ~(m_spotQueue # <<>> /\ known)
    BY <2>2 DEF Psk!SendReport, PskInv, Psk!ReportTrue
  <2>. QED
    BY <2>1, <2>2
<1>. QED
  BY <1>1, <1>2, <1>3

LEMMA NothingQueued == m_spotQueue' = <<>> => Queued'
<1> SUFFICES ASSUME m_spotQueue' = <<>> PROVE Queued'
  OBVIOUS
<1>1. 1..Len(m_spotQueue') = {}
  OBVIOUS
<1>. QED
  BY <1>1 DEF Queued

LEMMA PskSteps == PskInv /\ Psk!Next => PskInv'
<1> SUFFICES ASSUME PskInv, Psk!Next PROVE PskInv'
  OBVIOUS
<1>. USE DEF PskInv
<1>1. CASE Psk!ReportTimer
  <2>1. /\ Psk!SendReport
        /\ UNCHANGED <<rig, freq, shown, m_lastDialFreq, text, recent, audio, asked, outrun>>
    BY <1>1 DEF Psk!ReportTimer, Psk!link
  <2>2. PskType' /\ Followed' /\ Linked'
    BY <2>1, Sent, Zenon DEF PskType, Followed, Linked
  <2>3. Queued'
    BY <2>1, Sent, NothingQueued
  <2>. QED
    BY <2>1, <2>2, <2>3, Sent
<1>2. CASE Psk!BandChanged
  <2>1. PICK b \in Bands : text' = b /\ freq' = b /\ rig' = b /\ asked' = (b # shown)
    BY <1>2 DEF Psk!BandChanged
  <2>2. /\ UNCHANGED <<shown, m_lastDialFreq, recent, audio>> /\ Psk!SendReport
        /\ outrun' = FALSE
    BY <1>2 DEF Psk!BandChanged
  <2>3. PskType' /\ Followed'
    <3>1. asked' \in BOOLEAN
      BY <2>1
    <3>. QED
      BY <2>1, <2>2, <3>1, Sent, Zenon DEF PskType, Followed
  <2>4. Linked'
    BY <2>1, <2>2 DEF Linked
  <2>5. Queued'
    BY <2>2, Sent, NothingQueued
  <2>. QED
    BY <2>2, <2>3, <2>4, <2>5, Sent
<1>3. CASE Psk!RigMoved
  <2>1. PICK b \in Bands : rig' = b
    BY <1>3 DEF Psk!RigMoved
  <2>2. /\ outrun' = (outrun \/ asked)
        /\ UNCHANGED <<freq, shown, m_lastDialFreq, text, recent, audio, m_spotQueue,
                       antenna, report, described, knob, crossed, asked>>
    BY <1>3 DEF Psk!RigMoved
  <2>3. PskType' /\ Followed' /\ Psk!ReportTrue'
    BY <2>1, <2>2 DEF PskType, Followed, Psk!ReportTrue
  <2>4. Linked'
    BY <2>2 DEF Linked
  <2>5. Queued'
    BY <2>2 DEF Queued
  <2>. QED
    BY <2>3, <2>4, <2>5
<1>4. CASE Psk!handle_transceiver_update
  <2>1. /\ shown' = rig /\ text' = rig /\ asked' = FALSE
        /\ freq' = IF rig # shown THEN rig ELSE freq
        /\ outrun' = (outrun /\ rig = shown)
        /\ knob' = (knob \/ (~asked /\ m_spotQueue # <<>>))
        /\ UNCHANGED <<rig, audio, m_spotQueue, report, described, crossed>>
        /\ rig # shown \/ rig # text
    BY <1>4 DEF Psk!handle_transceiver_update
  <2>2. IF rig # shown /\ rig # m_lastDialFreq
          THEN m_lastDialFreq' = rig /\ recent' = TRUE
          ELSE UNCHANGED <<m_lastDialFreq, recent>>
    BY <1>4 DEF Psk!handle_transceiver_update
  <2>3. PskType'
    <3>1. outrun' \in BOOLEAN /\ knob' \in BOOLEAN /\ recent' \in BOOLEAN
      BY <2>1, <2>2 DEF PskType
    <3>2. freq' \in Bands
      BY <2>1 DEF PskType
    <3>. QED
      BY <2>1, <3>1, <3>2, Zenon DEF PskType
  <2>4. Followed'
    BY <2>1, <2>2 DEF Followed
  <2>5. Linked'
    <3>1. CASE rig # shown
      BY <2>1, <3>1 DEF Linked
    <3>2. CASE rig = shown
      BY <2>1, <3>2 DEF Linked, PskType
    <3>. QED
      BY <3>1, <3>2
  <2>6. Queued'
    <3>1. CASE asked
      BY <2>1, <3>1 DEF Queued
    <3>2. CASE ~asked /\ m_spotQueue # <<>>
      BY <2>1, <3>2 DEF Queued
    <3>3. CASE m_spotQueue = <<>>
      BY <2>1, <3>3, NothingQueued
    <3>. QED
      BY <3>1, <3>2, <3>3
  <2>. QED
    BY <2>1, <2>3, <2>4, <2>5, <2>6 DEF Psk!ReportTrue
<1>5. CASE Psk!Decoded
  <2>1. UNCHANGED <<rig, freq, shown, m_lastDialFreq, text, recent, audio, report, described,
                    knob, crossed, asked, outrun>>
    BY <1>5 DEF Psk!Decoded, Psk!link
  <2>2. Linked' /\ Followed' /\ Psk!ReportTrue'
    BY <2>1 DEF Linked, Followed, Psk!ReportTrue
  <2>3. CASE recent
    BY <1>5, <2>1, <2>2, <2>3 DEF Psk!Decoded, PskType, Queued
  <2>4. CASE ~recent
    <3>. DEFINE new == [heard |-> audio, freq |-> freq, astray |-> (asked \/ outrun)]
    <3>1. audio # None /\ m_spotQueue' = Append(m_spotQueue, new) /\ antenna' = text
      BY <1>5, <2>4 DEF Psk!Decoded, Psk!pskSetLocal
    <3>2. new \in Spot
      BY DEF PskType, Spot
    <3>3. PskType'
      BY <2>1, <3>1, <3>2 DEF PskType
    <3>4. new.astray \/ (new.heard = new.freq /\ ~asked /\ text = new.freq)
      <4>1. CASE asked \/ outrun
        BY <4>1
      <4>2. CASE ~asked /\ ~outrun
        BY <2>4, <3>1, <4>2 DEF Followed, Linked
      <4>. QED
        BY <4>1, <4>2
    <3>5. ASSUME NEW n \in 1..Len(m_spotQueue')
          PROVE  \/ n \in 1..Len(m_spotQueue) /\ m_spotQueue'[n] = m_spotQueue[n]
                 \/ m_spotQueue'[n] = new
      BY <3>1 DEF PskType
    <3>. HIDE DEF new
    <3>6. Queued'
      BY <2>1, <3>1, <3>4, <3>5 DEF Queued
    <3>. QED
      BY <2>2, <3>3, <3>6
  <2>. QED
    BY <2>3, <2>4
<1>6. CASE Psk!dnsLookupResult
  BY <1>6 DEF Psk!dnsLookupResult, Psk!link, PskType, Followed, Linked, Queued, Psk!ReportTrue
<1>7. CASE Psk!PeriodEnds \/ Psk!DecodeFinished
  <2>1. /\ audio' = None \/ (audio' = rig /\ shown = rig)
        /\ UNCHANGED <<rig, freq, shown, m_lastDialFreq, text, recent, m_spotQueue, antenna,
                       report, described, knob, crossed, asked, outrun>>
    BY <1>7 DEF Psk!PeriodEnds, Psk!DecodeFinished, Psk!link
  <2>2. PskType' /\ Followed' /\ Linked'
    BY <2>1, Zenon DEF PskType, Followed, Linked
  <2>. QED
    BY <2>1, <2>2 DEF Queued, Psk!ReportTrue
<1>8. CASE Psk!Elapse
  <2>1. /\ recent' = FALSE /\ audio \in {None, m_lastDialFreq}
        /\ UNCHANGED <<rig, freq, shown, m_lastDialFreq, text, audio, m_spotQueue, antenna,
                       report, described, knob, crossed, asked, outrun>>
    BY <1>8 DEF Psk!Elapse, Psk!link
  <2>2. PskType' /\ Followed' /\ Linked'
    BY <2>1, Zenon DEF PskType, Followed, Linked
  <2>. QED
    BY <2>1, <2>2 DEF Queued, Psk!ReportTrue
<1>. QED
  BY <1>1, <1>2, <1>3, <1>4, <1>5, <1>6, <1>7, <1>8 DEF Psk!Next

----------------------------------------------------------------------------
(* SpotUpload *)

Runs == [of : Nat, band : Bands \cup {None}, open : {"no", "part", "yes"}]
Asks == [spot : Upload!Lines, rfreq : Bands \cup {None}]

UpType ==
  /\ interval \in Nat \ {0} /\ freq \in Bands
  /\ m_dialFreqRxWSPR \in Bands \cup {None}
  /\ p1 = None \/ p1 \in Runs
  /\ file = None \/ file \in Seq(Upload!Lines)
  /\ posted \in Seq(Asks) /\ urlQueue \in Seq(Asks)
  /\ saved \in {"no", "part", "yes"}
  /\ finished \in BOOLEAN /\ uploadTimer \in BOOLEAN

\* The spots of an interval among those asked for.
Named(q, o) == \E i \in 1..Len(q) : q[i].spot.of = o /\ q[i].spot.k # 0
Listed == file # None /\ Len(file) > 0
Quiet == requests = <<>> /\ urlQueue = <<>>

\* The file holds the numbered spots of one interval that is over.
FileWhole ==
  file # None =>
    \A n \in 1..Len(file) :
      /\ file[n].of = file[1].of /\ file[n].k = n /\ file[n].band = file[1].band
      /\ file[n].of < interval

\* The process that runs for an interval is the first for it, and unless it is late nothing
\* is left to be read, uploaded or answered from when it has opened the file until it exits.
RunNew ==
  p1 # None =>
    /\ p1.of < interval
    /\ p1.open # "no" => file = None \/ file = <<>>
    /\ p1.of # 0 =>
         /\ ~Named(posted, p1.of) /\ ~Named(urlQueue, p1.of)
         /\ Listed => file[1].of # p1.of
    /\ p1.open # "no" /\ p1.of \notin late =>
         ~finished /\ ~uploadTimer /\ Quiet /\ file = <<>>

\* What was asked for belongs to intervals that are over, under their own band.
Asked ==
  /\ \A i \in 1..Len(posted) : posted[i].spot.k # 0
  /\ \A q \in {posted, urlQueue} : \A i \in 1..Len(q) :
       q[i].spot.k # 0 => q[i].spot.of < interval /\ q[i].rfreq = q[i].spot.band

\* The spots of an interval that is not late wait for their upload once; afterwards each was
\* asked for or there was none to ask for.
Turn ==
  Listed /\ file[1].of \notin late =>
    \/ /\ ~(finished /\ uploadTimer) /\ Quiet
       /\ file[1].of # 0 => ~Named(posted, file[1].of)
    \/ ~finished /\ ~uploadTimer /\ Quiet
    \/ /\ ~finished /\ ~uploadTimer
       /\ \A n \in 1..Len(file) :
            \/ \E i \in 1..Len(posted) : posted[i].spot = file[n]
            \/ \E i \in 1..Len(urlQueue) : urlQueue[i].spot = file[n]

\* A file that is about to be uploaded is what wsprd found, unless it is late.
FoundKept ==
  (finished \/ uploadTimer) /\ found.of \notin late =>
    ~(finished /\ uploadTimer) /\ Quiet /\ file # None /\ Len(file) = found.n

\* No spot of an interval that is not late was asked for twice.
Exempt == late \cup {0}
Once ==
  /\ \A i, j \in 1..Len(posted) :
       i # j /\ posted[i].spot.of \notin Exempt => posted[i].spot # posted[j].spot
  /\ \A i \in 1..Len(posted), j \in 1..Len(urlQueue) :
       posted[i].spot.of \notin Exempt => posted[i].spot # urlQueue[j].spot
  /\ \A i, j \in 1..Len(urlQueue) :
       i # j /\ urlQueue[i].spot.of \notin Exempt /\ urlQueue[i].spot.k # 0
         => urlQueue[i].spot # urlQueue[j].spot

UpInv == UpType /\ FileWhole /\ RunNew /\ Asked /\ Turn /\ FoundKept /\ Once

LEMMA UpStarts == Upload!Init => UpInv
<1> SUFFICES ASSUME Upload!Init PROVE UpInv
  OBVIOUS
<1>. USE DEF Upload!Init
<1>1. <<>> \in Seq(Asks) /\ Len(<<>>) = 0 /\ 1..0 = {}
  OBVIOUS
<1>2. UpType
  <2>1. interval \in Nat \ {0}
    OBVIOUS
  <2>2. freq \in Bands
    BY MCAssumption DEF Upload!UploadAssumption
  <2>. QED
    BY <1>1, <2>1, <2>2, Zenon DEF UpType
<1>3. FileWhole /\ RunNew /\ Turn /\ FoundKept
  BY DEF FileWhole, RunNew, Turn, Listed, FoundKept
<1>4. Asked /\ Once
  BY <1>1 DEF Asked, Once
<1>. QED
  BY <1>2, <1>3, <1>4 DEF UpInv

\* A step that leaves the processes, the file and the requests alone.
upVars == <<interval, p1, file, posted, urlQueue, requests, found, late, finished,
            uploadTimer>>
LEMMA Aside ==
  ASSUME UpInv, UNCHANGED upVars, freq' \in Bands,
         m_dialFreqRxWSPR' \in Bands \cup {None}, saved' \in {"no", "part", "yes"}
  PROVE  UpInv'
<1>1. UNCHANGED <<interval, p1, file, posted, urlQueue, requests, found, late, finished,
                  uploadTimer>>
  BY DEF upVars
<1>2. UpType'
  BY <1>1 DEF UpInv, UpType
<1>3. FileWhole' /\ RunNew' /\ Asked'
  BY <1>1 DEF UpInv, FileWhole, RunNew, Asked, Named, Listed, Quiet
<1>4. Turn' /\ FoundKept' /\ Once'
  BY <1>1 DEF UpInv, Turn, FoundKept, Once, Exempt, Named, Listed, Quiet
<1>. QED
  BY <1>2, <1>3, <1>4 DEF UpInv

LEMMA AsideSteps ==
  ASSUME UpInv,
         \/ Upload!MarkFrequency \/ Upload!save_wave_file \/ Upload!MoveBand
         \/ Upload!Monitor \/ Upload!Other
  PROVE  UpInv'
<1>. USE DEF upVars, UpInv, UpType, Upload!station, Upload!flags, Upload!net, Upload!wsprd
<1>1. CASE Upload!MarkFrequency
  BY <1>1, Aside DEF Upload!MarkFrequency
<1>2. CASE Upload!save_wave_file
  BY <1>2, Aside DEF Upload!save_wave_file
<1>3. CASE Upload!MoveBand
  BY <1>3, Aside DEF Upload!MoveBand
<1>4. CASE Upload!Monitor
  BY <1>4, Aside DEF Upload!Monitor
<1>5. CASE Upload!Other
  BY <1>5, Aside DEF Upload!Other
<1>. QED
  BY <1>1, <1>2, <1>3, <1>4, <1>5

\* The members of the queues and of the file.
LEMMA Members ==
  ASSUME UpType
  PROVE  /\ \A i \in 1..Len(posted) : posted[i] \in Asks /\ posted[i].spot.of \in Nat
         /\ \A i \in 1..Len(urlQueue) : urlQueue[i] \in Asks /\ urlQueue[i].spot.of \in Nat
         /\ \A q \in {posted, urlQueue} : \A i \in 1..Len(q) : q[i].spot.of \in Nat
         /\ file # None => \A n \in 1..Len(file) : file[n] \in Upload!Lines /\ file[n].of \in Nat
         /\ Listed => 1 \in 1..Len(file)
<1>1. ASSUME NEW a \in Asks PROVE a.spot.of \in Nat
  BY DEF Asks, Upload!Lines
<1>2. ASSUME NEW l \in Upload!Lines PROVE l.of \in Nat
  BY DEF Upload!Lines
<1>3. \A i \in 1..Len(posted) : posted[i] \in Asks
  BY DEF UpType
<1>4. \A i \in 1..Len(urlQueue) : urlQueue[i] \in Asks
  BY DEF UpType
<1>5. file # None => \A n \in 1..Len(file) : file[n] \in Upload!Lines
  BY DEF UpType
<1>6. Listed => 1 \in 1..Len(file)
  BY DEF UpType, Listed
<1>. QED
  BY <1>1, <1>2, <1>3, <1>4, <1>5, <1>6, Zenon

\* A process may be started when the one before has gone: for the interval that is over,
\* which is new, or for a recording.
LEMMA StartSteps ==
  ASSUME UpInv, Upload!EndOfInterval \/ Upload!OpenRecording
  PROVE  UpInv'
<1>1. /\ UNCHANGED <<file, posted, urlQueue, requests, found, late, finished,
                     uploadTimer, freq>>
      /\ interval' \in Nat \ {0} /\ interval <= interval'
  <2>1. CASE Upload!EndOfInterval
    BY <2>1 DEF Upload!EndOfInterval, Upload!flags, Upload!net, UpInv, UpType
  <2>2. CASE Upload!OpenRecording
    BY <2>2 DEF Upload!OpenRecording, Upload!station, Upload!net, UpInv, UpType
  <2>. QED
    BY <2>1, <2>2
<1>2. m_dialFreqRxWSPR' \in Bands \cup {None} /\ saved' \in {"no", "part", "yes"}
  BY DEF Upload!EndOfInterval, Upload!OpenRecording, Upload!flags, UpInv, UpType
<1>3. PICK b \in Bands \cup {None}, o \in Nat :
        /\ p1' = IF p1 = None THEN [of |-> o, band |-> b, open |-> "no"] ELSE p1
        /\ (o = interval /\ interval < interval') \/ o = 0
  <2>1. CASE Upload!EndOfInterval
    <3>1. p1' = IF p1 = None THEN [of |-> interval, band |-> m_dialFreqRxWSPR, open |-> "no"] ELSE p1
      BY <2>1 DEF Upload!EndOfInterval, Upload!Start
    <3>2. interval < interval' /\ interval \in Nat /\ m_dialFreqRxWSPR \in Bands \cup {None}
      BY <2>1 DEF Upload!EndOfInterval, UpInv, UpType
    <3>. QED
      BY <3>1, <3>2
  <2>2. CASE Upload!OpenRecording
    <3>1. PICK b \in Bands \cup {None} :
            p1' = IF p1 = None THEN [of |-> 0, band |-> b, open |-> "no"] ELSE p1
      BY <2>2 DEF Upload!OpenRecording, Upload!Start
    <3>. QED
      BY <3>1
  <2>. QED
    BY <2>1, <2>2
<1>4. p1' = None \/ p1' \in Runs
  BY <1>3 DEF UpInv, UpType, Runs
<1>5. UpType'
  BY <1>1, <1>2, <1>4 DEF UpInv, UpType
<1>6. Turn' /\ Once'
  BY <1>1 DEF UpInv, Turn, Once, Exempt, Named, Listed, Quiet
<1>7. FileWhole' /\ Asked'
  <2>1. FileWhole'
    BY <1>1, Members DEF UpInv, UpType, FileWhole
  <2>2. \A q \in {posted, urlQueue} : \A i \in 1..Len(q) : q[i].spot.of \in Nat
    BY Members DEF UpInv
  <2>. QED
    BY <1>1, <2>1, <2>2 DEF UpInv, UpType, Asked
<1>8. FoundKept'
  BY <1>1 DEF UpInv, UpType, FoundKept, Quiet
<1>9. RunNew'
  <2>1. CASE p1 # None
    <3>1. p1' = p1
      BY <1>3, <2>1
    <3>2. p1.of \in Nat
      BY <2>1 DEF UpInv, UpType, Runs
    <3>. QED
      BY <1>1, <2>1, <3>1, <3>2 DEF UpInv, UpType, RunNew, Named, Listed, Quiet
  <2>2. CASE p1 = None
    <3>1. p1'.of = o /\ p1'.open = "no"
      BY <1>3, <2>2
    <3>2. ASSUME o # 0
          PROVE  o = interval /\ interval < interval'
      BY <1>3, <3>2
    <3>3. ASSUME o # 0
          PROVE  ~Named(posted, o) /\ ~Named(urlQueue, o)
      <4>1. \A q \in {posted, urlQueue} : \A i \in 1..Len(q) :
              q[i].spot.k # 0 => q[i].spot.of < interval
        BY DEF UpInv, Asked
      <4>2. \A q \in {posted, urlQueue} : \A i \in 1..Len(q) : q[i].spot.of \in Nat
        BY Members DEF UpInv
      <4>3. \A q \in {posted, urlQueue} : \A i \in 1..Len(q) :
              q[i].spot.k # 0 => q[i].spot.of # o
        BY <3>2, <3>3, <4>1, <4>2
      <4>. QED
        BY <4>3 DEF Named
    <3>4. ASSUME o # 0, Listed
          PROVE  file[1].of # o
      <4>1. 1 \in 1..Len(file) /\ file[1].of \in Nat
        BY <3>4, Members DEF UpInv, Listed
      <4>2. file[1].of < interval
        BY <3>4, <4>1 DEF UpInv, FileWhole, Listed
      <4>. QED
        BY <3>2, <3>4, <4>1, <4>2
    <3>5. o < interval'
      <4>1. interval \in Nat \ {0}
        BY DEF UpInv, UpType
      <4>. QED
        BY <1>1, <1>3, <4>1
    <3>. QED
      BY <1>1, <3>1, <3>3, <3>4, <3>5 DEF RunNew, Named, Listed
  <2>. QED
    BY <2>1, <2>2
<1>. QED
  BY <1>5, <1>6, <1>7, <1>8, <1>9 DEF UpInv

\* wsprd opens the file: nothing of it is left.
LEMMA OpenStep ==
  ASSUME UpInv, Upload!WsprdOpens
  PROVE  UpInv'
<1>1. /\ p1 # None /\ p1 \in Runs /\ p1.open = "no" /\ file' = <<>>
      /\ UNCHANGED <<interval, freq, posted, urlQueue, requests, found, finished,
                     uploadTimer, saved, m_dialFreqRxWSPR>>
  BY DEF Upload!WsprdOpens, Upload!station, Upload!flags, Upload!net, UpInv, UpType
<1>2. /\ late \subseteq late'
      /\ p1.of \notin late' => ~finished /\ ~uploadTimer /\ Quiet
      /\ finished \/ uploadTimer => found.of \in late'
  BY DEF Upload!WsprdOpens, Upload!Over, Quiet
<1>3. p1' = None \/ (p1' \in Runs /\ p1'.of = p1.of)
  <2>1. saved \in {"no", "part", "yes"}
    BY DEF UpInv, UpType
  <2>. QED
    BY <1>1, <2>1 DEF Upload!WsprdOpens, Runs
<1>4. 1..Len(file') = {} /\ ~(Len(file') > 0) /\ file' \in Seq(Upload!Lines)
  BY <1>1
<1>5. UpType'
  BY <1>1, <1>3, <1>4 DEF UpInv, UpType
<1>6. FileWhole' /\ Turn'
  BY <1>4 DEF FileWhole, Turn, Listed
<1>7. Asked' /\ Once'
  <2>1. Exempt \subseteq Exempt'
    BY <1>2 DEF Exempt
  <2>. QED
    BY <1>1, <2>1 DEF UpInv, Asked, Once
<1>8. RunNew'
  <2>1. SUFFICES ASSUME p1' # None PROVE RunNew'
    BY DEF RunNew
  <2>2. p1'.of = p1.of
    BY <1>3, <2>1
  <2>. QED
    BY <1>1, <1>2, <1>4, <2>2 DEF UpInv, RunNew, Named, Listed, Quiet
<1>9. FoundKept'
  BY <1>1, <1>2 DEF FoundKept
<1>. QED
  BY <1>5, <1>6, <1>7, <1>8, <1>9 DEF UpInv

\* wsprd exits: the spots it writes are of an interval of which none was asked for.
LEMMA ExitStep ==
  ASSUME UpInv, Upload!WsprdExits
  PROVE  UpInv'
<1>1. /\ p1 # None /\ p1 \in Runs /\ p1.open # "no" /\ p1' = None /\ finished' = TRUE
      /\ UNCHANGED <<interval, freq, posted, urlQueue, requests, late, uploadTimer, saved,
                     m_dialFreqRxWSPR>>
  BY DEF Upload!WsprdExits, Upload!station, Upload!flags, Upload!net, UpInv, UpType
<1>2. PICK n \in 0..MaxSpots :
        /\ found' = [of |-> p1.of, n |-> n]
        /\ file' = IF file = None THEN None
                   ELSE [k \in 1..n |-> [of |-> p1.of, k |-> k, band |-> p1.band]]
  BY DEF Upload!WsprdExits
<1>3. n \in Nat
  BY MCAssumption DEF Upload!UploadAssumption
<1>. DEFINE line(k) == [of |-> p1.of, k |-> k, band |-> p1.band]
<1>4. ASSUME file # None
      PROVE  /\ file' # None /\ file' \in Seq(Upload!Lines) /\ Len(file') = n
             /\ \A k \in 1..n : file'[k] = line(k)
  <2>1. \A k \in 1..n : line(k) \in Upload!Lines
    BY <1>1, <1>3 DEF Runs, Upload!Lines
  <2>2. file' = [k \in 1..n |-> line(k)]
    BY <1>2, <1>4
  <2>. HIDE DEF line
  <2>3. file' \in Seq(Upload!Lines) /\ Len(file') = n
    BY <1>3, <2>1, <2>2
  <2>4. None \notin Seq(Upload!Lines)
    BY MCAssumption DEF Upload!UploadAssumption
  <2>. QED
    BY <2>2, <2>3, <2>4
<1>5. file = None => file' = None
  BY <1>2
<1>6. UpType'
  BY <1>1, <1>4, <1>5 DEF UpInv, UpType
<1>7. FileWhole'
  <2>1. p1.of < interval
    BY <1>1 DEF UpInv, RunNew
  <2>2. ASSUME file # None, NEW k \in 1..n
        PROVE  /\ (file[k].of)' = (file[1].of)' /\ (file[k].k)' = k
               /\ (file[k].band)' = (file[1].band)' /\ (file[k].of)' < interval
    <3>1. 1 \in 1..n
      BY <1>3
    <3>2. file'[k] = line(k) /\ file'[1] = line(1)
      BY <1>4, <2>2, <3>1
    <3>. QED
      BY <2>1, <3>2
  <2>. QED
    BY <1>1, <1>4, <1>5, <2>2 DEF FileWhole
<1>8. RunNew'
  BY <1>1 DEF RunNew
<1>9. Asked' /\ Once'
  BY <1>1 DEF UpInv, Asked, Once, Exempt
<1>10. Turn'
  <2>1. SUFFICES ASSUME Listed', (file[1].of)' \notin late' PROVE Turn'
    BY DEF Turn
  <2>2. file # None /\ (file[1].of)' = p1.of
    <3>1. file # None
      BY <1>5, <2>1 DEF Listed
    <3>2. 1 \in 1..n
      BY <1>3, <1>4, <2>1, <3>1 DEF Listed
    <3>3. file'[1] = line(1)
      BY <1>4, <3>1, <3>2
    <3>. QED
      BY <3>1, <3>3
  <2>. QED
    BY <1>1, <2>1, <2>2 DEF UpInv, RunNew, Turn, Named, Quiet
<1>11. FoundKept'
  <2>1. found'.of = p1.of /\ found'.n = n
    BY <1>2
  <2>2. SUFFICES ASSUME p1.of \notin late PROVE FoundKept'
    BY <1>1, <2>1 DEF FoundKept
  <2>3. ~uploadTimer /\ Quiet /\ file = <<>>
    BY <1>1, <2>2 DEF UpInv, RunNew
  <2>4. <<>> # None
    <3>1. <<>> \in Seq(Upload!Lines)
      OBVIOUS
    <3>. QED
      BY <3>1, MCAssumption DEF Upload!UploadAssumption
  <2>. QED
    BY <1>1, <1>4, <2>1, <2>3, <2>4 DEF FoundKept, Quiet
<1>. QED
  BY <1>6, <1>7, <1>8, <1>9, <1>10, <1>11 DEF UpInv

\* The end of wsprd is read: its spots wait for uploadTimer, or the file is removed.
LEMMA ReadStep ==
  ASSUME UpInv, Upload!p1ReadFromStdout
  PROVE  UpInv'
<1>1. /\ finished /\ finished' = FALSE
      /\ UNCHANGED <<interval, freq, p1, posted, urlQueue, requests, found, late, saved,
                     m_dialFreqRxWSPR>>
      /\ \/ uploadTimer' = TRUE /\ file' = file
         \/ uploadTimer' = uploadTimer /\ file' = None
  BY DEF Upload!p1ReadFromStdout, Upload!station, Upload!flags, Upload!net
<1>2. UpType'
  BY <1>1 DEF UpInv, UpType
<1>3. FileWhole' /\ Asked' /\ Once'
  BY <1>1 DEF UpInv, FileWhole, Asked, Once, Exempt
<1>4. RunNew'
  BY <1>1 DEF UpInv, RunNew, Named, Listed, Quiet
<1>5. Turn'
  BY <1>1 DEF UpInv, Turn, Named, Listed, Quiet
<1>6. FoundKept'
  BY <1>1 DEF UpInv, FoundKept, Quiet
<1>. QED
  BY <1>2, <1>3, <1>4, <1>5, <1>6 DEF UpInv

----------------------------------------------------------------------------
(* SpotUpload: the requests *)

\* uploadSpots puts at the end of what is left of the queue either the report that there is
\* nothing, or the spots of the file, or nothing at all.
Left(left) == left = urlQueue \/ left = <<>>
Nothing(q, left) ==
  /\ Len(q) = Len(left) + 1 /\ \A i \in 1..Len(left) : q[i] = left[i]
  /\ q[Len(left) + 1].spot.k = 0
Spots(q, left) ==
  /\ Listed /\ file[1].band = m_dialFreqRxWSPR
  /\ Len(q) = Len(left) + Len(file) /\ \A i \in 1..Len(left) : q[i] = left[i]
  /\ \A i \in 1..Len(q) : i \notin 1..Len(left) =>
       /\ i - Len(left) \in 1..Len(file)
       /\ q[i].spot = file[i - Len(left)] /\ q[i].rfreq = m_dialFreqRxWSPR
  /\ \A n \in 1..Len(file) : q[Len(left) + n].spot = file[n]

LEMMA UploadEffect ==
  ASSUME UpInv, Upload!uploadSpots
  PROVE  \/ UNCHANGED <<urlQueue, requests>>
         \/ /\ requests' = requests \/ requests' = <<>>
            /\ urlQueue' \in Seq(Asks)
            /\ \E left \in Seq(Asks) :
                 /\ Left(left)
                 /\ \/ Nothing(urlQueue', left) /\ ~Listed
                    \/ Spots(urlQueue', left)
                    \/ urlQueue' = left
<1>1. CASE m_diskData \/ ~online
  BY <1>1 DEF Upload!uploadSpots, Upload!net
<1>2. CASE ~(m_diskData \/ ~online)
  <2>. DEFINE left == IF m_uploading THEN <<>> ELSE urlQueue
  <2>0. left = Upload!Unaborted(urlQueue)
    BY DEF Upload!Unaborted
  <2>1. /\ requests' = IF m_uploading THEN <<>> ELSE requests
        /\ IF file \in {None, <<>>} THEN urlQueue' = Append(left, Upload!Request(Upload!NoSpot))
           ELSE urlQueue' = left \o [n \in 1..Len(Upload!Fitting) |-> Upload!Request(Upload!Fitting[n])]
    BY <1>2, <2>0 DEF Upload!uploadSpots, Upload!Unaborted
  <2>2. left \in Seq(Asks) /\ Left(left)
    BY DEF UpInv, UpType, Left
  <2>3. requests' = requests \/ requests' = <<>>
    BY <2>1
  <2>. HIDE DEF left
  <2>4. CASE file \in {None, <<>>}
    <3>. DEFINE none == Upload!Request(Upload!NoSpot)
    <3>1. none \in Asks /\ none.spot.k = 0
      <4>1. interval - 1 \in Nat
        BY DEF UpInv, UpType
      <4>. QED
        BY <4>1 DEF Upload!Request, Upload!NoSpot, Asks, Upload!Lines, UpInv, UpType
    <3>2. urlQueue' = Append(left, none)
      BY <2>1, <2>4
    <3>. HIDE DEF none
    <3>3. urlQueue' \in Seq(Asks) /\ Nothing(urlQueue', left)
      BY <2>2, <3>1, <3>2 DEF Nothing
    <3>4. ~Listed
      BY <2>4 DEF Listed
    <3>. QED
      BY <2>2, <2>3, <3>3, <3>4
  <2>5. CASE file \notin {None, <<>>}
    <3>1. file \in Seq(Upload!Lines) /\ file # <<>> /\ file # None
      BY <2>5 DEF UpInv, UpType
    <3>2. Listed /\ Len(file) \in Nat
      BY <3>1 DEF Listed
    <3>. DEFINE new == [n \in 1..Len(Upload!Fitting) |-> Upload!Request(Upload!Fitting[n])]
    <3>3. urlQueue' = left \o new
      BY <2>1, <2>5
    <3>4. CASE ~(file[1].band = m_dialFreqRxWSPR)
      <4>1. Upload!Fitting = <<>>
        BY <3>4 DEF Upload!Fitting, Upload!Fits
      <4>2. new = <<>>
        BY <4>1
      <4>. HIDE DEF new
      <4>3. urlQueue' = left
        BY <2>2, <3>3, <4>2
      <4>. QED
        BY <2>2, <2>3, <4>3
    <3>5. CASE file[1].band = m_dialFreqRxWSPR
      <4>1. Upload!Fitting = file
        BY <3>5 DEF Upload!Fitting, Upload!Fits
      <4>2. \A n \in 1..Len(file) : file[n] \in Upload!Lines
        BY <3>1
      <4>3. \A n \in 1..Len(file) : new[n] = [spot |-> file[n], rfreq |-> m_dialFreqRxWSPR]
        BY <4>1 DEF Upload!Request
      <4>4. \A n \in 1..Len(file) : new[n] \in Asks
        <5>1. m_dialFreqRxWSPR \in Bands \cup {None}
          BY DEF UpInv, UpType
        <5>2. ASSUME NEW l \in Upload!Lines
              PROVE  [spot |-> l, rfreq |-> m_dialFreqRxWSPR] \in Asks
          BY <5>1 DEF Asks
        <5>. HIDE DEF new
        <5>. QED
          BY <4>2, <4>3, <5>2
      <4>5. new = [n \in 1..Len(file) |-> new[n]]
        BY <4>1
      <4>. HIDE DEF new
      <4>6. new \in Seq(Asks) /\ Len(new) = Len(file)
        BY <3>2, <4>4, <4>5
      <4>7. urlQueue' \in Seq(Asks) /\ Len(urlQueue') = Len(left) + Len(file)
            /\ Len(left) \in Nat
        <5>1. urlQueue' \in Seq(Asks)
          BY <2>2, <3>3, <4>6
        <5>2. Len(left) \in Nat
          BY <2>2
        <5>3. Len(urlQueue') = Len(left) + Len(new)
          <6>1. Len(left \o new) = Len(left) + Len(new)
            BY <2>2, <4>6
          <6>. QED
            BY <3>3, <6>1
        <5>. QED
          BY <4>6, <5>1, <5>2, <5>3
      <4>8. \A i \in 1..Len(left) : urlQueue'[i] = left[i]
        BY <2>2, <3>3, <4>6
      <4>9. \A n \in 1..Len(file) : urlQueue'[Len(left) + n] = new[n]
        BY <2>2, <3>2, <3>3, <4>6
      <4>10. ASSUME NEW i \in 1..Len(urlQueue'), i \notin 1..Len(left)
             PROVE  i - Len(left) \in 1..Len(file) /\ i = Len(left) + (i - Len(left))
        BY <3>2, <4>7, <4>10
      <4>11. Spots(urlQueue', left)
        <5>1. ASSUME NEW n \in 1..Len(file)
              PROVE  /\ urlQueue'[Len(left) + n].spot = file[n]
                     /\ urlQueue'[Len(left) + n].rfreq = m_dialFreqRxWSPR
          <6>1. new[n].spot = file[n] /\ new[n].rfreq = m_dialFreqRxWSPR
            <7>. DEFINE r == [spot |-> file[n], rfreq |-> m_dialFreqRxWSPR]
            <7>1. new[n] = r
              BY <4>3, Zenon
            <7>2. r.spot = file[n] /\ r.rfreq = m_dialFreqRxWSPR
              OBVIOUS
            <7>. HIDE DEF r
            <7>. QED
              BY <7>1, <7>2
          <6>2. urlQueue'[Len(left) + n] = new[n]
            BY <4>9
          <6>. QED
            BY <6>1, <6>2
        <5>2. ASSUME NEW i \in 1..Len(urlQueue'), i \notin 1..Len(left)
              PROVE  /\ i - Len(left) \in 1..Len(file)
                     /\ urlQueue'[i].spot = file[i - Len(left)]
                     /\ urlQueue'[i].rfreq = m_dialFreqRxWSPR
          <6>1. i - Len(left) \in 1..Len(file) /\ i = Len(left) + (i - Len(left))
            BY <4>10, <5>2
          <6>. QED
            BY <5>1, <6>1
        <5>. QED
          BY <3>2, <3>5, <4>7, <4>8, <5>1, <5>2 DEF Spots
      <4>. QED
        BY <2>2, <2>3, <4>7, <4>11
    <3>. QED
      BY <3>4, <3>5
  <2>. QED
    BY <2>4, <2>5
<1>. QED
  BY <1>1, <1>2

\* A spot is uploaded while it is waited for: none of its interval was asked for.
LEMMA QueueStep ==
  ASSUME UpInv, Upload!uploadSpots
  PROVE  UpInv'
<1>1. /\ uploadTimer /\ uploadTimer' = FALSE
      /\ UNCHANGED <<interval, freq, p1, file, posted, found, late, finished, saved,
                     m_dialFreqRxWSPR>>
  BY DEF Upload!uploadSpots, Upload!station, Upload!flags, Upload!wsprd
<1>2. FileWhole'
  BY <1>1 DEF UpInv, FileWhole
<1>3. FoundKept'
  BY <1>1 DEF UpInv, FoundKept
<1>4. CASE UNCHANGED <<urlQueue, requests>>
  <2>1. UpType'
    BY <1>1, <1>4 DEF UpInv, UpType
  <2>2. RunNew' /\ Asked' /\ Once'
    BY <1>1, <1>4 DEF UpInv, RunNew, Asked, Once, Exempt, Named, Listed, Quiet
  <2>3. Turn'
    BY <1>1, <1>4 DEF UpInv, Turn, Named, Listed, Quiet
  <2>. QED
    BY <1>2, <1>3, <2>1, <2>2, <2>3 DEF UpInv
<1>5. CASE ~ UNCHANGED <<urlQueue, requests>>
  <2>1. /\ requests' = requests \/ requests' = <<>>
        /\ urlQueue' \in Seq(Asks)
    BY <1>5, UploadEffect
  <2>2. PICK left \in Seq(Asks) :
          /\ Left(left)
          /\ \/ Nothing(urlQueue', left) /\ ~Listed
             \/ Spots(urlQueue', left)
             \/ urlQueue' = left
    BY <1>5, UploadEffect
  <2>3. UpType'
    BY <1>1, <2>1 DEF UpInv, UpType
  <2>4. Len(left) \in Nat /\ \A i \in 1..Len(left) : i \in 1..Len(urlQueue) /\ left[i] = urlQueue[i]
    BY <2>2 DEF Left
  \* An entry of the new queue is an old one, a report of nothing, or a spot of the file.
  <2>5. ASSUME NEW i \in 1..Len(urlQueue')
        PROVE  \/ i \in 1..Len(urlQueue) /\ urlQueue'[i] = urlQueue[i] /\ i \in 1..Len(left)
               \/ urlQueue'[i].spot.k = 0 /\ i \notin 1..Len(left)
                  /\ \A j \in 1..Len(urlQueue') : j \notin 1..Len(left) => j = i
               \/ /\ Spots(urlQueue', left) /\ i - Len(left) \in 1..Len(file)
                  /\ i \notin 1..Len(left) /\ urlQueue'[i].spot = file[i - Len(left)]
                  /\ urlQueue'[i].rfreq = m_dialFreqRxWSPR
    <3>1. CASE Nothing(urlQueue', left)
      <4>1. i \notin 1..Len(left) => i = Len(left) + 1
        BY <2>4, <3>1 DEF Nothing
      <4>2. \A j \in 1..Len(urlQueue') : j \notin 1..Len(left) => j = Len(left) + 1
        BY <2>4, <3>1 DEF Nothing
      <4>. QED
        BY <2>4, <3>1, <4>1, <4>2 DEF Nothing
    <3>2. CASE Spots(urlQueue', left)
      BY <2>4, <3>2 DEF Spots
    <3>3. CASE urlQueue' = left
      BY <2>4, <3>3
    <3>. QED
      BY <2>2, <3>1, <3>2, <3>3
  \* What is known of the file's spots.
  <2>6. ASSUME Listed, NEW n \in 1..Len(file)
        PROVE  /\ file[n].of = file[1].of /\ file[n].k = n /\ n # 0 /\ file[n].band = file[1].band
               /\ file[n].of < interval
               /\ file[1].of \notin Exempt => Quiet /\ ~Named(posted, file[1].of) /\ ~finished
    <3>1. n # 0
      OBVIOUS
    <3>2. file[n].of = file[1].of /\ file[n].k = n /\ file[n].band = file[1].band
          /\ file[n].of < interval
      BY <2>6 DEF UpInv, FileWhole, Listed
    <3>3. file[1].of \notin Exempt => Quiet /\ ~Named(posted, file[1].of) /\ ~finished
      BY <1>1, <2>6 DEF UpInv, Turn, Exempt
    <3>. QED
      BY <3>1, <3>2, <3>3
  <2>7. Asked'
    <3>1. ASSUME NEW i \in 1..Len(urlQueue'), urlQueue'[i].spot.k # 0
          PROVE  urlQueue'[i].spot.of < interval /\ urlQueue'[i].rfreq = urlQueue'[i].spot.band
      <4>1. CASE i \in 1..Len(urlQueue) /\ urlQueue'[i] = urlQueue[i]
        BY <3>1, <4>1 DEF UpInv, Asked
      <4>2. CASE /\ Spots(urlQueue', left) /\ i - Len(left) \in 1..Len(file)
                 /\ urlQueue'[i].spot = file[i - Len(left)]
                 /\ urlQueue'[i].rfreq = m_dialFreqRxWSPR
        BY <2>6, <4>2 DEF Spots
      <4>. QED
        BY <2>5, <3>1, <4>1, <4>2
    <3>2. \A i \in 1..Len(posted) : posted[i].spot.k # 0 =>
            posted[i].spot.of < interval /\ posted[i].rfreq = posted[i].spot.band
      BY DEF UpInv, Asked
    <3>3. \A i \in 1..Len(posted) : posted[i].spot.k # 0
      BY DEF UpInv, Asked
    <3>. QED
      BY <1>1, <3>1, <3>2, <3>3, Zenon DEF Asked
  <2>8. RunNew'
    <3>1. SUFFICES ASSUME p1 # None PROVE RunNew'
      BY <1>1 DEF RunNew
    <3>2. ASSUME p1.of # 0
          PROVE  ~Named(urlQueue', p1.of)
      <4>1. ~Named(urlQueue, p1.of) /\ (Listed => file[1].of # p1.of)
        BY <1>1, <3>1, <3>2 DEF UpInv, RunNew
      <4>2. ASSUME NEW i \in 1..Len(urlQueue'), urlQueue'[i].spot.k # 0,
                   urlQueue'[i].spot.of = p1.of
            PROVE  FALSE
        <5>1. CASE i \in 1..Len(urlQueue) /\ urlQueue'[i] = urlQueue[i]
          BY <4>1, <4>2, <5>1 DEF Named
        <5>2. CASE /\ Spots(urlQueue', left) /\ i - Len(left) \in 1..Len(file)
                   /\ urlQueue'[i].spot = file[i - Len(left)]
          BY <2>6, <4>1, <4>2, <5>2 DEF Spots
        <5>. QED
          BY <2>5, <4>2, <5>1, <5>2
      <4>. QED
        BY <4>1, <4>2 DEF Named
    <3>3. p1.open # "no" => p1.of \in late
      BY <1>1, <3>1 DEF UpInv, RunNew
    <3>. QED
      BY <1>1, <3>1, <3>2, <3>3 DEF UpInv, RunNew, Named, Listed
  <2>9. Turn'
    <3>1. SUFFICES ASSUME Listed, file[1].of \notin late PROVE Turn'
      BY <1>1 DEF Turn, Listed
    <3>2. Quiet /\ ~finished
      BY <1>1, <3>1 DEF UpInv, Turn
    <3>3. left = <<>> /\ Len(left) = 0 /\ requests' = <<>>
      BY <2>1, <2>2, <3>2 DEF Left, Quiet
    <3>4. CASE urlQueue' = left
      BY <1>1, <3>2, <3>3, <3>4 DEF Turn, Quiet
    <3>5. CASE Spots(urlQueue', left)
      <4>1. ASSUME NEW n \in 1..Len(file)
            PROVE  \E i \in 1..Len(urlQueue') : urlQueue'[i].spot = file[n]
        <5>1. 0 + n = n /\ n \in 1..Len(urlQueue')
          BY <3>3, <3>5, Members DEF Spots, UpInv, UpType
        <5>2. urlQueue'[n].spot = file[n]
          BY <3>3, <3>5, <5>1 DEF Spots
        <5>. QED
          BY <5>1, <5>2
      <4>. QED
        BY <1>1, <3>2, <4>1 DEF Turn
    <3>. QED
      BY <2>2, <3>1, <3>4, <3>5
  <2>10. Once'
    <3>1. \A i, j \in 1..Len(posted) :
            i # j /\ posted[i].spot.of \notin Exempt => posted[i].spot # posted[j].spot
      BY DEF UpInv, Once
    <3>2. ASSUME NEW i \in 1..Len(posted), NEW j \in 1..Len(urlQueue'), posted[i].spot.of \notin Exempt
          PROVE  posted[i].spot # urlQueue'[j].spot
      <4>1. posted[i].spot.k # 0
        BY DEF UpInv, Asked
      <4>2. CASE j \in 1..Len(urlQueue) /\ urlQueue'[j] = urlQueue[j]
        BY <3>2, <4>2 DEF UpInv, Once
      <4>3. CASE urlQueue'[j].spot.k = 0
        BY <4>1, <4>3
      <4>4. CASE /\ Spots(urlQueue', left) /\ j - Len(left) \in 1..Len(file)
                 /\ urlQueue'[j].spot = file[j - Len(left)]
        <5>1. Listed /\ file[j - Len(left)].of = file[1].of
          BY <2>6, <4>4 DEF Spots
        <5>2. file[1].of \notin Exempt => posted[i].spot.of # file[1].of
          BY <2>6, <4>1, <4>4, <5>1 DEF Named
        <5>. QED
          BY <3>2, <4>4, <5>1, <5>2
      <4>. QED
        BY <2>5, <4>2, <4>3, <4>4
    <3>3. ASSUME NEW i \in 1..Len(urlQueue'), NEW j \in 1..Len(urlQueue'), i # j,
                 urlQueue'[i].spot.of \notin Exempt, urlQueue'[i].spot.k # 0
          PROVE  urlQueue'[i].spot # urlQueue'[j].spot
      <4>1. CASE i \in 1..Len(left) /\ j \in 1..Len(left)
        <5>1. urlQueue'[i] = urlQueue[i] /\ urlQueue'[j] = urlQueue[j]
              /\ i \in 1..Len(urlQueue) /\ j \in 1..Len(urlQueue)
          BY <2>5, <4>1
        <5>. QED
          BY <3>3, <5>1 DEF UpInv, Once
      <4>2. CASE i \notin 1..Len(left) /\ j \notin 1..Len(left)
        <5>1. /\ Spots(urlQueue', left)
              /\ i - Len(left) \in 1..Len(file) /\ urlQueue'[i].spot = file[i - Len(left)]
          BY <2>5, <3>3, <4>2
        <5>2. \/ urlQueue'[j].spot.k = 0
              \/ j - Len(left) \in 1..Len(file) /\ urlQueue'[j].spot = file[j - Len(left)]
          BY <2>5, <3>3, <4>2
        <5>3. Listed /\ i - Len(left) # j - Len(left)
          BY <2>4, <3>3, <5>1 DEF Spots
        <5>4. ASSUME NEW n \in 1..Len(file), NEW m \in 1..Len(file), n # m
              PROVE  file[n] # file[m]
          BY <2>6, <5>3, <5>4
        <5>. QED
          BY <3>3, <5>1, <5>2, <5>3, <5>4
      \* Spots of a file and spots left from before: then the file is late, or a recording's.
      <4>3. ASSUME Spots(urlQueue', left), NEW a \in 1..Len(urlQueue'), a \in 1..Len(left)
            PROVE  Listed /\ file[1].of \in Exempt
        <5>1. Listed /\ left # <<>>
          BY <2>2, <4>3 DEF Spots
        <5>2. ~Quiet
          BY <2>2, <5>1 DEF Left, Quiet
        <5>3. 1 \in 1..Len(file)
          BY <5>1, Members DEF UpInv
        <5>. QED
          BY <2>6, <5>1, <5>2, <5>3
      <4>4. CASE i \in 1..Len(left) /\ j \notin 1..Len(left)
        <5>1. CASE urlQueue'[j].spot.k = 0
          BY <3>3, <5>1
        <5>2. CASE /\ Spots(urlQueue', left) /\ j - Len(left) \in 1..Len(file)
                   /\ urlQueue'[j].spot = file[j - Len(left)]
          <6>1. Listed /\ file[1].of \in Exempt
            BY <4>3, <4>4, <5>2
          <6>2. urlQueue'[j].spot.of \in Exempt
            BY <2>6, <5>2, <6>1
          <6>. QED
            BY <3>3, <6>2
        <5>. QED
          BY <2>5, <4>4, <5>1, <5>2
      <4>5. CASE i \notin 1..Len(left) /\ j \in 1..Len(left)
        <5>1. /\ Spots(urlQueue', left) /\ i - Len(left) \in 1..Len(file)
              /\ urlQueue'[i].spot = file[i - Len(left)]
          BY <2>5, <3>3, <4>5
        <5>2. Listed /\ file[1].of \in Exempt
          BY <4>3, <4>5, <5>1
        <5>3. urlQueue'[i].spot.of \in Exempt
          BY <2>6, <5>1, <5>2
        <5>. QED
          BY <3>3, <5>3
      <4>. QED
        BY <4>1, <4>2, <4>4, <4>5
    <3>. QED
      BY <1>1, <3>1, <3>2, <3>3 DEF Once, Exempt
  <2>. QED
    BY <1>2, <1>3, <2>3, <2>7, <2>8, <2>9, <2>10 DEF UpInv
<1>. QED
  BY <1>4, <1>5

\* A request goes out: the spot moves from the queue to those asked for.
LEMMA WorkStep ==
  ASSUME UpInv, Upload!work
  PROVE  UpInv'
<1>1. UNCHANGED <<interval, freq, p1, file, found, late, finished, uploadTimer, saved,
                  m_dialFreqRxWSPR>>
  BY DEF Upload!work, Upload!station, Upload!flags, Upload!wsprd
<1>2. CASE urlQueue = <<>>
  <2>1. UNCHANGED upVars
    BY <1>1, <1>2 DEF Upload!work, upVars
  <2>. QED
    BY <1>1, <2>1, Aside DEF UpInv, UpType
<1>3. CASE urlQueue # <<>>
  <2>. DEFINE first == Head(urlQueue)
  <2>1. /\ urlQueue' = Tail(urlQueue)
        /\ posted' = IF first.spot.k = 0 THEN posted ELSE Append(posted, first)
    BY <1>3 DEF Upload!work
  <2>2. /\ first \in Asks /\ first = urlQueue[1] /\ 1 \in 1..Len(urlQueue)
        /\ urlQueue' \in Seq(Asks) /\ Len(urlQueue') = Len(urlQueue) - 1
        /\ \A i \in 1..Len(urlQueue') : i + 1 \in 1..Len(urlQueue) /\ urlQueue'[i] = urlQueue[i + 1]
    BY <1>3, <2>1 DEF UpInv, UpType
  <2>3. \A i \in 1..Len(urlQueue) : i = 1 \/ (i - 1 \in 1..Len(urlQueue') /\ urlQueue'[i - 1] = urlQueue[i])
    BY <2>2
  <2>. HIDE DEF first
  <2>4. /\ posted' \in Seq(Asks)
        /\ \A i \in 1..Len(posted) : i \in 1..Len(posted') /\ posted'[i] = posted[i]
        /\ first.spot.k # 0 => \E i \in 1..Len(posted') : posted'[i] = first
    <3>1. CASE first.spot.k = 0
      BY <2>1, <3>1 DEF UpInv, UpType
    <3>2. CASE first.spot.k # 0
      <4>1. posted' = Append(posted, first) /\ posted \in Seq(Asks)
        BY <2>1, <3>2 DEF UpInv, UpType
      <4>2. Len(posted) + 1 \in 1..Len(posted') /\ posted'[Len(posted) + 1] = first
        BY <2>2, <4>1
      <4>3. posted' \in Seq(Asks) /\ \A i \in 1..Len(posted) : i \in 1..Len(posted') /\ posted'[i] = posted[i]
        BY <2>2, <4>1
      <4>. QED
        BY <4>2, <4>3
    <3>. QED
      BY <3>1, <3>2
  <2>5. ASSUME NEW i \in 1..Len(posted')
        PROVE  \/ i \in 1..Len(posted) /\ posted'[i] = posted[i]
               \/ first.spot.k # 0 /\ i = Len(posted) + 1 /\ posted'[i] = first
    BY <2>1, <2>2 DEF UpInv, UpType
  <2>6. UpType'
    BY <1>1, <2>2, <2>4 DEF UpInv, UpType
  <2>7. FileWhole'
    BY <1>1 DEF UpInv, FileWhole
  <2>8. FoundKept'
    BY <1>1, <1>3 DEF UpInv, FoundKept, Quiet
  <2>9. RunNew'
    <3>1. SUFFICES ASSUME p1 # None PROVE RunNew'
      BY <1>1 DEF RunNew
    <3>2. ASSUME p1.of # 0
          PROVE  ~Named(posted', p1.of) /\ ~Named(urlQueue', p1.of)
      <4>1. ~Named(urlQueue, p1.of) /\ ~Named(posted, p1.of)
        BY <3>1, <3>2 DEF UpInv, RunNew
      <4>2. ~Named(urlQueue', p1.of)
        BY <2>2, <4>1 DEF Named
      <4>3. ~Named(posted', p1.of)
        BY <2>2, <2>5, <4>1 DEF Named
      <4>. QED
        BY <4>1, <4>2, <4>3
    <3>3. p1.open # "no" => p1.of \in late
      BY <1>3, <3>1 DEF UpInv, RunNew, Quiet
    <3>. QED
      BY <1>1, <3>1, <3>2, <3>3 DEF UpInv, RunNew, Listed
  <2>10. Asked'
    <3>1. \A i \in 1..Len(urlQueue) : urlQueue[i].spot.k # 0 =>
            urlQueue[i].spot.of < interval /\ urlQueue[i].rfreq = urlQueue[i].spot.band
      BY DEF UpInv, Asked
    <3>2. \A i \in 1..Len(posted) :
            /\ posted[i].spot.k # 0
            /\ posted[i].spot.of < interval /\ posted[i].rfreq = posted[i].spot.band
      BY DEF UpInv, Asked
    <3>3. \A i \in 1..Len(urlQueue') : urlQueue'[i].spot.k # 0 =>
            urlQueue'[i].spot.of < interval /\ urlQueue'[i].rfreq = urlQueue'[i].spot.band
      BY <2>2, <3>1
    <3>4. \A i \in 1..Len(posted') :
            /\ posted'[i].spot.k # 0
            /\ posted'[i].spot.of < interval /\ posted'[i].rfreq = posted'[i].spot.band
      BY <2>2, <2>5, <3>1, <3>2
    <3>. QED
      BY <1>1, <3>3, <3>4, Zenon DEF Asked
  <2>11. Turn'
    <3>1. SUFFICES ASSUME Listed, file[1].of \notin late PROVE Turn'
      BY <1>1 DEF Turn, Listed
    <3>2. /\ ~finished /\ ~uploadTimer
          /\ \A n \in 1..Len(file) :
               \/ \E i \in 1..Len(posted) : posted[i].spot = file[n]
               \/ \E i \in 1..Len(urlQueue) : urlQueue[i].spot = file[n]
      BY <1>3, <3>1 DEF UpInv, Turn, Quiet
    <3>3. ASSUME NEW n \in 1..Len(file)
          PROVE  \/ \E i \in 1..Len(posted') : posted'[i].spot = file[n]
                 \/ \E i \in 1..Len(urlQueue') : urlQueue'[i].spot = file[n]
      <4>1. CASE \E i \in 1..Len(posted) : posted[i].spot = file[n]
        BY <2>4, <4>1
      <4>2. CASE \E i \in 1..Len(urlQueue) : urlQueue[i].spot = file[n]
        <5>1. PICK i \in 1..Len(urlQueue) : urlQueue[i].spot = file[n]
          BY <4>2
        <5>2. CASE i = 1
          <6>1. file[n].k = n /\ n # 0
            BY <3>1 DEF UpInv, FileWhole, Listed
          <6>. QED
            BY <2>2, <2>4, <5>1, <5>2, <6>1
        <5>3. CASE i # 1
          BY <2>3, <5>1, <5>3
        <5>. QED
          BY <5>2, <5>3
      <4>. QED
        BY <3>2, <4>1, <4>2
    <3>. QED
      BY <1>1, <3>2, <3>3 DEF Turn
  <2>12. Once'
    <3>1. ASSUME NEW i \in 1..Len(posted'), NEW j \in 1..Len(posted'), i # j,
                 posted'[i].spot.of \notin Exempt
          PROVE  posted'[i].spot # posted'[j].spot
      <4>1. CASE i \in 1..Len(posted) /\ j \in 1..Len(posted)
        BY <2>4, <3>1, <4>1 DEF UpInv, Once
      <4>2. CASE i \in 1..Len(posted) /\ j \notin 1..Len(posted)
        BY <2>2, <2>4, <2>5, <3>1, <4>2 DEF UpInv, Once
      <4>3. CASE i \notin 1..Len(posted) /\ j \in 1..Len(posted)
        <5>1. posted'[i] = urlQueue[1] /\ posted'[j] = posted[j]
          BY <2>2, <2>4, <2>5, <4>3
        <5>2. posted[j].spot.of \notin Exempt => posted[j].spot # urlQueue[1].spot
          BY <2>2, <4>3 DEF UpInv, Once
        <5>. QED
          BY <3>1, <5>1, <5>2
      <4>4. CASE i \notin 1..Len(posted) /\ j \notin 1..Len(posted)
        BY <2>5, <3>1, <4>4
      <4>. QED
        BY <4>1, <4>2, <4>3, <4>4
    <3>2. ASSUME NEW i \in 1..Len(posted'), NEW j \in 1..Len(urlQueue'),
                 posted'[i].spot.of \notin Exempt
          PROVE  posted'[i].spot # urlQueue'[j].spot
      <4>1. j + 1 \in 1..Len(urlQueue) /\ urlQueue'[j] = urlQueue[j + 1] /\ 1 # j + 1
        BY <2>2
      <4>2. CASE i \in 1..Len(posted)
        BY <2>4, <3>2, <4>1, <4>2 DEF UpInv, Once
      <4>3. CASE i \notin 1..Len(posted)
        <5>1. posted'[i] = urlQueue[1] /\ urlQueue[1].spot.k # 0
          BY <2>2, <2>5, <4>3
        <5>. QED
          BY <2>2, <3>2, <4>1, <5>1 DEF UpInv, Once
      <4>. QED
        BY <4>2, <4>3
    <3>3. ASSUME NEW i \in 1..Len(urlQueue'), NEW j \in 1..Len(urlQueue'), i # j,
                 urlQueue'[i].spot.of \notin Exempt, urlQueue'[i].spot.k # 0
          PROVE  urlQueue'[i].spot # urlQueue'[j].spot
      <4>1. /\ i + 1 \in 1..Len(urlQueue) /\ urlQueue'[i] = urlQueue[i + 1]
            /\ j + 1 \in 1..Len(urlQueue) /\ urlQueue'[j] = urlQueue[j + 1] /\ i + 1 # j + 1
        BY <2>2, <3>3
      <4>. QED
        BY <3>3, <4>1 DEF UpInv, Once
    <3>. QED
      BY <1>1, <3>1, <3>2, <3>3 DEF Once, Exempt
  <2>. QED
    BY <2>6, <2>7, <2>8, <2>9, <2>10, <2>11, <2>12 DEF UpInv
<1>. QED
  BY <1>2, <1>3

\* An answer: the file goes when the last spot of it has been asked for, or with a refusal.
LEMMA ReplyStep ==
  ASSUME UpInv, Upload!networkReply
  PROVE  UpInv'
<1>1. /\ UNCHANGED <<interval, freq, p1, posted, found, late, finished, uploadTimer, saved,
                     m_dialFreqRxWSPR>>
      /\ requests # <<>>
      /\ urlQueue' = urlQueue \/ (urlQueue' = <<>> /\ file' = None)
      /\ file' = file \/ file' = None
  <2>1. UNCHANGED <<interval, freq, p1, posted, found, late, finished, uploadTimer, saved,
                    m_dialFreqRxWSPR>>
    BY DEF Upload!networkReply, Upload!station, Upload!flags, Upload!wsprd
  <2>2. PICK n \in DOMAIN requests : Upload!Failed(n) \/ Upload!Accepted(n) \/ Upload!Refused(n)
    BY DEF Upload!networkReply
  <2>3. requests # <<>>
    BY <2>2
  <2>. QED
    BY <2>1, <2>2, <2>3 DEF Upload!Failed, Upload!Accepted, Upload!Refused
<1>2. /\ urlQueue' \in Seq(Asks)
      /\ \A i \in 1..Len(urlQueue') : i \in 1..Len(urlQueue) /\ urlQueue'[i] = urlQueue[i]
  <2>1. CASE urlQueue' = urlQueue
    BY <2>1 DEF UpInv, UpType
  <2>2. CASE urlQueue' = <<>>
    <3>1. 1..Len(<<>>) = {}
      OBVIOUS
    <3>2. <<>> \in Seq(Asks)
      OBVIOUS
    <3>. QED
      BY <2>2, <3>1, <3>2, Zenon
  <2>. QED
    BY <1>1, <2>1, <2>2
<1>3. UpType'
  BY <1>1, <1>2 DEF UpInv, UpType
<1>4. FileWhole' /\ FoundKept'
  BY <1>1 DEF UpInv, FileWhole, FoundKept, Quiet
<1>5. RunNew'
  <2>1. ~Quiet
    BY <1>1 DEF Quiet
  <2>2. ASSUME NEW o PROVE ~Named(urlQueue, o) => ~Named(urlQueue', o)
    BY <1>2 DEF Named
  <2>3. Listed' => Listed /\ file' = file
    BY <1>1 DEF Listed
  <2>. QED
    BY <1>1, <2>1, <2>2, <2>3 DEF UpInv, RunNew, Named
<1>6. Asked'
  <2>1. \A i \in 1..Len(urlQueue) : urlQueue[i].spot.k # 0 =>
          urlQueue[i].spot.of < interval /\ urlQueue[i].rfreq = urlQueue[i].spot.band
    BY DEF UpInv, Asked
  <2>2. \A i \in 1..Len(posted) :
          /\ posted[i].spot.k # 0
          /\ posted[i].spot.of < interval /\ posted[i].rfreq = posted[i].spot.band
    BY DEF UpInv, Asked
  <2>3. \A i \in 1..Len(urlQueue') : urlQueue'[i].spot.k # 0 =>
          urlQueue'[i].spot.of < interval /\ urlQueue'[i].rfreq = urlQueue'[i].spot.band
    BY <1>2, <2>1
  <2>. QED
    BY <1>1, <2>2, <2>3, Zenon DEF Asked
<1>7. Turn'
  <2>1. SUFFICES ASSUME file' = file, Listed, file[1].of \notin late PROVE Turn'
    BY <1>1 DEF Turn, Listed
  <2>2. /\ ~finished /\ ~uploadTimer
        /\ \A n \in 1..Len(file) :
             \/ \E i \in 1..Len(posted) : posted[i].spot = file[n]
             \/ \E i \in 1..Len(urlQueue) : urlQueue[i].spot = file[n]
    BY <1>1, <2>1 DEF UpInv, Turn, Quiet
  <2>3. urlQueue' = urlQueue
    BY <1>1, <2>1 DEF Listed
  <2>. QED
    BY <1>1, <2>1, <2>2, <2>3 DEF Turn
<1>8. Once'
  BY <1>1, <1>2 DEF UpInv, Once, Exempt
<1>. QED
  BY <1>3, <1>4, <1>5, <1>6, <1>7, <1>8 DEF UpInv

LEMMA UpSteps ==
  ASSUME UpInv, Upload!Next
  PROVE  UpInv'
BY AsideSteps, StartSteps, OpenStep, ExitStep, ReadStep, QueueStep, WorkStep, ReplyStep
   DEF Upload!Next

----------------------------------------------------------------------------
(* Band hopping (WsprHopping).  What is sent for a hop goes out on its band  *)
(* because freq stays on the row of the last hop, and on the band the plan   *)
(* was made for, until the band is moved by hand.                            *)
OnRow == old_row # None /\ byHand = "no" => freq = old_row
OnPlan == plan # None /\ byHand = "no" => freq = plan
HopInv == OnRow /\ OnPlan /\ Hop!OnHoppedBand

LEMMA HopStarts ==
  ASSUME Hop!Init
  PROVE  HopInv
BY DEF Hop!Init, Hop!Nothing, Hop!OnHoppedBand, HopInv, OnRow, OnPlan

\* A call of next_hop: the band it names, and whether it starts the tuner.
LEMMA HopChosen ==
  ASSUME HopInv, NEW h, Hop!MoveTo(h), plan' = h.band,
         \/ h.band # None /\ Hop!Send(h.band)
         \/ UNCHANGED sent
  PROVE  HopInv'
<1>1. CASE Hop!Moves(h)
  <2>1. freq' = h.band /\ old_row' = h.band /\ byHand' = "no"
    BY <1>1 DEF Hop!MoveTo
  <2>2. OnRow' /\ OnPlan'
    BY <2>1 DEF OnRow, OnPlan
  <2>3. Hop!OnHoppedBand'
    BY <2>1 DEF Hop!Send, Hop!OnHoppedBand, HopInv
  <2>. QED
    BY <2>2, <2>3 DEF HopInv
<1>2. CASE ~Hop!Moves(h)
  <2>1. UNCHANGED <<freq, old_row>> /\ (byHand' = "no" => byHand = "no")
    BY <1>2 DEF Hop!MoveTo
  <2>2. h.band # None => h.band = old_row
    BY <1>2 DEF Hop!Moves
  <2>3. OnRow' /\ OnPlan'
    BY <2>1, <2>2 DEF HopInv, OnRow, OnPlan
  <2>4. CASE h.band # None /\ Hop!Send(h.band)
    <3>1. sent'.on = freq' /\ sent'.for = h.band /\ sent'.moved = byHand'
      BY <2>4 DEF Hop!Send
    <3>. QED
      BY <2>1, <2>2, <2>3, <2>4, <3>1 DEF HopInv, OnRow, Hop!OnHoppedBand
  <2>5. CASE UNCHANGED sent
    BY <2>3, <2>5 DEF HopInv, Hop!OnHoppedBand
  <2>. QED
    BY <2>4, <2>5
<1>. QED
  BY <1>1, <1>2

LEMMA HopScheduled ==
  ASSUME HopInv, Hop!WSPR_scheduling
  PROVE  HopInv'
<1>1. PICK t \in Hop!next_is_tx :
        \/ \E h \in Hop!Hops(t /\ m_auto) :
             /\ plan' = h.band /\ Hop!MoveTo(h)
             /\ \/ Hop!HopTune(h, t /\ m_auto) /\ Hop!Send(h.band)
                \/ UNCHANGED sent
        \/ plan' = None /\ UNCHANGED <<old_row, freq, sent, byHand>>
  BY Zenon DEF Hop!WSPR_scheduling, Hop!hop
<1>2. ASSUME NEW h \in Hop!Hops(t /\ m_auto), plan' = h.band, Hop!MoveTo(h),
             \/ Hop!HopTune(h, t /\ m_auto) /\ Hop!Send(h.band)
             \/ UNCHANGED sent
      PROVE  HopInv'
  <2>1. Hop!HopTune(h, t /\ m_auto) => h.band # None
    BY Zenon DEF Hop!HopTune
  <2>. QED
    BY <1>2, <2>1, HopChosen
<1>3. CASE plan' = None /\ UNCHANGED <<old_row, freq, sent, byHand>>
  BY <1>3 DEF HopInv, OnRow, OnPlan, Hop!OnHoppedBand
<1>. QED
  BY <1>1, <1>2, <1>3

\* An interval that transmits is sent on the band its plan was made for.
LEMMA HopTransmits ==
  ASSUME HopInv, Hop!DecideTx
  PROVE  HopInv'
<1>1. UNCHANGED <<old_row, freq, byHand, plan>>
  BY DEF Hop!DecideTx, Hop!Unscheduled, Hop!hop
<1>2. UNCHANGED sent \/ (plan # None /\ Hop!Send(plan))
  BY DEF Hop!DecideTx
<1>3. CASE UNCHANGED sent
  BY <1>1, <1>3 DEF HopInv, OnRow, OnPlan, Hop!OnHoppedBand
<1>4. CASE plan # None /\ Hop!Send(plan)
  BY <1>1, <1>4 DEF HopInv, OnRow, OnPlan, Hop!OnHoppedBand, Hop!Send
<1>. QED
  BY <1>2, <1>3, <1>4

LEMMA HopKept ==
  ASSUME HopInv, UNCHANGED <<old_row, freq, byHand, plan, sent>>
  PROVE  HopInv'
BY DEF HopInv, OnRow, OnPlan, Hop!OnHoppedBand

LEMMA HopSteps ==
  ASSUME HopInv, Hop!Next
  PROVE  HopInv'
<1>1. CASE Hop!guiUpdate
  <2>1. CASE Hop!DecideTx
    BY <2>1, HopTransmits
  <2>2. CASE Hop!DecideRx
    <3>1. Hop!WSPR_scheduling \/ UNCHANGED <<old_row, freq, byHand, plan, sent>>
      BY <2>2 DEF Hop!DecideRx, Hop!Unscheduled, Hop!hop
    <3>. QED
      BY <3>1, HopScheduled, HopKept
  <2>3. CASE Hop!RxOver
    BY <2>3, HopScheduled DEF Hop!RxOver
  <2>. QED
    BY <1>1, <2>1, <2>2, <2>3 DEF Hop!guiUpdate
<1>2. CASE Hop!stopTx2
  BY <1>2, HopScheduled DEF Hop!stopTx2
<1>3. CASE Hop!dataSink
  BY <1>3, HopKept DEF Hop!dataSink, Hop!hop
<1>4. CASE Hop!Tick
  BY <1>4, HopKept DEF Hop!Tick, Hop!hop, Hop!gui
<1>5. CASE Hop!ItemChanged
  BY <1>5, HopKept DEF Hop!ItemChanged, Hop!hop, Hop!gui
<1>6. CASE Hop!BandByHand
  BY <1>6 DEF Hop!BandByHand, Hop!hop, Hop!gui, HopInv, OnRow, OnPlan, Hop!OnHoppedBand
<1>7. CASE Hop!Buttons
  BY <1>7, HopKept DEF Hop!Buttons, Hop!EnableTx, Hop!TxNext, Hop!SetPct, Hop!Monitor,
     Hop!HoppingBox, Hop!RigOnline, Hop!Press, Hop!hop
<1>. QED
  BY <1>1, <1>2, <1>3, <1>4, <1>5, <1>6, <1>7 DEF Hop!Next

----------------------------------------------------------------------------
(* The schedule of transmissions (TxSchedule) *)

Table == [Schedule!Cells -> {0, 1}]

\* No more than lim transmissions in a row, and none in the first interval, so that none
\* is added to those at the end of the table before.
Limited(t, lim) ==
  /\ t[0] = 0
  /\ \A c \in Schedule!Cells : c + lim < Schedule!Size => \E k \in 0 .. lim : t[c + k] = 0

\* No room for a transmission that would stand alone.
Crowded(t) == ~ \E c \in 0 .. Schedule!Size - 3 : t[c] = 0 /\ t[c + 1] = 0 /\ t[c + 2] = 0

\* One transmission more, with receptions around it.
Alone(t, u) ==
  \E c \in Schedule!Cells :
    /\ c > 0 /\ t[c] = 0 /\ t[c - 1] = 0 /\ (c + 1 < Schedule!Size => t[c + 1] = 0)
    /\ u = [t EXCEPT ![c] = 1]

\* The constants are those of a table with room for a gap of three.
LEMMA Sizes ==
  /\ Schedule!Size \in Nat /\ Schedule!Size > 3
  /\ Pcts \subseteq 0 .. 99
  /\ Gaps \in Seq(3 .. Schedule!Size - 1) /\ \E n \in DOMAIN Gaps : Gaps[n] = 3
  /\ Schedule!Empty \in Table
<1>1. Schedule!SizeAssumption
  BY MCAssumption
<1>2. Rows \in Nat /\ Cols \in Nat /\ Schedule!Size > 3
  BY <1>1 DEF Schedule!SizeAssumption
<1>3. Schedule!Size \in Nat
  BY <1>2 DEF Schedule!Size
<1>4. /\ Pcts \subseteq 0 .. 99
      /\ Gaps \in Seq(3 .. Schedule!Size - 1) /\ \E n \in DOMAIN Gaps : Gaps[n] = 3
  BY <1>1, Zenon DEF Schedule!SizeAssumption
<1>5. Schedule!Empty \in Table
  BY DEF Table, Schedule!Empty
<1>. QED
  BY <1>2, <1>3, <1>4, <1>5

\* The limit in a row is 1, 2 or 3 (ntxlim).
LEMMA Limits == ASSUME NEW p \in Int PROVE Schedule!ntxlim(p) \in 1 .. 3
BY DEF Schedule!ntxlim

\* An empty table keeps to every limit.
LEMMA EmptyLimited ==
  ASSUME NEW lim \in 1 .. 3
  PROVE  Limited(Schedule!Empty, lim)
<1>1. Schedule!Empty[0] = 0
  BY Sizes DEF Schedule!Empty, Schedule!Cells
<1>2. ASSUME NEW c \in Schedule!Cells PROVE 0 \in 0 .. lim /\ Schedule!Empty[c + 0] = 0
  BY Sizes DEF Schedule!Empty, Schedule!Cells
<1>. QED
  BY <1>1, <1>2 DEF Limited

\* A transmission between receptions breaks no limit.
LEMMA AloneLimited ==
  ASSUME NEW t \in Table, NEW u, NEW lim \in 1 .. 3, Limited(t, lim), Alone(t, u)
  PROVE  u \in Table /\ Limited(u, lim)
<1>1. PICK c \in Schedule!Cells :
        /\ c > 0 /\ t[c] = 0 /\ t[c - 1] = 0 /\ (c + 1 < Schedule!Size => t[c + 1] = 0)
        /\ u = [t EXCEPT ![c] = 1]
  BY DEF Alone
<1>2. u \in Table /\ u[0] = 0 /\ \A d \in Schedule!Cells : d # c => u[d] = t[d]
  BY <1>1, Sizes DEF Limited, Table, Schedule!Cells
<1>3. ASSUME NEW d \in Schedule!Cells, d + lim < Schedule!Size
      PROVE  \E k \in 0 .. lim : u[d + k] = 0
  <2>1. CASE d <= c - 1 /\ c - 1 <= d + lim
    <3>1. c - 1 - d \in 0 .. lim /\ d + (c - 1 - d) = c - 1 /\ c - 1 \in Schedule!Cells
      BY <2>1, <1>1, <1>3, Sizes DEF Schedule!Cells
    <3>2. u[c - 1] = 0
      BY <1>1, <1>2, <3>1 DEF Schedule!Cells
    <3>. QED
      BY <3>1, <3>2
  <2>2. CASE d = c
    <3>1. 1 \in 0 .. lim /\ c + 1 \in Schedule!Cells /\ c + 1 < Schedule!Size
      BY <2>2, <1>3, Sizes DEF Schedule!Cells
    <3>2. u[d + 1] = 0
      BY <1>1, <1>2, <2>2, <3>1 DEF Schedule!Cells
    <3>. QED
      BY <3>1, <3>2
  <2>3. CASE d > c \/ d + lim < c - 1
    <3>1. PICK k \in 0 .. lim : t[d + k] = 0
      BY <1>3 DEF Limited
    <3>2. d + k \in Schedule!Cells /\ d + k # c
      BY <1>3, <2>3, Sizes DEF Schedule!Cells
    <3>. QED
      BY <3>1, <3>2, <1>2
  <2>. QED
    BY <2>1, <2>2, <2>3, <1>1, <1>3 DEF Schedule!Cells
<1>. QED
  BY <1>2, <1>3 DEF Limited

\* A set of numbers has the least member that tx_add_one looks for first.
LEMMA Least ==
  ASSUME NEW S \in SUBSET Nat, S # {}
  PROVE  /\ Schedule!Min(S) \in S
         /\ \A n \in S : Schedule!Min(S) <= n
<1>. DEFINE R == OpToRel(<, Nat)
<1>1. IsWellFoundedOn(R, Nat)
  BY NatLessThanWellFounded
<1>2. \A x, y \in Nat : y < x => <<y, x>> \in R
  BY DEF OpToRel
<1>. HIDE DEF R
<1>3. PICK n \in S : \A k \in S : ~ (<<k, n>> \in R)
  BY <1>1, WFMin, Zenon
<1>4. ASSUME NEW k \in S PROVE n <= k
  <2>1. n \in Nat /\ k \in Nat
    OBVIOUS
  <2>2. ~ (k < n)
    BY <1>2, <1>3, <2>1, Zenon
  <2>. QED
    BY <2>1, <2>2
<1>. QED
  BY <1>4 DEF Schedule!Min

\* tx_add_one adds one transmission that stands alone, or there is no room for one.
LEMMA OneAdded ==
  ASSUME NEW t \in Table, t[0] = 0
  PROVE  \/ Alone(t, Schedule!tx_add_one(t))
         \/ Schedule!tx_add_one(t) = t /\ Crowded(t)
<1>. DEFINE wide == {n \in DOMAIN Gaps : Schedule!GapAt(t, Gaps[n]) # {}}
            g == Gaps[Schedule!Min(wide)]
            at1 == Schedule!Min(Schedule!GapAt(t, g))
            last == Schedule!Size - 1
<1>1. CASE wide # {}
  <2>1. wide \in SUBSET Nat
    BY Sizes
  <2>2. Schedule!Min(wide) \in wide
    BY <1>1, <2>1, Least
  <2>3. g \in 3 .. Schedule!Size - 1 /\ Schedule!GapAt(t, g) # {}
    <3>1. Schedule!Min(wide) \in DOMAIN Gaps /\ Schedule!GapAt(t, Gaps[Schedule!Min(wide)]) # {}
      BY <2>2
    <3>2. \A n \in DOMAIN Gaps : Gaps[n] \in 3 .. Schedule!Size - 1
      BY Sizes
    <3>. QED
      BY <3>1, <3>2, Zenon
  <2>. HIDE DEF g
  <2>4. Schedule!GapAt(t, g) \in SUBSET Nat
    BY DEF Schedule!GapAt
  <2>5. at1 \in Schedule!GapAt(t, g)
    BY <2>3, <2>4, Least
  <2>6. at1 \in 0 .. Schedule!Size - g - 1 /\ \A k \in 0 .. g - 1 : t[at1 + k] = 0
    BY <2>5 DEF Schedule!GapAt
  <2>. HIDE DEF at1
  <2>7. PICK h \in Nat : h = g \div 2 /\ h >= 1 /\ h + 1 <= g - 1
    BY <2>3
  <2>8. t[at1 + h] = 0 /\ t[at1 + (h - 1)] = 0 /\ t[at1 + (h + 1)] = 0
    <3>1. h \in 0 .. g - 1 /\ h - 1 \in 0 .. g - 1 /\ h + 1 \in 0 .. g - 1
      BY <2>3, <2>7
    <3>. QED
      BY <2>6, <3>1, Zenon
  <2>9. /\ at1 + h \in Schedule!Cells /\ at1 + h > 0
        /\ (at1 + h) - 1 = at1 + (h - 1) /\ (at1 + h) + 1 = at1 + (h + 1)
    BY <2>3, <2>6, <2>7, Sizes DEF Schedule!Cells
  <2>10. Alone(t, [t EXCEPT ![at1 + h] = 1])
    BY <2>8, <2>9 DEF Alone
  <2>11. Schedule!tx_add_one(t) = [t EXCEPT ![at1 + h] = 1]
    BY <1>1, <2>7 DEF Schedule!tx_add_one, g, at1
  <2>. QED
    BY <2>10, <2>11
<1>2. CASE wide = {}
  <2>1. ASSUME NEW c \in 0 .. Schedule!Size - 4
        PROVE  ~ (t[c] = 0 /\ t[c + 1] = 0 /\ t[c + 2] = 0)
    <3>1. PICK n \in DOMAIN Gaps : Gaps[n] = 3
      BY Sizes
    <3>2. Schedule!GapAt(t, 3) = {}
      BY <1>2, <3>1
    <3>3. c \in 0 .. Schedule!Size - 3 - 1
      BY Sizes
    <3>4. ~ \A k \in 0 .. 3 - 1 : t[c + k] = 0
      BY <3>2, <3>3, Zenon DEF Schedule!GapAt
    <3>5. PICK k \in 0 .. 3 - 1 : t[c + k] # 0
      BY <3>4, Zenon
    <3>6. k = 0 \/ k = 1 \/ k = 2
      OBVIOUS
    <3>7. c + 0 = c
      OBVIOUS
    <3>. QED
      BY <3>5, <3>6, <3>7
  <2>2. CASE t[Schedule!Size - 2] = 0 /\ t[Schedule!Size - 1] = 0
    <3>1. Schedule!tx_add_one(t) = [t EXCEPT ![last] = 1]
      BY <1>2, <2>2 DEF Schedule!tx_add_one
    <3>2. /\ last \in Schedule!Cells /\ last > 0 /\ t[last] = 0
          /\ last - 1 = Schedule!Size - 2 /\ ~(last + 1 < Schedule!Size)
      BY <2>2, Sizes DEF Schedule!Cells
    <3>. QED
      BY <2>2, <3>1, <3>2 DEF Alone
  <2>3. CASE ~(t[Schedule!Size - 2] = 0 /\ t[Schedule!Size - 1] = 0)
    <3>1. Schedule!tx_add_one(t) = t
      BY <1>2, <2>3 DEF Schedule!tx_add_one
    <3>2. Crowded(t)
      <4>1. ASSUME NEW c \in 0 .. Schedule!Size - 3, t[c] = 0 /\ t[c + 1] = 0 /\ t[c + 2] = 0
            PROVE  FALSE
        <5>1. CASE c = Schedule!Size - 3
          <6>1. c + 1 = Schedule!Size - 2 /\ c + 2 = Schedule!Size - 1
            BY <5>1, Sizes
          <6>. QED
            BY <4>1, <6>1, <2>3
        <5>2. CASE c # Schedule!Size - 3
          BY <5>2, <4>1, <2>1, Sizes
        <5>. QED
          BY <5>1, <5>2
      <4>. QED
        BY <4>1 DEF Crowded
    <3>. QED
      BY <3>1, <3>2
  <2>. QED
    BY <2>2, <2>3
<1>. QED
  BY <1>1, <1>2

\* The instance counts as this module does.
LEMMA SameSize == ASSUME NEW S PROVE Schedule!Cardinality(S) = Cardinality(S)
BY DEF Schedule!Cardinality, Cardinality

\* A transmission that is added counts for one.
LEMMA Counted ==
  ASSUME NEW t \in Table, NEW u, Alone(t, u)
  PROVE  /\ Schedule!tx_sum(t) \in Nat
         /\ Schedule!tx_sum(u) = Schedule!tx_sum(t) + 1
<1>. DEFINE S == {c \in Schedule!Cells : t[c] = 1}
<1>1. PICK c \in Schedule!Cells : t[c] = 0 /\ u = [t EXCEPT ![c] = 1]
  BY DEF Alone
<1>2. IsFiniteSet(S)
  <2>1. 0 \in Int /\ Schedule!Size - 1 \in Int
    BY Sizes
  <2>2. IsFiniteSet(Schedule!Cells)
    BY <2>1, FS_Interval, Zenon DEF Schedule!Cells
  <2>. QED
    BY <2>2, FS_Subset, Zenon
<1>3. {d \in Schedule!Cells : u[d] = 1} = S \cup {c}
  BY <1>1 DEF Table
<1>4. c \notin S
  BY <1>1
<1>5. Schedule!tx_sum(t) = Cardinality(S) /\ Schedule!tx_sum(u) = Cardinality(S \cup {c})
  <2>1. Schedule!tx_sum(u) = Cardinality({d \in Schedule!Cells : u[d] = 1})
    BY SameSize DEF Schedule!tx_sum
  <2>2. Schedule!tx_sum(t) = Cardinality(S)
    BY SameSize DEF Schedule!tx_sum
  <2>. QED
    BY <1>3, <2>1, <2>2, Zenon
<1>6. Cardinality(S) \in Nat /\ Cardinality(S \cup {c}) = Cardinality(S) + 1
  <2>. HIDE DEF S
  <2>. QED
    BY <1>2, <1>4, FS_AddElement, FS_CardinalityType
<1>. QED
  BY <1>5, <1>6

\* More transmissions leave no more room.
LEMMA CrowdedStays ==
  ASSUME NEW t \in Table, NEW u, Alone(t, u), Crowded(t)
  PROVE  Crowded(u)
<1>1. PICK new \in Schedule!Cells : u = [t EXCEPT ![new] = 1]
  BY DEF Alone
<1>2. \A d \in Schedule!Cells : u[d] = 0 => t[d] = 0
  BY <1>1 DEF Table
<1>3. ASSUME NEW c \in 0 .. Schedule!Size - 3
      PROVE  c \in Schedule!Cells /\ c + 1 \in Schedule!Cells /\ c + 2 \in Schedule!Cells
  BY Sizes DEF Schedule!Cells
<1>4. SUFFICES ASSUME NEW c \in 0 .. Schedule!Size - 3,
                      u[c] = 0 /\ u[c + 1] = 0 /\ u[c + 2] = 0
               PROVE  t[c] = 0 /\ t[c + 1] = 0 /\ t[c + 2] = 0
  BY Zenon DEF Crowded
<1>. QED
  BY <1>2, <1>3, <1>4, Zenon

\* The values of the schedule's variables (TxSchedule!TypeOK).
SchedType ==
  /\ tx \in Table /\ tableOf \in Pcts \cup {-1} /\ pctx \in Pcts
  /\ cell \in Schedule!Cells /\ at \in Nat /\ count \in Int /\ run \in Nat
  /\ fresh \in BOOLEAN /\ pure \in BOOLEAN

\* The limit in a row of the current table.
lim == Schedule!ntxlim(tableOf)

\* tx_trim has come to the interval "at", after nrun transmissions.
Trimmed ==
  /\ at \in Schedule!Cells /\ (at > 0 => tx[0] = 0)
  /\ count \in 0 .. lim /\ count <= at /\ (count < at => tx[at - 1 - count] = 0)
  /\ \A c \in Schedule!Cells : c + lim < at => \E k \in 0 .. lim : tx[c + k] = 0

\* How far the construction of the table has come, and what holds of it then.
Built ==
  /\ stage # "ready" => tableOf = pctx
  /\ stage \in {"ready", "answer", "top up"} => Limited(tx, lim)
  /\ stage = "sparse" =>
       /\ tableOf \in 1 .. 25 /\ at \in Schedule!Cells /\ Limited(tx, lim)
       /\ \A c \in Schedule!Cells : c > at => tx[c] = 0
  /\ stage = "trim" => Trimmed
  /\ stage = "top up" =>
       Schedule!tx_sum(tx) + count >= Schedule!needed(tableOf) \/ Crowded(tx)
  /\ Schedule!ShareKept

\* The transmissions in a row are those of the table before the interval asked about,
\* and no table is drawn in the middle of them.
InTheRow ==
  /\ Schedule!NotInARow
  /\ pure /\ run > 0 => tableOf = pctx
  /\ fresh /\ cell # 0 => run = 0
  /\ pure /\ run > 0 /\ cell # 0 =>
       /\ stage \in {"ready", "answer"}
       /\ run <= cell /\ \A k \in 1 .. run : tx[cell - k] = 1

SchedInv == SchedType /\ Built /\ InTheRow

\* The limit of the current table is one of ntxlim's.
LEMMA LimType == ASSUME SchedType PROVE lim \in 1 .. 3 /\ tableOf \in Int /\ pctx \in Int
<1>1. tableOf \in Int /\ pctx \in Int
  BY Sizes DEF SchedType
<1>. QED
  BY <1>1, Limits DEF lim

\* Before the first table.
LEMMA SchedStarts == ASSUME Schedule!Init PROVE SchedInv
<1>1. SchedType
  <2>1. tx = Schedule!Empty /\ tableOf = -1 /\ at = 0 /\ count = 0 /\ run = 0
    BY DEF Schedule!Init
  <2>2. fresh \in BOOLEAN /\ pure \in BOOLEAN /\ cell \in Schedule!Cells /\ pctx \in Pcts
    BY Zenon DEF Schedule!Init
  <2>. QED
    BY <2>1, <2>2, Sizes DEF SchedType
<1>2. Limited(tx, lim)
  BY <1>1, LimType, EmptyLimited DEF Schedule!Init
<1>3. Built
  BY <1>2 DEF Built, Schedule!Init, Schedule!ShareKept
<1>4. InTheRow
  BY <1>1, LimType DEF InTheRow, Schedule!Init, Schedule!NotInARow, lim
<1>. QED
  BY <1>1, <1>3, <1>4 DEF SchedInv

\* While a table is built nothing happens to the row.
LEMMA RowKept ==
  ASSUME InTheRow, stage \notin {"ready", "answer"},
         UNCHANGED <<tableOf, cell, fresh, pctx, run, pure>>
  PROVE  InTheRow'
<1>1. ~(pure /\ run > 0 /\ cell # 0)
  BY DEF InTheRow
<1>2. Schedule!NotInARow'
  BY DEF InTheRow, Schedule!NotInARow
<1>. QED
  BY <1>1, <1>2 DEF InTheRow

\* A new table begins when two hours have begun or the percentage is another one: not in the
\* middle of transmissions in a row, unless the percentage changed there.
LEMMA CreateStep == ASSUME SchedInv, Schedule!Create PROVE SchedInv'
<1>0. /\ tx' = Schedule!Empty /\ tableOf' = pctx /\ fresh' = FALSE
      /\ at' = 0 /\ count' = 0 /\ UNCHANGED <<cell, pctx, run, pure>>
  BY DEF Schedule!Create, Schedule!Go
<1>1. /\ stage = "ready" /\ stage' # "ready" /\ stage' \notin {"trim", "top up"}
      /\ stage' = "answer" => pctx = 0
      /\ stage' = "sparse" => pctx \in 1 .. 25
  BY DEF Schedule!Create, Schedule!Go
<1>2. SchedType'
  <2>1. fresh' \in BOOLEAN /\ pure' \in BOOLEAN
    BY <1>0, Zenon DEF SchedInv, SchedType
  <2>2. /\ tx' \in Table /\ tableOf' \in Pcts /\ pctx' \in Pcts /\ cell' \in Schedule!Cells
        /\ at' \in Nat /\ count' \in Int /\ run' \in Nat
    BY <1>0, Sizes DEF SchedInv, SchedType
  <2>. QED
    BY <2>1, <2>2, Zenon DEF SchedType
<1>3. lim' \in 1 .. 3
  BY <1>2, Sizes, Limits DEF SchedType, lim
<1>4. Limited(tx, lim)'
  BY <1>0, <1>3, EmptyLimited
<1>5. Built'
  <2>1. at' \in Schedule!Cells /\ \A c \in Schedule!Cells : tx'[c] = 0
    BY <1>0, Sizes DEF Schedule!Cells, Schedule!Empty
  <2>2. Schedule!ShareKept'
    BY <1>0, <1>1 DEF Schedule!ShareKept
  <2>. QED
    BY <1>0, <1>1, <1>4, <2>1, <2>2 DEF Built
<1>6. InTheRow'
  <2>1. CASE pure /\ run > 0
    <3>1. tableOf = pctx /\ fresh
      BY <2>1 DEF SchedInv, InTheRow, Schedule!Create
    <3>2. cell = 0
      BY <2>1, <3>1 DEF SchedInv, InTheRow
    <3>. QED
      BY <1>0, <3>1, <3>2 DEF SchedInv, InTheRow, Schedule!NotInARow
  <2>2. CASE pure /\ run = 0
    <3>1. run' = 0 /\ 0 <= lim' /\ ~(run' > 0)
      BY <1>0, <1>3, <2>2
    <3>2. Schedule!NotInARow'
      BY <3>1 DEF Schedule!NotInARow, lim
    <3>. QED
      BY <3>1, <3>2 DEF InTheRow
  <2>3. CASE ~pure
    BY <1>0, <2>3 DEF InTheRow, Schedule!NotInARow
  <2>. QED
    BY <2>1, <2>2, <2>3 DEF SchedInv, SchedType
<1>. QED
  BY <1>2, <1>5, <1>6 DEF SchedInv

\* Up to 25 % there are at least two receptions before a transmission.
LEMMA Rests ==
  ASSUME NEW p \in 1 .. 25, NEW n \in Schedule!nrx(p)
  PROVE  n \in Int /\ n >= 2
<1>1. PICK k \in 0 .. 99 : n = (10000 - 200 * p + 3 * k * p) \div (100 * p)
  BY DEF Schedule!nrx
<1>2. 3 * k * p \in Nat
  OBVIOUS
<1>3. PICK a \in Int : a = 10000 - 200 * p + 3 * k * p /\ a >= 200 * p
  BY <1>2
<1>4. PICK b \in Nat : b = 100 * p /\ b > 0
  OBVIOUS
<1>5. n = a \div b /\ a >= 2 * b
  BY <1>1, <1>3, <1>4
<1>. QED
  BY <1>4, <1>5

\* A transmission further on stands alone.
LEMMA SparseStep == ASSUME SchedInv, Schedule!Sparse PROVE SchedInv'
<1>1. /\ stage = "sparse" /\ UNCHANGED <<tableOf, cell, fresh, pctx, run, pure>>
      /\ stage \notin {"ready", "answer"}
  BY DEF Schedule!Sparse, Schedule!Asked
<1>2. InTheRow'
  BY <1>1, RowKept DEF SchedInv
<1>3. /\ tableOf = pctx /\ tableOf \in 1 .. 25 /\ at \in Schedule!Cells /\ Limited(tx, lim)
      /\ \A c \in Schedule!Cells : c > at => tx[c] = 0
  BY <1>1 DEF SchedInv, Built
<1>4. PICK n \in Schedule!nrx(pctx) :
        IF at + n + 1 < Schedule!Size
        THEN tx' = [tx EXCEPT ![at + n + 1] = 1] /\ Schedule!Go("sparse", at + n + 1, 0, 0)
        ELSE tx' = tx /\ Schedule!Go("answer", 0, 0, 0)
  BY DEF Schedule!Sparse
<1>5. n \in Int /\ n >= 2
  BY <1>3, Rests
<1>6. fresh' \in BOOLEAN /\ pure' \in BOOLEAN
  BY <1>1, Zenon DEF SchedInv, SchedType
<1>7. /\ tableOf' \in Pcts \cup {-1} /\ pctx' \in Pcts /\ cell' \in Schedule!Cells
      /\ run' \in Nat /\ lim' = lim /\ lim \in 1 .. 3
  BY <1>1, LimType DEF SchedInv, SchedType, lim
<1>8. CASE at + n + 1 < Schedule!Size
  <2>. DEFINE c == at + n + 1
  <2>1. c \in Schedule!Cells /\ c - 1 \in Schedule!Cells /\ c > at /\ c - 1 > at /\ c > 0
    BY <1>3, <1>5, <1>8, Sizes DEF Schedule!Cells
  <2>2. /\ tx' = [tx EXCEPT ![c] = 1] /\ at' = c /\ count' = 0 /\ stage' = "sparse"
    BY <1>4, <1>8 DEF Schedule!Go
  <2>3. c + 1 < Schedule!Size => c + 1 \in Schedule!Cells /\ c + 1 > at
    BY <2>1, <1>3, Sizes DEF Schedule!Cells
  <2>. HIDE DEF c
  <2>4. Alone(tx, tx')
    BY <1>3, <2>1, <2>2, <2>3 DEF Alone
  <2>5. tx' \in Table /\ Limited(tx', lim)
    BY <1>3, <1>7, <2>4, AloneLimited DEF SchedInv, SchedType
  <2>6. \A d \in Schedule!Cells : d > c => tx'[d] = 0
    <3>1. ASSUME NEW d \in Schedule!Cells, d > c PROVE d > at /\ d # c
      BY <3>1, <1>3, <2>1 DEF Schedule!Cells
    <3>. QED
      BY <1>3, <2>2, <3>1 DEF SchedInv, SchedType, Table
  <2>7. SchedType'
    <3>1. at' \in Nat /\ count' \in Int
      BY <2>1, <2>2 DEF Schedule!Cells
    <3>. QED
      BY <3>1, <1>6, <1>7, <2>5, Zenon DEF SchedType
  <2>8. Built'
    BY <1>1, <1>3, <1>7, <2>1, <2>2, <2>5, <2>6 DEF Built, Schedule!ShareKept
  <2>. QED
    BY <1>2, <2>7, <2>8 DEF SchedInv
<1>9. CASE ~(at + n + 1 < Schedule!Size)
  <2>1. tx' = tx /\ at' = 0 /\ count' = 0 /\ stage' = "answer"
    BY <1>4, <1>9 DEF Schedule!Go
  <2>2. SchedType'
    BY <1>6, <1>7, <2>1 DEF SchedInv, SchedType
  <2>3. ~(tableOf' > 25)
    BY <1>1, <1>3
  <2>4. Built'
    BY <1>1, <1>3, <1>7, <2>1, <2>3 DEF Built, Schedule!ShareKept
  <2>. QED
    BY <1>2, <2>2, <2>4 DEF SchedInv
<1>. QED
  BY <1>8, <1>9

\* The cells that a transmission is added to are those of a table.
LEMMA Added ==
  ASSUME NEW t \in Table, NEW j, NEW u \in Schedule!tx_add_to_band(t, j)
  PROVE  u \in Table
<1>1. u = t \/ \E c : u = [t EXCEPT ![c] = 1]
  BY Zenon DEF Schedule!tx_add_to_band
<1>. QED
  BY <1>1 DEF Table

\* What is counted in a table is a number.
LEMMA Sums ==
  ASSUME NEW t \in Table, NEW p \in Int, NEW j
  PROVE  /\ Schedule!tx_sum(t) \in Int /\ Schedule!needed(p) \in Int
         /\ Schedule!bsum(t, j) \in Int /\ Schedule!ntxbandmin(p) \in Int
<1>1. Schedule!needed(p) \in Int
  BY Sizes DEF Schedule!needed
<1>2. 0 \in Int /\ Schedule!Size - 1 \in Int /\ Rows \in Nat /\ 0 \in Int /\ Rows - 1 \in Int
  BY MCAssumption, Sizes DEF Schedule!SizeAssumption
<1>3. IsFiniteSet(Schedule!Cells) /\ IsFiniteSet(0 .. Rows - 1)
  BY <1>2, FS_Interval, Zenon DEF Schedule!Cells
<1>4. Schedule!tx_sum(t) \in Nat
  BY <1>3, FS_Subset, FS_CardinalityType, SameSize, Zenon DEF Schedule!tx_sum
<1>5. Schedule!bsum(t, j) \in Nat
  BY <1>3, FS_Subset, FS_CardinalityType, SameSize, Zenon DEF Schedule!bsum
<1>. QED
  BY <1>1, <1>4, <1>5 DEF Schedule!ntxbandmin

\* The steps of the construction change the table and where the construction is.
LEMMA Building ==
  ASSUME SchedInv, stage \notin {"ready", "answer"}, UNCHANGED tableOf, Schedule!Asked,
         tx' \in Table, at' \in Nat, count' \in Int, Built'
  PROVE  SchedInv'
<1>1. UNCHANGED <<tableOf, cell, fresh, pctx, run, pure>>
  BY DEF Schedule!Asked
<1>2. SchedType'
  BY <1>1, Zenon DEF SchedInv, SchedType
<1>3. InTheRow'
  BY <1>1, RowKept DEF SchedInv
<1>. QED
  BY <1>2, <1>3 DEF SchedInv

\* Filling the bands leaves everything to tx_trim, which begins at the first interval.
LEMMA FillStep == ASSUME SchedInv, Schedule!Fill PROVE SchedInv'
<1>1. /\ stage = "fill" /\ UNCHANGED tableOf /\ Schedule!Asked /\ tableOf' = pctx'
      /\ stage \notin {"ready", "answer"}
  BY DEF SchedInv, Built, Schedule!Fill, Schedule!Asked
<1>2. tx' \in Table
  BY Added DEF Schedule!Fill, SchedInv, SchedType
<1>3. \/ stage' = "fill" /\ at' = at + 1 /\ count' = 0
      \/ stage' = "trim" /\ at' = 0 /\ count' = 0
  BY DEF Schedule!Fill, Schedule!Go
<1>4. at' \in Nat /\ count' \in Int
  BY <1>3 DEF SchedInv, SchedType
<1>5. lim' = lim /\ lim \in 1 .. 3
  BY <1>1, LimType DEF lim, SchedInv
<1>6. stage' = "trim" => Trimmed'
  <2>1. SUFFICES ASSUME stage' = "trim", at' = 0, count' = 0 PROVE Trimmed'
    BY <1>3
  <2>2. 0 \in Schedule!Cells /\ 0 \in 0 .. lim'
    BY <1>5, Sizes DEF Schedule!Cells
  <2>3. \A c \in Schedule!Cells : ~(c + lim' < 0)
    BY <1>5, Sizes DEF Schedule!Cells
  <2>. QED
    BY <2>1, <2>2, <2>3 DEF Trimmed
<1>7. Built'
  BY <1>1, <1>3, <1>6 DEF Built, Schedule!ShareKept
<1>. QED
  BY <1>1, <1>2, <1>4, <1>7, Building

\* So does filling them again.
LEMMA BackfillStep == ASSUME SchedInv, Schedule!Backfill PROVE SchedInv'
<1>1. /\ stage = "backfill" /\ UNCHANGED tableOf /\ Schedule!Asked /\ tableOf' = pctx'
      /\ stage \notin {"ready", "answer"}
  BY DEF SchedInv, Built, Schedule!Backfill, Schedule!Asked
<1>2. tx' \in Table
  <2>1. tx' = tx \/ tx' \in Schedule!tx_add_to_band(tx, at)
    BY DEF Schedule!Backfill
  <2>. QED
    BY <2>1, Added DEF SchedInv, SchedType
<1>3. \/ stage' = "backfill" /\ at' = at /\ count' = count - 1
      \/ stage' = "backfill" /\ at' = at + 1 /\ count' = Schedule!Missing(tx, at + 1)
      \/ stage' = "trim" /\ at' = 0 /\ count' = 0
  BY DEF Schedule!Backfill, Schedule!Go
<1>4. at' \in Nat /\ count' \in Int
  <2>1. Schedule!Missing(tx, at + 1) \in Int
    BY LimType, Sums DEF Schedule!Missing, SchedInv, SchedType
  <2>. QED
    BY <1>3, <2>1 DEF SchedInv, SchedType
<1>5. lim' = lim /\ lim \in 1 .. 3
  BY <1>1, LimType DEF lim, SchedInv
<1>6. stage' = "trim" => Trimmed'
  <2>1. SUFFICES ASSUME stage' = "trim", at' = 0, count' = 0 PROVE Trimmed'
    BY <1>3
  <2>2. 0 \in Schedule!Cells /\ 0 \in 0 .. lim'
    BY <1>5, Sizes DEF Schedule!Cells
  <2>3. \A c \in Schedule!Cells : ~(c + lim' < 0)
    BY <1>5, Sizes DEF Schedule!Cells
  <2>. QED
    BY <2>1, <2>2, <2>3 DEF Trimmed
<1>7. Built'
  BY <1>1, <1>3, <1>6 DEF Built, Schedule!ShareKept
<1>. QED
  BY <1>1, <1>2, <1>4, <1>7, Building

\* tx_trim clears an interval when the limit is reached, and then counts from 0.
LEMMA TrimStep == ASSUME SchedInv, Schedule!Trim PROVE SchedInv'
<1>. DEFINE cleared == Schedule!Kept(at) = 0 \/ Schedule!TooMany
            nrun == IF cleared THEN 0 ELSE count + 1
<1>1. /\ stage = "trim" /\ UNCHANGED tableOf /\ Schedule!Asked /\ tableOf' = pctx'
      /\ stage \notin {"ready", "answer"} /\ tableOf = pctx
  BY DEF SchedInv, Built, Schedule!Trim, Schedule!Asked
<1>2. /\ at \in Schedule!Cells /\ (at > 0 => tx[0] = 0)
      /\ count \in 0 .. lim /\ count <= at /\ (count < at => tx[at - 1 - count] = 0)
      /\ \A c \in Schedule!Cells : c + lim < at => \E k \in 0 .. lim : tx[c + k] = 0
  BY <1>1 DEF SchedInv, Built, Trimmed
<1>3. lim' = lim /\ lim \in 1 .. 3 /\ tx \in Table
  BY <1>1, LimType DEF lim, SchedInv, SchedType
<1>4. tx' = [tx EXCEPT ![at] = IF cleared THEN 0 ELSE 1]
  BY DEF Schedule!Trim
<1>5. /\ tx' \in Table /\ \A c \in Schedule!Cells : c # at => tx'[c] = tx[c]
      /\ cleared => tx'[at] = 0
  BY <1>2, <1>3, <1>4 DEF Table
<1>6. ~cleared => count + 1 <= lim /\ at > 0
  <2>1. Schedule!ntxlim(pctx) = lim
    BY <1>1 DEF lim
  <2>2. ASSUME ~cleared PROVE count + 1 <= lim /\ at # 0
    <3>1. ~(count + 1 > Schedule!ntxlim(pctx)) /\ Schedule!Kept(at) # 0
      BY <2>2 DEF Schedule!TooMany
    <3>. QED
      BY <3>1, <2>1, <1>2, <1>3 DEF Schedule!Kept
  <2>3. at \in Nat
    BY <1>2 DEF Schedule!Cells
  <2>. QED
    BY <2>2, <2>3
<1>7. nrun \in 0 .. lim /\ nrun <= at + 1
  BY <1>2, <1>3, <1>6 DEF Schedule!Cells
<1>8. nrun < at + 1 => tx'[at - nrun] = 0
  <2>1. CASE cleared
    BY <1>2, <1>5, <2>1 DEF Schedule!Cells
  <2>2. CASE ~cleared
    <3>1. SUFFICES ASSUME count < at PROVE tx'[at - (count + 1)] = 0
      BY <2>2, <1>2 DEF Schedule!Cells
    <3>2. /\ at - 1 - count = at - (count + 1)
          /\ at - 1 - count \in Schedule!Cells /\ at - 1 - count # at
      BY <3>1, <1>2, <1>3, Sizes DEF Schedule!Cells
    <3>3. tx'[at - 1 - count] = 0
      BY <3>1, <3>2, <1>2, <1>5
    <3>. QED
      BY <3>2, <3>3
  <2>. QED
    BY <2>1, <2>2
<1>9. tx'[0] = 0
  <2>1. CASE at = 0
    <3>1. cleared
      BY <2>1 DEF Schedule!Kept
    <3>. QED
      BY <2>1, <3>1, <1>5
  <2>2. CASE at > 0
    <3>1. 0 \in Schedule!Cells /\ 0 # at
      BY <2>2, Sizes DEF Schedule!Cells
    <3>. QED
      BY <2>2, <3>1, <1>2, <1>5
  <2>. QED
    BY <2>1, <2>2, <1>2 DEF Schedule!Cells
<1>. HIDE DEF nrun, cleared
<1>10. ASSUME NEW c \in Schedule!Cells, c + lim < at + 1
       PROVE  \E k \in 0 .. lim : tx'[c + k] = 0
  <2>1. CASE c + lim < at
    <3>1. PICK k \in 0 .. lim : tx[c + k] = 0
      BY <2>1, <1>2
    <3>2. c + k \in Schedule!Cells /\ c + k # at
      BY <2>1, <1>2, <1>3, Sizes DEF Schedule!Cells
    <3>. QED
      BY <3>1, <3>2, <1>5
  <2>2. CASE c + lim = at
    <3>1. /\ nrun < at + 1 /\ at - nrun - c \in 0 .. lim
          /\ c + (at - nrun - c) = at - nrun
      BY <2>2, <1>2, <1>3, <1>7, Sizes DEF Schedule!Cells
    <3>. QED
      BY <3>1, <1>8
  <2>. QED
    BY <2>1, <2>2, <1>10, <1>2, <1>3 DEF Schedule!Cells
<1>11. \/ at + 1 < Schedule!Size /\ stage' = "trim" /\ at' = at + 1 /\ count' = nrun
       \/ stage' = "backfill" /\ at' = 0 /\ count' = Schedule!Missing(tx', 0)
       \/ /\ ~(at + 1 < Schedule!Size) /\ stage' = "top up" /\ at' = 0
          /\ count' = Schedule!needed(pctx) - Schedule!tx_sum(tx')
  BY DEF Schedule!Trim, Schedule!Go, nrun, cleared
<1>12. at' \in Nat /\ count' \in Int
  <2>1. /\ Schedule!Missing(tx', 0) \in Int
        /\ Schedule!needed(pctx) - Schedule!tx_sum(tx') \in Int
    BY <1>5, LimType, Sums DEF Schedule!Missing, SchedInv
  <2>2. at + 1 \in Nat /\ nrun \in Int
    BY <1>2, <1>3, <1>7 DEF Schedule!Cells
  <2>3. \/ at' = at + 1 /\ count' = nrun
        \/ at' = 0 /\ count' = Schedule!Missing(tx', 0)
        \/ at' = 0 /\ count' = Schedule!needed(pctx) - Schedule!tx_sum(tx')
    BY <1>11, Zenon
  <2>. QED
    BY <2>1, <2>2, <2>3
<1>13. CASE at + 1 < Schedule!Size /\ stage' = "trim" /\ at' = at + 1 /\ count' = nrun
  <2>0. at + 1 < Schedule!Size /\ at' = at + 1 /\ count' = nrun
    BY <1>13
  <2>1. at + 1 \in Schedule!Cells /\ (at + 1) - 1 - nrun = at - nrun /\ at + 1 > 0
    <3>1. at \in Nat /\ nrun \in Int
      BY <1>2, <1>3, <1>7 DEF Schedule!Cells
    <3>. QED
      BY <2>0, <3>1, Sizes DEF Schedule!Cells
  <2>2. Trimmed'
    BY <1>3, <1>7, <1>8, <1>9, <1>10, <2>0, <2>1 DEF Trimmed
  <2>3. Built'
    BY <1>1, <1>13, <2>2 DEF Built, Schedule!ShareKept
  <2>. QED
    BY <1>1, <1>5, <1>12, <2>3, Building
<1>14. CASE stage' = "backfill"
  <2>1. Built'
    BY <1>1, <1>14 DEF Built, Schedule!ShareKept
  <2>. QED
    BY <1>1, <1>5, <1>12, <2>1, Building
<1>15. CASE /\ ~(at + 1 < Schedule!Size) /\ stage' = "top up"
            /\ count' = Schedule!needed(pctx) - Schedule!tx_sum(tx')
  <2>0. /\ ~(at + 1 < Schedule!Size)
        /\ count' = Schedule!needed(pctx) - Schedule!tx_sum(tx')
    BY <1>15
  <2>1. at + 1 = Schedule!Size
    BY <2>0, <1>2, Sizes DEF Schedule!Cells
  <2>2. Limited(tx', lim)
    BY <2>1, <1>9, <1>10 DEF Limited
  <2>3. Schedule!tx_sum(tx') + count' >= Schedule!needed(tableOf')
    <3>1. Schedule!needed(pctx) \in Int /\ Schedule!tx_sum(tx') \in Int
      BY <1>5, LimType, Sums DEF SchedInv
    <3>2. tableOf' = pctx
      BY <1>1
    <3>. QED
      BY <3>1, <3>2, <2>0
  <2>4. Built'
    BY <1>1, <1>3, <1>15, <2>2, <2>3 DEF Built, Schedule!ShareKept
  <2>. QED
    BY <1>1, <1>5, <1>12, <2>4, Building
<1>. QED
  BY <1>11, <1>13, <1>14, <1>15

\* Every transmission that is added counts, and one that is not finds no room.
LEMMA TopUpStep == ASSUME SchedInv, Schedule!TopUp PROVE SchedInv'
<1>1. /\ stage = "top up" /\ UNCHANGED tableOf /\ Schedule!Asked /\ tableOf' = pctx'
      /\ stage \notin {"ready", "answer"} /\ tableOf = pctx
  BY DEF SchedInv, Built, Schedule!TopUp, Schedule!Asked
<1>2. /\ tx \in Table /\ Limited(tx, lim) /\ lim' = lim /\ lim \in 1 .. 3 /\ count \in Int
      /\ Schedule!tx_sum(tx) + count >= Schedule!needed(tableOf) \/ Crowded(tx)
  BY <1>1, LimType DEF SchedInv, SchedType, Built, lim
<1>3. Schedule!needed(tableOf) \in Int /\ Schedule!tx_sum(tx) \in Int
  BY <1>2, LimType, Sums DEF SchedInv
<1>4. CASE count > 0
  <2>0. tx' = Schedule!tx_add_one(tx) /\ at' = 0 /\ count' = count - 1
    BY <1>4 DEF Schedule!TopUp, Schedule!Go
  <2>1. stage' = "top up"
    BY <1>4 DEF Schedule!TopUp, Schedule!Go
  <2>2. Alone(tx, tx') \/ (tx' = tx /\ Crowded(tx))
    BY <1>2, <2>0, OneAdded DEF Limited
  <2>3. tx' \in Table /\ Limited(tx', lim)
    BY <1>2, <2>2, AloneLimited
  <2>4. Schedule!tx_sum(tx') + count' >= Schedule!needed(tableOf) \/ Crowded(tx')
    <3>1. CASE Alone(tx, tx')
      <4>1. Schedule!tx_sum(tx') = Schedule!tx_sum(tx) + 1
        BY <1>2, <3>1, Counted
      <4>2. Crowded(tx) => Crowded(tx')
        BY <1>2, <3>1, CrowdedStays
      <4>. QED
        BY <1>2, <1>3, <2>0, <4>1, <4>2
    <3>2. CASE tx' = tx /\ Crowded(tx)
      BY <3>2, Zenon
    <3>. QED
      BY <2>2, <3>1, <3>2
  <2>5. at' \in Nat /\ count' \in Int
    BY <1>2, <2>0
  <2>6. Built'
    BY <1>1, <1>2, <2>1, <2>3, <2>4 DEF Built, Schedule!ShareKept
  <2>. QED
    BY <1>1, <2>3, <2>5, <2>6, Building
<1>5. CASE ~(count > 0)
  <2>1. tx' = tx /\ stage' = "answer" /\ at' = 0 /\ count' = 0
    BY <1>5 DEF Schedule!TopUp, Schedule!Go
  <2>2. Schedule!tx_sum(tx) >= Schedule!needed(tableOf) \/ Crowded(tx)
    BY <1>2, <1>3, <1>5
  <2>3. Schedule!ShareKept'
    BY <1>1, <2>1, <2>2, Zenon DEF Schedule!ShareKept, Crowded
  <2>4. Built'
    BY <1>1, <1>2, <2>1, <2>3 DEF Built
  <2>5. at' \in Nat /\ count' \in Int
    BY <2>1
  <2>. QED
    BY <1>1, <1>2, <2>1, <2>4, <2>5, Building
<1>. QED
  BY <1>4, <1>5

\* The next interval is one of the table.
LEMMA Small == ASSUME NEW n \in Nat, NEW a \in 0 .. n - 1 PROVE a % n = a
OBVIOUS

\* The answers in a row are a row of the table.
LEMMA AnswerStep == ASSUME SchedInv, Schedule!next_tx_state PROVE SchedInv'
<1>1. /\ stage \in {"ready", "answer"} /\ stage' = "ready" /\ at' = 0 /\ count' = 0
      /\ UNCHANGED <<tx, tableOf, pctx>> /\ tableOf = pctx
  BY DEF Schedule!next_tx_state, Schedule!Known, Schedule!Go, SchedInv, Built
<1>2. /\ run' = IF tx[cell] = 1 THEN run + 1 ELSE 0
      /\ cell' = (cell + 1) % Schedule!Size /\ fresh' = (cell + 1 = Schedule!Size)
  BY DEF Schedule!next_tx_state
<1>3. tx[cell] = 1 => pure' = pure
  <2>1. pure' = (tx[cell] = 0 \/ pure) /\ pure \in BOOLEAN
    BY Zenon DEF Schedule!next_tx_state, SchedInv, SchedType
  <2>2. tx[cell] = 1 => ~(tx[cell] = 0)
    OBVIOUS
  <2>. QED
    BY <2>1, <2>2, Zenon
<1>4. fresh' \in BOOLEAN /\ pure' \in BOOLEAN
  BY DEF Schedule!next_tx_state
<1>5. Limited(tx, lim) /\ lim' = lim /\ lim \in 1 .. 3
  BY <1>1, LimType DEF SchedInv, Built, lim
<1>6. cell \in 0 .. Schedule!Size - 1 /\ run \in Nat
  BY DEF SchedInv, SchedType, Schedule!Cells
<1>7. cell' = IF cell + 1 = Schedule!Size THEN 0 ELSE cell + 1
  <2>1. CASE cell + 1 = Schedule!Size
    BY <2>1, <1>2, Sizes
  <2>2. CASE cell + 1 # Schedule!Size
    <3>1. cell + 1 \in 0 .. Schedule!Size - 1
      BY <2>2, <1>6, Sizes
    <3>. QED
      BY <2>2, <3>1, <1>2, Sizes, Small
  <2>. QED
    BY <2>1, <2>2
<1>8. SchedType'
  <2>1. cell' \in Schedule!Cells /\ run' \in Nat /\ at' \in Nat /\ count' \in Int
    BY <1>1, <1>2, <1>6, <1>7, Sizes DEF Schedule!Cells
  <2>. QED
    BY <1>1, <1>4, <2>1, Zenon DEF SchedInv, SchedType
<1>9. Built'
  BY <1>1, <1>5 DEF Built, Schedule!ShareKept
<1>10. CASE tx[cell] # 1
  <2>1. run' = 0 /\ 0 <= lim'
    BY <1>2, <1>5, <1>10
  <2>2. Schedule!NotInARow'
    BY <2>1 DEF Schedule!NotInARow, lim
  <2>3. InTheRow'
    BY <2>1, <2>2 DEF InTheRow
  <2>. QED
    BY <1>8, <1>9, <2>3 DEF SchedInv
<1>11. CASE tx[cell] = 1 /\ ~pure
  <2>1. ~pure'
    BY <1>3, <1>11, Zenon
  <2>2. fresh' => cell' = 0
    BY <1>2, <1>7
  <2>3. InTheRow'
    BY <2>1, <2>2, Zenon DEF InTheRow, Schedule!NotInARow
  <2>. QED
    BY <1>8, <1>9, <2>3 DEF SchedInv
<1>12. CASE tx[cell] = 1 /\ pure
  <2>1. run' = run + 1 /\ cell > 0
    BY <1>2, <1>5, <1>6, <1>12 DEF Limited
  <2>2. run <= lim
    BY <1>12 DEF SchedInv, InTheRow, Schedule!NotInARow, lim
  <2>3. run > 0 => run <= cell /\ \A k \in 1 .. run : tx[cell - k] = 1
    BY <1>12, <2>1 DEF SchedInv, InTheRow
  <2>4. ASSUME NEW k \in 1 .. run + 1 PROVE tx[(cell + 1) - k] = 1
    <3>1. CASE k = 1
      <4>1. (cell + 1) - k = cell
        BY <3>1, <1>6
      <4>. QED
        BY <4>1, <1>12
    <3>2. CASE k # 1
      <4>1. k - 1 \in 1 .. run /\ (cell + 1) - k = cell - (k - 1) /\ run > 0
        BY <3>2, <1>6
      <4>. QED
        BY <4>1, <2>3
    <3>. QED
      BY <3>1, <3>2
  <2>5. run + 1 <= cell + 1
    BY <2>3, <1>6
  <2>6. run + 1 <= lim
    <3>1. SUFFICES ASSUME run = lim PROVE FALSE
      BY <2>2, <1>5, <1>6
    <3>2. cell - lim \in Schedule!Cells /\ (cell - lim) + lim < Schedule!Size
      BY <3>1, <2>5, <1>5, <1>6, Sizes DEF Schedule!Cells
    <3>3. PICK k \in 0 .. lim : tx[(cell - lim) + k] = 0
      BY <3>2, <1>5, Zenon DEF Limited
    <3>4. lim + 1 - k \in 1 .. run + 1 /\ (cell + 1) - (lim + 1 - k) = (cell - lim) + k
      BY <3>1, <1>5, <1>6
    <3>. QED
      BY <2>4, <3>3, <3>4
  <2>7. Schedule!NotInARow'
    BY <1>1, <2>1, <2>6 DEF Schedule!NotInARow, lim
  <2>8. fresh' => cell' = 0
    BY <1>2, <1>7
  <2>9. cell' # 0 => run' <= cell' /\ \A k \in 1 .. run' : tx'[cell' - k] = 1
    BY <1>1, <1>7, <2>1, <2>4, <2>5
  <2>10. InTheRow'
    <3>1. tableOf' = pctx' /\ stage' \in {"ready", "answer"}
      BY <1>1
    <3>. QED
      BY <2>7, <2>8, <2>9, <3>1, Zenon DEF InTheRow
  <2>. QED
    BY <1>8, <1>9, <2>10 DEF SchedInv
<1>. QED
  BY <1>10, <1>11, <1>12

\* After a change of the percentage the row is no longer one table's.
LEMMA PercentStep == ASSUME SchedInv, Schedule!set_tx_percent PROVE SchedInv'
<1>1. /\ stage = "ready" /\ UNCHANGED <<tx, tableOf, cell, fresh, stage, at, count, run>>
      /\ pctx' \in Pcts /\ pure' = (run = 0)
  BY DEF Schedule!set_tx_percent, Schedule!build
<1>2. pure' \in BOOLEAN
  BY <1>1
<1>3. SchedType'
  BY <1>1, <1>2, Zenon DEF SchedInv, SchedType
<1>4. lim' = lim /\ lim \in 1 .. 3
  BY <1>1, LimType DEF SchedInv, lim
<1>5. Built'
  BY <1>1, <1>4 DEF SchedInv, Built, Schedule!ShareKept
<1>6. pure' => run' = 0 /\ ~(run' > 0) /\ run' <= lim'
  <2>1. pure' => run' = 0
    BY <1>1, Zenon
  <2>. QED
    BY <2>1, <1>4
<1>7. InTheRow'
  BY <1>1, <1>6 DEF SchedInv, InTheRow, Schedule!NotInARow, lim
<1>. QED
  BY <1>3, <1>5, <1>7 DEF SchedInv

\* Every step of the schedule keeps the invariant.
LEMMA SchedSteps == ASSUME SchedInv, Schedule!Next PROVE SchedInv'
BY CreateStep, SparseStep, FillStep, TrimStep, BackfillStep, TopUpStep, AnswerStep, PercentStep
   DEF Schedule!Next

\* The other parts leave the schedule alone.
LEMMA SchedStutters ==
  ASSUME SchedInv, UNCHANGED scheduleOnly
  PROVE  SchedInv'
<1>1. UNCHANGED <<tx, tableOf, cell, fresh, pctx, stage, at, count, run, pure>>
  BY DEF scheduleOnly
<1>2. SchedType'
  BY <1>1, Zenon DEF SchedInv, SchedType
<1>3. Built'
  BY <1>1 DEF SchedInv, Built, Trimmed, lim, Schedule!ShareKept
<1>4. InTheRow'
  BY <1>1 DEF SchedInv, InTheRow, Schedule!NotInARow
<1>. QED
  BY <1>2, <1>3, <1>4 DEF SchedInv

----------------------------------------------------------------------------
(* The four parts together *)

\* The band a hop is sent on, what waits for pskreporter.info, what waits for
\* wsprnet.org: each belongs to its part.  The schedule's has SchedInv, on its own.
SpotsInv ==
  /\ part = "hop" => HopInv
  /\ part = "psk" => PskInv
  /\ part = "upload" => UpInv

LEMMA PskStutters ==
  ASSUME PskInv, UNCHANGED <<freq, pskOnly>>
  PROVE  PskInv'
BY DEF PskInv, PskType, Followed, Linked, Queued, Psk!ReportTrue, pskOnly

LEMMA UpStutters ==
  ASSUME UpInv, UNCHANGED <<freq, uploadOnly>>
  PROVE  UpInv'
<1>1. UNCHANGED <<interval, m_dialFreqRxWSPR, uploadTimer, saved, p1, finished, file, urlQueue,
                  requests, posted, found, late, freq>>
  BY DEF uploadOnly
<1>2. UpType'
  BY <1>1, Zenon DEF UpInv, UpType
<1>3. FileWhole'
  BY <1>1 DEF UpInv, FileWhole
<1>4. RunNew'
  BY <1>1 DEF UpInv, RunNew, Named, Listed, Quiet
<1>5. Asked'
  BY <1>1, Zenon DEF UpInv, Asked
<1>6. Turn'
  BY <1>1 DEF UpInv, Turn, Named, Listed, Quiet
<1>7. FoundKept'
  BY <1>1, Zenon DEF UpInv, FoundKept, Quiet
<1>8. Once'
  BY <1>1 DEF UpInv, Once, Exempt
<1>. QED
  BY <1>2, <1>3, <1>4, <1>5, <1>6, <1>7, <1>8 DEF UpInv

LEMMA SpotsStart == MCInit => SpotsInv
<1> SUFFICES ASSUME MCInit PROVE SpotsInv
  OBVIOUS
<1>1. CASE part = "hop" /\ Hop!Init
  BY <1>1, HopStarts DEF SpotsInv
<1>2. CASE part = "schedule"
  BY <1>2 DEF SpotsInv
<1>3. CASE part = "upload" /\ Upload!Init
  BY <1>3, UpStarts DEF SpotsInv
<1>4. CASE part = "psk" /\ Psk!Init
  BY <1>4, PskStarts DEF SpotsInv
<1>. QED
  BY <1>1, <1>2, <1>3, <1>4 DEF MCInit

LEMMA SpotsStep == SpotsInv /\ [MCNext]_MCVars => SpotsInv'
<1> SUFFICES ASSUME SpotsInv, [MCNext]_MCVars PROVE SpotsInv'
  OBVIOUS
<1>1. CASE HopStep /\ part' = part
  BY <1>1, HopSteps DEF SpotsInv, HopStep
<1>2. CASE ScheduleStep /\ part' = part
  BY <1>2 DEF SpotsInv, ScheduleStep
<1>3. CASE UploadStep /\ part' = part
  BY <1>3, UpSteps DEF SpotsInv, UploadStep
<1>4. CASE PskStep /\ part' = part
  BY <1>4, PskSteps DEF SpotsInv, PskStep
<1>5. CASE UNCHANGED MCVars
  <2>1. UNCHANGED <<part, freq, pskOnly, uploadOnly, old_row, byHand, plan, sent>>
    BY <1>5 DEF MCVars, hopOnly
  <2>. QED
    BY <2>1, HopKept, PskStutters, UpStutters DEF SpotsInv
<1>. QED
  BY <1>1, <1>2, <1>3, <1>4, <1>5 DEF MCNext

LEMMA SpotsInvariant == MCSpec => []SpotsInv
<1>1. SpotsInv /\ [MCNext]_MCVars => SpotsInv'
  BY SpotsStep
<1>. QED
  BY <1>1, SpotsStart, PTL DEF MCSpec

\* A hop's carrier or transmission goes out on the band of the hop: the rows of
\* old_row, of the plan and of the rig part only when the band is moved by hand.
THEOREM HopKeepsBand == MCSpec => []OnHoppedBand
<1>. DEFINE Mine == part = "hop" => HopInv
<1>1. MCInit => Mine
  BY HopStarts DEF MCInit
<1>2. Mine /\ [MCNext]_MCVars => Mine'
  <2> SUFFICES ASSUME Mine, [MCNext]_MCVars, part' = "hop" PROVE HopInv'
    OBVIOUS
  <2>1. CASE UNCHANGED MCVars
    <3>1. UNCHANGED <<part, freq, old_row, byHand, plan, sent>>
      BY <2>1 DEF MCVars, hopOnly
    <3>. QED
      BY <3>1, HopKept
  <2>2. CASE MCNext
    <3>1. part = "hop" /\ Hop!Next
      BY <2>2 DEF MCNext, HopStep, ScheduleStep, UploadStep, PskStep
    <3>. QED
      BY <3>1, HopSteps
  <2>. QED
    BY <2>1, <2>2
<1>3. Mine => OnHoppedBand
  BY DEF OnHoppedBand, HopInv
<1>. QED
  BY <1>1, <1>2, <1>3, PTL DEF MCSpec

\* The schedule never transmits more often in a row than ntxlim allows, across the end of a
\* table too, unless the percentage was changed in between; and a table above 25 % has the
\* transmissions asked for, or no room for one more: for tables of every size, any number of
\* rounds of backfilling and all the choices of rand().
THEOREM ScheduleHolds == MCSpec => []ScheduleKept
<1>. DEFINE Mine == part = "schedule" => SchedInv
<1>1. MCInit => Mine
  BY SchedStarts DEF MCInit
<1>2. Mine /\ [MCNext]_MCVars => Mine'
  <2> SUFFICES ASSUME Mine, [MCNext]_MCVars, part' = "schedule" PROVE SchedInv'
    OBVIOUS
  <2>1. CASE UNCHANGED MCVars
    <3>1. UNCHANGED part /\ UNCHANGED scheduleOnly
      BY <2>1 DEF MCVars
    <3>. QED
      BY <3>1, SchedStutters
  <2>2. CASE MCNext
    <3>1. part = "schedule" /\ Schedule!Next
      BY <2>2 DEF MCNext, HopStep, ScheduleStep, UploadStep, PskStep
    <3>. QED
      BY <3>1, SchedSteps
  <2>. QED
    BY <2>1, <2>2
<1>3. Mine => ScheduleKept
  BY DEF ScheduleKept, SchedInv, Built, InTheRow
<1>. QED
  BY <1>1, <1>2, <1>3, PTL DEF MCSpec

\* No spot is posted to wsprnet.org twice, unless the file of its interval met another
\* upload, and none under a band it was not heard on; and what is sent to pskreporter.info
\* says where each station was heard, unless it was decoded while a band chosen in the
\* program was on its way to the rig and back.
THEOREM SpotsAreTrue == MCSpec => []SpotsTrue
<1>1. SpotsInv => SpotsTrue
  <2> SUFFICES ASSUME SpotsInv PROVE SpotsTrue
    OBVIOUS
  <2>1. part = "psk" => Psk!ReportTrue
    BY DEF SpotsInv, PskInv
  <2>2. ASSUME part = "upload" PROVE Upload!SpotsSound
    <3>1. UpInv
      BY <2>2 DEF SpotsInv
    <3>2. posted \in Seq(Asks) /\ DOMAIN posted = 1..Len(posted)
      BY <3>1 DEF UpInv, UpType
    <3>3. \A i \in 1..Len(posted) :
            posted[i].spot.k # 0 /\ (posted[i].spot.k # 0 => posted[i].rfreq = posted[i].spot.band)
      BY <3>1, Zenon DEF UpInv, Asked
    <3>. QED
      BY <3>1, <3>2, <3>3 DEF UpInv, Once, Exempt, Upload!SpotsSound
  <2>. QED
    BY <2>1, <2>2 DEF SpotsTrue
<1>. QED
  BY <1>1, SpotsInvariant, PTL

\* An answer removes the file when every spot of it was asked for, or refused.
LEMMA FileAnswered ==
  ASSUME UpInv, Upload!networkReply, file' # file, NEW n \in DOMAIN file
  PROVE  refused' \/ file[n] \in Upload!Posted \/ file[n].of \in late
<1>1. PICK m \in DOMAIN requests : Upload!Failed(m) \/ Upload!Accepted(m) \/ Upload!Refused(m)
  BY DEF Upload!networkReply
<1>2. CASE Upload!Failed(m)
  BY <1>2 DEF Upload!Failed
<1>3. CASE Upload!Refused(m)
  BY <1>3, Zenon DEF Upload!Refused
<1>4. CASE Upload!Accepted(m)
  <2>1. urlQueue = <<>> /\ file' = None
    BY <1>4 DEF Upload!Accepted
  <2>2. file # None /\ n \in 1..Len(file) /\ Len(file) > 0
    BY <2>1 DEF UpInv, UpType
  <2>3. file[n].of = file[1].of
    BY <2>2 DEF UpInv, FileWhole
  <2>4. CASE file[1].of \in late
    BY <2>3, <2>4
  <2>5. CASE file[1].of \notin late
    <3>1. ~Quiet
      BY <1>1 DEF Quiet
    <3>2. \/ \E i \in 1..Len(posted) : posted[i].spot = file[n]
          \/ \E i \in 1..Len(urlQueue) : urlQueue[i].spot = file[n]
      BY <2>2, <2>5, <3>1 DEF UpInv, Turn, Listed
    <3>3. 1..Len(urlQueue) = {}
      BY <2>1
    <3>4. DOMAIN posted = 1..Len(posted)
      BY DEF UpInv, UpType
    <3>. QED
      BY <3>2, <3>3, <3>4, Zenon DEF Upload!Posted
  <2>. QED
    BY <2>4, <2>5
<1>. QED
  BY <1>1, <1>2, <1>3, <1>4

\* The report that there was no spot goes out when the file has none.
LEMMA EmptyTold ==
  ASSUME UpInv, Upload!uploadSpots, urlQueue' # urlQueue, m_uploadType' = 1
  PROVE  found.n = 0 \/ found.of \in late
<1>1. CASE found.of \in late
  BY <1>1
<1>2. CASE found.of \notin late
  <2>1. uploadTimer
    BY DEF Upload!uploadSpots
  <2>2. Quiet /\ file # None /\ Len(file) = found.n
    BY <1>2, <2>1 DEF UpInv, FoundKept
  <2>3. CASE file = <<>>
    BY <2>2, <2>3, Len(<<>>) = 0
  <2>4. CASE file # <<>>
    <3>. DEFINE left == IF m_uploading THEN <<>> ELSE urlQueue
    <3>1. left = <<>>
      BY <2>2 DEF Quiet
    <3>2. /\ urlQueue' = left \o [i \in 1 .. Len(Upload!Fitting) |-> Upload!Request(Upload!Fitting[i])]
          /\ m_uploadType' = IF Upload!Fitting = <<>> THEN m_uploadType ELSE 2
      BY <2>2, <2>4 DEF Upload!uploadSpots, Upload!Unaborted, Upload!net
    <3>3. Upload!Fitting = <<>>
      BY <3>2
    <3>4. [i \in 1 .. Len(Upload!Fitting) |-> Upload!Request(Upload!Fitting[i])] = <<>>
      <4>1. Len(Upload!Fitting) = 0
        BY <3>3, Len(<<>>) = 0
      <4>. HIDE <3>3
      <4>. QED
        BY <4>1
    <3>5. urlQueue' = <<>>
      BY <3>1, <3>2, <3>4
    <3>. QED
      BY <2>2, <3>5 DEF Quiet
  <2>. QED
    BY <2>3, <2>4
<1>. QED
  BY <1>1, <1>2

\* wsprnet.org is told of every spot before the file that holds it is removed, and of an
\* interval without spots only when there were none, unless the file met another upload.
THEOREM SpotsAreTold == MCSpec => SpotsTold
<1>1. SpotsInv /\ [MCNext]_MCVars =>
        [file' # file /\ Upload!networkReply =>
           refused' \/ \A n \in DOMAIN file :
             file[n] \in Upload!Posted \/ file[n].of \in late]_(Upload!vars)
  <2> SUFFICES ASSUME SpotsInv, [MCNext]_MCVars, file' # file, Upload!networkReply,
                      NEW n \in DOMAIN file
               PROVE  refused' \/ file[n] \in Upload!Posted \/ file[n].of \in late
    BY Zenon
  <2>1. part = "upload"
    BY DEF MCNext, MCVars, HopStep, ScheduleStep, UploadStep, PskStep, uploadOnly
  <2>. QED
    BY <2>1, FileAnswered DEF SpotsInv
<1>2. SpotsInv /\ [MCNext]_MCVars =>
        [urlQueue' # urlQueue /\ Upload!uploadSpots /\ m_uploadType' = 1 =>
           found.n = 0 \/ found.of \in late]_(Upload!vars)
  <2> SUFFICES ASSUME SpotsInv, [MCNext]_MCVars, urlQueue' # urlQueue, Upload!uploadSpots,
                      m_uploadType' = 1
               PROVE  found.n = 0 \/ found.of \in late
    BY Zenon
  <2>1. part = "upload"
    BY DEF MCNext, MCVars, HopStep, ScheduleStep, UploadStep, PskStep, uploadOnly
  <2>. QED
    BY <2>1, EmptyTold DEF SpotsInv
<1>. QED
  BY <1>1, <1>2, SpotsInvariant, PTL DEF MCSpec, SpotsTold, Upload!SpotsKept, Upload!NoSpotTrue
==============================================================================
