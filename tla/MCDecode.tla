------------------------------ MODULE MCDecode -------------------------------
(* A small world for what surrounds the decoder process: its jobs            *)
(* (DecodeHandshake, whose variables have their own names), recordings read  *)
(* from files and downloaded, and the program wsprd.  "part" says which      *)
(* component a behaviour is of; they do not meet, and the variables s1, s2   *)
(* ... stand for those of the part.                                          *)
EXTENDS DecodeHandshake

CONSTANTS MaxOps, MaxRuns, MaxErrors

VARIABLES part, s1, s2, s3, s4, s5, s6, s7, s8, s9, s10, s11, s12, s13, s14, s15, s16,
          s17, s18

\* Files of two lengths that are decoded, and one that is too short.
Lengths == <<4, 2, 5>>

\* Recordings of up to three bytes, and lists of facts; files of other programs with their
\* chunks in other orders, and with odd lengths.
Bytes(n) == [k \in 1..n |-> k]
Fact(key, n) == [key |-> key, text |-> Bytes(n)]
FactLists == {<<>>, <<Fact("ICMT", 2)>>} \cup {<<Fact("ICMT", i), Fact("ISRC", j)>> : i \in 0..2, j \in 1..2}

\* Calls, plain and with prefixes and suffixes, grids and powers, as codes of CallHash.
Cat(S, U) == {s \o u : s \in S, u \in U}
K1ABC == <<20, 1, 10, 11, 12>>
PlainCalls == {K1ABC, <<10, 10, 0, 35, 35, 35>>, <<0, 10, 9, 10>>, <<10, 0, 10, 35>>, <<9, 35, 0, 10, 35>>}
Grids == {<<a, b, c, d>> : a \in {10, 27}, b \in {10, 27}, c \in {0, 9}, d \in {0, 9}}
PowersOf(S) == {IF p < 10 THEN <<p>> ELSE <<p \div 10, p % 10>> : p \in S}
Prefixes == UNION {[1..n -> {0, 10, 23, 34, 35}] : n \in 1..3}
Suffixes == {<<c>> : c \in 0..35} \cup {<<c, d>> : c \in 1..9, d \in 0..9}
Compound == Cat(Cat(Prefixes, {<<37>>}), {K1ABC, <<35, 1, 10>>})
            \cup Cat({K1ABC \o <<37>>, <<10, 10, 0, 35, 35, 35, 37>>}, Suffixes)
Type1s == Cat(Cat(Cat(PlainCalls, {<<36>>}), Cat(Grids, {<<36>>})), PowersOf({0, 3, 7, 10, 23, 57, 60}))
Type2s == Cat(Cat(Compound, {<<36>>}), PowersOf({0, 37, 60}))
Type3s == Cat(Cat({<<38>>}, Compound), {<<39, 36, 15, 20, 5, 2, 36, 3, 7>>, <<39, 36, 27, 10, 9, 0, 10, 33, 36, 3, 7>>})
WsprTexts == Type1s \cup Type2s \cup Type3s

\* A call of three characters, a prefix, a suffix, the same calls as hashes, and a call with
\* the hash of one of them.
Signal(text, f, snr) == [text |-> text, f |-> f, snr |-> snr]
OnAir ==
  {Signal(K1ABC \o <<36, 15, 23, 4, 2, 36, 3, 3>>, 10, 5),
   Signal(<<20, 1, 10, 36, 15, 23, 4, 2, 36, 3, 3>>, 20, 4),
   Signal(<<25, 19, 4, 37>> \o K1ABC \o <<36, 3, 7>>, 30, 3),
   Signal(<<38, 25, 19, 4, 37>> \o K1ABC \o <<39, 36, 15, 20, 5, 2, 30, 13, 36, 3, 7>>, 40, 6),
   Signal(<<38>> \o K1ABC \o <<37, 7, 39, 36, 15, 23, 4, 2, 36, 3, 3>>, 60, 1),
   Signal(K1ABC \o <<37, 7, 36, 3, 3>>, 70, 7),
   Signal(<<20, 1, 25, 13, 17, 36, 15, 23, 4, 2, 36, 3, 3>>, 50, 2)}

\* The values of a symbol that was received right, wrong, or not at all.
Worth == <<<<5, -20, -4>>, <<-20, 5, -4>>>>

----------------------------------------------------------------------------
\* Three files; a period is decoded after three steps.
Disk == INSTANCE DiskAudio WITH
  m_path <- s1, m_diskData <- s2, m_loopall <- s3, m_startAnother <- s4,
  m_monitoring <- s5, m_decoderBusy <- s6, readers <- s7, watched <- s8, nutc <- s9,
  d2 <- s10, kin <- s11, passes <- s12, k0 <- s13, ihsym <- s14, job <- s15, calm <- s16,
  opened <- s17, ops <- s18, Steps <- Lengths, Stop <- 3, MaxReaders <- 2

\* A file of two blocks; answers that redirect have no body.
Sample == INSTANCE SampleFile WITH
  checked <- s1, local_file <- s2, file <- s3, url <- s4, reply <- s5, is_valid <- s6,
  redirect_count <- s7, answer <- s8, rest <- s9, crashed <- s10, clicks <- s11,
  faults <- s12, Content <- <<1, 2>>, Pages <- {<<>>}, MaxRedirects <- 3,
  MaxClicks <- MaxOps + 3, MaxFaults <- MaxOps

\* The chunks of other programs: format, samples, facts, and two that are passed over.
Wav == INSTANCE WaveFile WITH
  data <- s1, list <- s2, file <- s3, pc <- s4, item <- s5, header_length <- s6, list_start <- s7,
  cut <- s8, Audios <- {}, Lists <- {}, Others <- {}
ChunkOf(id, body) == [id |-> id, body |-> body, list |-> <<>>]
Format == ChunkOf("fmt ", Wav!Fmt("PCM"))
Samples(n) == ChunkOf("data", Wav!Plain(Bytes(n)))
Passed(n) == ChunkOf("bext", Wav!Plain(Bytes(n)))
Labels(n) == ChunkOf("LIST", Wav!Tag("adtl") \o Wav!Plain(Bytes(n)))
Facts(i, j) ==
  [id |-> "LIST", list |-> <<Fact("ICMT", i), Fact("ISRC", j)>>,
   body |-> Wav!PadIf(Wav!Tag("INFO") \o Wav!Desc("ICMT", i + 1) \o Wav!Text(Bytes(i)))
            \o Wav!Desc("ISRC", j + 1) \o Wav!Text(Bytes(j))]
OtherFiles ==
  [chunks : UNION {{<<Format, Samples(n), Facts(i, j)>>, <<Passed(n), Format, Facts(i, j), Samples(j)>>,
                    <<Format, Labels(n), Samples(i), Passed(j)>>, <<Format, Samples(n)>>} :
                     n \in 0..3, i \in 0..2, j \in 0..2},
   padded : BOOLEAN]

\* Files as they are saved, and the files of other programs below.
Wave == INSTANCE WaveFile WITH
  data <- s1, list <- s2, file <- s3, pc <- s4, item <- s5, header_length <- s6,
  list_start <- s7, cut <- s8, Audios <- {Bytes(n) : n \in 0..3}, Lists <- FactLists,
  Others <- OtherFiles

\* Four bits and a tail of three.
Fano == INSTANCE FanoDecoder WITH
  sent <- s1, symbols <- s2, np <- s3, encstate <- s4, gamma <- s5, tm <- s6, branch <- s7,
  t <- s8, i <- s9, ret <- s10, nbits <- 7, TailBits <- 3, POLY1 <- {0, 1, 3},
  POLY2 <- {0, 1, 2, 3}, mettab <- Worth, delta <- 6, maxcycles <- 20

\* Several signals in an interval.
Wspr == INSTANCE WsprDecoder WITH
  phase <- s1, air <- s2, data <- s3, ipass <- s4, cand <- s5, decodes <- s6,
  hashtab <- s7, file <- s8, printed <- s9, runs <- s10, misses <- s11, told <- s12,
  Signals <- OnAir, MaxSignals <- 2, MaxMisses <- 1

ASSUME MCAssumption ==
  /\ Disk!DiskAssumption
  /\ Sample!SampleAssumption
  /\ Wave!WaveAssumption
  /\ Fano!FanoAssumption
  /\ Wspr!DecoderAssumption

----------------------------------------------------------------------------
\* A part leaves the variables it has no use for alone.
\* The variables of DecodeHandshake while another part runs.
NoJobs == Init /\ dxCall = CHOOSE c \in DxCalls : TRUE

MCInit ==
  \/ /\ part = "jobs" /\ Init
     /\ s1 = 0 /\ s2 = 0 /\ s3 = 0 /\ s4 = 0 /\ s5 = 0 /\ s6 = 0 /\ s7 = 0 /\ s8 = 0
     /\ s9 = 0 /\ s10 = 0 /\ s11 = 0 /\ s12 = 0 /\ s13 = 0 /\ s14 = 0 /\ s15 = 0 /\ s16 = 0
     /\ s17 = 0 /\ s18 = 0
  \/ /\ part = "disk" /\ Disk!Init /\ NoJobs
  \/ /\ part = "sample" /\ Sample!Init /\ NoJobs
     /\ s13 = 0 /\ s14 = 0 /\ s15 = 0 /\ s16 = 0 /\ s17 = 0 /\ s18 = 0
  \/ /\ part = "wave" /\ Wave!Init /\ NoJobs
     /\ s9 = 0 /\ s10 = 0 /\ s11 = 0 /\ s12 = 0 /\ s13 = 0 /\ s14 = 0 /\ s15 = 0 /\ s16 = 0
     /\ s17 = 0 /\ s18 = 0
  \/ /\ part = "fano" /\ Fano!Init /\ NoJobs
     /\ s11 = 0 /\ s12 = 0 /\ s13 = 0 /\ s14 = 0 /\ s15 = 0 /\ s16 = 0 /\ s17 = 0 /\ s18 = 0
  \/ /\ part = "wspr" /\ Wspr!Init /\ NoJobs
     /\ s13 = 0 /\ s14 = 0 /\ s15 = 0 /\ s16 = 0 /\ s17 = 0 /\ s18 = 0
  \/ /\ part = "message" /\ s1 \in WsprTexts /\ NoJobs
     /\ s2 = 0 /\ s3 = 0 /\ s4 = 0 /\ s5 = 0 /\ s6 = 0 /\ s7 = 0 /\ s8 = 0 /\ s9 = 0
     /\ s10 = 0 /\ s11 = 0 /\ s12 = 0 /\ s13 = 0 /\ s14 = 0 /\ s15 = 0 /\ s16 = 0 /\ s17 = 0
     /\ s18 = 0
Spares == <<s1, s2, s3, s4, s5, s6, s7, s8, s9, s10, s11, s12, s13, s14, s15, s16, s17,
            s18>>
JobsStep == part = "jobs" /\ Next /\ UNCHANGED Spares
DiskStep ==
  /\ part = "disk" /\ Disk!Next
  /\ UNCHANGED <<m_dataAvailable, m_decoderBusy, dxCall, dec_data, requests, closing,
                 mem, lock, quit, stdout, pc, job, overrun, missed, agains, clicks>>
SampleStep ==
  /\ part = "sample" /\ Sample!Next
  /\ UNCHANGED <<m_dataAvailable, m_decoderBusy, dxCall, dec_data, requests, closing,
                 mem, lock, quit, stdout, pc, job, overrun, missed, agains, clicks,
                 s13, s14, s15, s16, s17, s18>>
WaveStep ==
  /\ part = "wave" /\ Wave!Next
  /\ UNCHANGED <<m_dataAvailable, m_decoderBusy, dxCall, dec_data, requests, closing,
                 mem, lock, quit, stdout, pc, job, overrun, missed, agains, clicks, s9,
                 s10, s11, s12, s13, s14, s15, s16, s17, s18>>
FanoStep ==
  /\ part = "fano" /\ Fano!Next
  /\ UNCHANGED <<m_dataAvailable, m_decoderBusy, dxCall, dec_data, requests, closing,
                 mem, lock, quit, stdout, pc, job, overrun, missed, agains, clicks,
                 s11, s12, s13, s14, s15, s16, s17, s18>>
WsprStep ==
  /\ part = "wspr" /\ Wspr!Next
  /\ UNCHANGED <<m_dataAvailable, m_decoderBusy, dxCall, dec_data, requests, closing,
                 mem, lock, quit, stdout, pc, job, overrun, missed, agains, clicks,
                 s13, s14, s15, s16, s17, s18>>
MCVars == <<part, m_dataAvailable, m_decoderBusy, dxCall, dec_data, requests, closing,
            mem, lock, quit, stdout, pc, job, overrun, missed, agains, clicks, s1, s2,
            s3, s4, s5, s6, s7, s8, s9, s10, s11, s12, s13, s14, s15, s16, s17, s18>>
MCNext ==
  /\ UNCHANGED part
  /\ \/ JobsStep \/ DiskStep \/ SampleStep \/ WaveStep \/ FanoStep
     \/ WsprStep
\* What goes on by itself: jtdxjt9, the event loop, threads, and the network.
Working ==
  \/ part = "jobs" /\ Decoder
  \/ part = "disk" /\ Disk!Goes_on
  \/ part = "sample" /\ Sample!Network
Answering ==
  \/ part = "jobs" /\ ReadLine
  \/ part = "disk" /\ Disk!DecodeFinished
Fair ==
  /\ WF_MCVars(Working /\ MCNext) /\ WF_MCVars(Answering /\ MCNext)
  /\ WF_MCVars(part = "jobs" /\ Ending /\ MCNext)
MCSpec == MCInit /\ [][MCNext]_MCVars /\ Fair

----------------------------------------------------------------------------
\* What wsprd says is what was sent: a message is unpacked as it was packed,
\* the decoder of the code finds it (FanoDecoder), and each station on the air is printed once,
\* under a call heard in full that has its hash or with three dots; twice only when its hash
\* was told in full in the same interval (WsprDecoder).
DecodesTrue ==
  /\ part = "message" => Wspr!RoundTrip(s1)
  /\ part = "fano" => Fano!MetricTrue /\ Fano!FewErrors
  /\ part = "wspr" => Wspr!PrintedTrue /\ Wspr!CallsKept /\ Wspr!AllHeard

\* Recordings are whole: those saved and read again (WaveFile), those handed to the decoder
\* (DiskAudio) and those downloaded (SampleFile); decoding and downloading them comes to an end.
RecordingsTrue ==
  /\ [](part = "wave" => Wave!ReadBack /\ Wave!TornRefused)
  /\ [](part = "sample" => Sample!SampleWhole)
  /\ [][part = "disk" => Disk!JobPure]_MCVars
  /\ []<>(part = "disk" => Disk!LoopOver)
  /\ []<>(part = "sample" => Sample!Idle)

============================================================================
