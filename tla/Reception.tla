----------------------------- MODULE Reception -----------------------------
(***************************************************************************)
(* Reception: the sound card's stream and the Detector in the audio thread  *)
(* fill dec_data.d2 with the audio of the running T/R period, and dataSink  *)
(* in the GUI thread, told of each block by a queued signal, counts half    *)
(* symbols and starts the decoder when enough of the period is there.       *)
(*                                                                          *)
(* One step of the clock is one block of audio (a half symbol, 0.288 s in   *)
(* the JT modes); seconds are counted in blocks.  A block is known by the   *)
(* step in which it was recorded.  Periods are those of the JT modes; WSPR, *)
(* the fast modes and files from disk are left out.                         *)
(***************************************************************************)
EXTENDS Integers, Sequences, FiniteSets

CONSTANTS
  Period,     \* blocks in a T/R period (208 in a minute)
  Stop,       \* m_hsymStop with decode_at_52s (TRUE) and without (FALSE)
  LateLimit,  \* the 35 seconds until which a late start is decoded
  AddTx,      \* the 2 seconds of processing delay after a transmission
  MaxLag,     \* bound: framesWritten signals that dataSink is behind
  MaxTime,    \* bound: length of a behaviour, in steps of the clock
  MaxOps,     \* bound: interventions of operator and sequencer
  Stalls      \* bound: lengths of a pause in which no audio arrives, once

ReceptionAssumption ==
  /\ Period \in Nat \ {0} /\ Stop \in [BOOLEAN -> Nat \ {0}]
  /\ MaxLag \in Nat \ {0} /\ LateLimit \in Nat /\ AddTx \in Nat
  /\ \A b \in BOOLEAN : Stop[b] + MaxLag + 1 < Period
  /\ MaxTime \in Nat /\ MaxOps \in Nat /\ Stalls \subseteq Nat

VARIABLES
  now,             \* clock steps since the start
  active,          \* the audio input stream is running (audio thread)
  kin, m_ns, d2,   \* blocks in the buffer, second of the last one, the buffer
  audioQ,          \* calls queued to SoundInput
  frameQ,          \* framesWritten signals on their way to dataSink
  k0, ihsym,       \* of symspec: frames at the last call, half symbols so far
  m_monitoring, m_transmitting,
  ndelay, m_addtx, \* displacement told to the decoder, and what stopTx adds
  at52,            \* the setting decode_at_52s
  job,             \* history: what the decoder was last started with, and whether
                   \* the audio thread had begun the next period by then
  decodes,         \* history: decoder starts in this period
  heard,           \* history: since when every block has been received
  stalled,         \* the pause has happened
  ops              \* interventions so far

audioVars == <<active, kin, m_ns, d2>>
symVars == <<k0, ihsym>>
guiVars == <<m_monitoring, m_transmitting, ndelay, m_addtx, at52>>
histVars == <<job, decodes, heard>>
vars == <<now, audioVars, audioQ, frameQ, symVars, guiVars, histVars, stalled, ops>>

Never == MaxTime + 2 * Period + 1
second == now % Period
PeriodStart(t) == t - (t % Period)
NextStart(t) == PeriodStart(t) + Period
NoJob == [blocks |-> <<>>, ihsym |-> 0, ndelay |-> 0, overtaken |-> FALSE]

\* The stream is started before Monitor is switched on.
Init ==
  /\ now = 0 /\ active = TRUE /\ kin = 0 /\ m_ns = Period /\ d2 = <<>>
  /\ audioQ = <<>> /\ frameQ = <<>>
  /\ k0 = Never /\ ihsym = 0
  /\ m_monitoring = FALSE /\ m_transmitting = FALSE /\ ndelay = 0 /\ m_addtx = 0
  /\ at52 \in BOOLEAN
  /\ job = NoJob /\ decodes = 0 /\ heard = Never /\ stalled = FALSE /\ ops = 0

-----------------------------------------------------------------------------
\* The audio thread

\* writeData: a second smaller than the last one is in a new period, and the
\* buffer is filled from its beginning.
Wraps == second < m_ns
Filled == IF Wraps THEN 0 ELSE kin

\* What the buffer holds after a block: older audio stays behind the new.
Store(n) ==
  [i \in 1..(IF n + 1 > Len(d2) THEN n + 1 ELSE Len(d2)) |->
     IF i = n + 1 THEN now ELSE d2[i]]

\* A block's time passes; an active stream hands the block to the Detector.
Elapse ==
  /\ now < MaxTime /\ audioQ = <<>> /\ Len(frameQ) < MaxLag
  /\ now' = now + 1
  /\ decodes' = IF (now + 1) % Period = 0 THEN 0 ELSE decodes
  /\ IF active
     THEN /\ m_ns' = second /\ kin' = Filled + 1 /\ d2' = Store(Filled)
          /\ frameQ' = Append(frameQ, Filled + 1)
     ELSE UNCHANGED <<kin, m_ns, d2, frameQ>>
  /\ UNCHANGED <<active, audioQ, symVars, guiVars, job, heard, stalled, ops>>

\* The device delivers nothing for a while (or the computer sleeps): the next
\* block may come in a later period at no smaller second.
Stall(n) ==
  /\ ~stalled /\ now + n <= MaxTime /\ audioQ = <<>> /\ frameQ = <<>>
  /\ stalled' = TRUE /\ now' = now + n
  /\ heard' = IF heard = Never THEN Never ELSE NextStart(now + n)
  /\ decodes' = IF PeriodStart(now + n) # PeriodStart(now) THEN 0 ELSE decodes
  /\ UNCHANGED <<audioVars, audioQ, frameQ, symVars, guiVars, job, ops>>

\* The slots of SoundInput.  resume empties the buffer, suspend and start do not.
Emptied_not == kin
Emptied == 0

AudioCall ==
  /\ audioQ # <<>> /\ audioQ' = Tail(audioQ)
  /\ active' = (Head(audioQ) # "suspend")
  /\ kin' = IF Head(audioQ) = "resume" THEN Emptied ELSE kin
  /\ UNCHANGED <<now, m_ns, d2, frameQ, symVars, guiVars, histVars, stalled, ops>>

-----------------------------------------------------------------------------
\* dataSink

\* symspec starts again when there are fewer frames than at its last call.
NewBlock(k) == k < k0
HalfSymbols(k) == IF NewBlock(k) THEN 1 ELSE ihsym + 1

\* int(ndelay*3.38): a second is taken for 3.38 half symbols, though 12000 samples
\* are 3.47 of them; of a delay counted in blocks, that many blocks.
HalfSymbolsIn(delay) == (delay * 338 * 3456) \div (100 * 12000)

\* Enough of the period is there, or of what is left of it after a late start.
Enough(n) == \/ n = Stop[at52]
             \/ ndelay > 0 /\ n + HalfSymbolsIn(ndelay) > Stop[at52]

dataSink ==
  /\ frameQ # <<>>
  /\ LET k == Head(frameQ)
         n == HalfSymbols(k) IN
     /\ frameQ' = Tail(frameQ) /\ k0' = k /\ ihsym' = n
     /\ IF Enough(n)
        THEN /\ job' = [blocks |-> SubSeq(d2, 1, k), ihsym |-> n, ndelay |-> ndelay,
                       overtaken |-> kin < k]
             /\ decodes' = decodes + 1 /\ ndelay' = 0
        ELSE UNCHANGED <<job, decodes, ndelay>>
  /\ UNCHANGED <<now, audioVars, audioQ, m_monitoring, m_transmitting, m_addtx,
                 at52, heard, stalled, ops>>

-----------------------------------------------------------------------------
\* The Monitor button and the transmit sequencer

\* Switched on between the first second and the limit, the decoder will be told
\* how much of the period is missing.
Displacement(old) == IF second > 0 /\ second < LateLimit THEN second + m_addtx ELSE old

\* monitor (state)
monitor(state) ==
  /\ m_monitoring' = state
  /\ IF state /\ m_monitoring THEN UNCHANGED <<audioQ, heard>>
     ELSE /\ audioQ' = Append(audioQ, IF state THEN "resume" ELSE "suspend")
          /\ heard' = IF state THEN now ELSE Never
AddTxUsed(state) == IF state /\ ~m_monitoring THEN 0 ELSE m_addtx
NDelay(state) == IF state /\ ~m_monitoring THEN Displacement(ndelay) ELSE ndelay

Intervene == ops < MaxOps /\ ops' = ops + 1 /\ now < MaxTime

\* on_monitorButton_clicked does nothing in transmission; stopButton always
\* switches off, and setBand switches on if the station does not transmit.
SetMonitor(state) ==
  /\ Intervene /\ (state => ~m_transmitting)
  /\ monitor(state) /\ m_addtx' = AddTxUsed(state) /\ ndelay' = NDelay(state)
  /\ UNCHANGED <<now, audioVars, frameQ, symVars, m_transmitting, at52, job, decodes,
                 stalled>>

\* transmitDisplay (true)
StartTx ==
  /\ Intervene /\ ~m_transmitting /\ m_transmitting' = TRUE
  /\ IF m_monitoring THEN monitor(FALSE) ELSE UNCHANGED <<m_monitoring, audioQ, heard>>
  /\ UNCHANGED <<now, audioVars, frameQ, symVars, ndelay, m_addtx, at52, job, decodes,
                 stalled>>

\* stopTx: m_addtx is set after monitor has used it.
stopTx ==
  /\ Intervene /\ m_transmitting /\ m_transmitting' = FALSE
  /\ monitor(TRUE)
  /\ m_addtx' = IF second > 0 /\ second < LateLimit THEN AddTx ELSE AddTxUsed(TRUE)
  /\ ndelay' = IF second >= LateLimit THEN 0 ELSE NDelay(TRUE)
  /\ UNCHANGED <<now, audioVars, frameQ, symVars, at52, job, decodes, stalled>>

\* New settings: another sound card, or another time of decoding.
ChangeSettings ==
  /\ Intervene
  /\ \/ audioQ' = Append(audioQ, "start") /\ UNCHANGED <<at52, heard>>
     \/ at52' = ~at52 /\ UNCHANGED audioQ
        /\ heard' = IF heard = Never THEN Never ELSE NextStart(now)
  /\ UNCHANGED <<now, audioVars, frameQ, symVars, m_monitoring, m_transmitting, ndelay,
                 m_addtx, job, decodes, stalled>>

Terminated == now = MaxTime /\ audioQ = <<>> /\ frameQ = <<>> /\ UNCHANGED vars

Next ==
  \/ Elapse \/ (\E n \in Stalls : Stall(n)) \/ AudioCall \/ dataSink
  \/ (\E state \in BOOLEAN : SetMonitor(state)) \/ StartTx \/ stopTx
  \/ ChangeSettings \/ Terminated

Spec == Init /\ [][Next]_vars

-----------------------------------------------------------------------------
TypeOK ==
  /\ now \in 0..MaxTime /\ active \in BOOLEAN /\ kin \in Nat /\ m_ns \in 0..Period
  /\ d2 \in Seq(0..MaxTime) /\ kin <= Len(d2)
  /\ audioQ \in Seq({"start", "suspend", "resume"}) /\ frameQ \in Seq(Nat \ {0})
  /\ Len(frameQ) <= MaxLag
  /\ k0 \in Nat /\ ihsym \in Nat
  /\ m_monitoring \in BOOLEAN /\ m_transmitting \in BOOLEAN
  /\ ndelay \in Nat /\ m_addtx \in {0, AddTx} /\ at52 \in BOOLEAN
  /\ job \in [blocks : Seq(0..MaxTime), ihsym : Nat, ndelay : Nat, overtaken : BOOLEAN]
  /\ decodes \in Nat /\ heard \in Nat /\ stalled \in BOOLEAN /\ ops \in 0..MaxOps

\* The blocks of a job were recorded one after the other in one period.
Whole(blocks) ==
  \A i \in 1..Len(blocks) :
    /\ blocks[i] = blocks[1] + i - 1
    /\ PeriodStart(blocks[i]) = PeriodStart(blocks[1])

WholeJob ==
  LET n == Len(job.blocks) IN
  (n > 0 /\ job.blocks[n] >= heard) => (job.blocks[1] >= heard /\ Whole(job.blocks))

\* Once every block is received again, the decoder is started with the gapless
\* audio of one period: whatever Monitor, a transmission, a new sound card, a
\* pause of the device or a GUI that is behind did to the buffer before, nothing
\* older and nothing of another period is left in what it gets.  Not so for a start
\* at the very end of a period, when the audio thread is already filling the buffer
\* anew: a period decoded late is decoded again after Stop blocks.
JobWhole == ~job.overtaken => WholeJob

\* Promised (release notes, as NoSecondDecode): none of those starts is made.
JobAlwaysWhole == WholeJob

\* A period that is received from its start, or from before the limit for late
\* starts, is decoded before it ends, though a delay is taken for too few half
\* symbols.
TooFew == LateLimit - HalfSymbolsIn(LateLimit)
PeriodDecoded ==
  (/\ heard < PeriodStart(now) + LateLimit
   /\ second > Stop[at52] + MaxLag + TooFew) => decodes > 0

\* The first job of a period in which reception began late is told where its
\* audio belongs, to within the processing delay of a transmission.
DisplacementTold ==
  (/\ decodes = 1 /\ job.blocks # <<>> /\ job.blocks[1] = heard
   /\ PeriodStart(now) = PeriodStart(heard)
   /\ 0 < heard % Period /\ heard % Period < LateLimit)
  => job.ndelay - (heard % Period) \in {0, AddTx}

\* A period that began late is still decoded, and told from where.
PeriodTold == PeriodDecoded /\ DisplacementTold

\* Promised (release notes): bugs that "triggered early decoding in the next
\* interval" are fixed.  A period received whole is not decoded as a late start.
NoEarlyDecode ==
  (job.blocks # <<>> /\ job.blocks[1] >= heard /\ job.blocks[1] % Period = 0)
  => job.ndelay = 0

\* Promised (release notes): so are those of "early additional decoding".  A period
\* is decoded once.
NoSecondDecode == decodes <= 1

\* Promised: the Monitor button is "highlighted in green when the WSJT-X is
\* receiving".  Nothing is decoded with Monitor off.
MonitorOffSilent == [][decodes' > decodes => m_monitoring]_vars
=============================================================================
