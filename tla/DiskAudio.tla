----------------------------- MODULE DiskAudio -----------------------------
(***************************************************************************)
(* Decoding recorded files: Open, Open Next and Decode Remaining Files.     *)
(* read_wav_file fills dec_data in a thread; when the thread is done diskDat *)
(* hands the samples to dataSink step by step, each time letting the event   *)
(* loop run: buttons, the decoder's last line, guiUpdate and, nested, the    *)
(* end of another reader come in between.  With m_loopall the end of a       *)
(* decode opens the next file.                                              *)
(*                                                                          *)
(* A file is its place in the directory.  A reader fills the buffer in two   *)
(* halves.  A period received from the sound card is one step; the stream    *)
(* has stopped by the time a reader starts.                                  *)
(***************************************************************************)
EXTENDS Integers, Sequences

CONSTANTS
  Steps,      \* of each file of the directory, its length in steps of dataSink
  Stop,       \* m_hsymStop
  MaxOps,     \* bound: commands of the operator
  MaxReaders  \* bound: readers at work at once

DiskAssumption ==
  /\ Steps \in Seq(Nat \ {0}) /\ Steps # <<>> /\ Stop \in Nat \ {0, 1}
  /\ MaxOps \in Nat /\ MaxReaders \in Nat

VARIABLES
  m_path, m_diskData, m_loopall, m_startAnother, m_monitoring, m_decoderBusy,
  readers,     \* threads of read_wav_file: the file, and how far they are
  watched,     \* m_wav_future_watcher: a running reader, one that is done, or none
  nutc, d2, kin,  \* dec_data: the time, the two halves of the samples, their number
  passes,      \* the nested runs of diskDat: the step each is at
  k0, ihsym,   \* of symspec
  job,         \* what the decoder was given
  calm,        \* history: no command came while a file was read, handed on or decoded
  opened,      \* history: files opened by m_loopall
  ops

vars == <<m_path, m_diskData, m_loopall, m_startAnother, m_monitoring, m_decoderBusy, readers,
          watched, nutc, d2, kin, passes, k0, ihsym, job, calm, opened, ops>>

Files == 1..Len(Steps)
Live == 0
\* The time of a file as its name says it is hhmmss; divided by 100 it is hhmm, and
\* divided three times it is 0 and stays so.
Time(f, n) == [of |-> f, divided |-> n]
NoJob == [audio |-> <<>>, time |-> Time(Live, 0), disk |-> FALSE, path |-> Live, new |-> FALSE]

Init ==
  /\ m_path \in Files /\ m_diskData = FALSE /\ m_loopall = FALSE /\ m_startAnother = FALSE
  /\ m_monitoring \in BOOLEAN /\ m_decoderBusy = FALSE
  /\ readers = <<>> /\ watched = 0 /\ nutc = Time(Live, 1)
  /\ d2 = <<Live, Live>> /\ kin = 0 /\ passes = <<>> /\ k0 = Stop + 1 /\ ihsym = 0
  /\ job = NoJob /\ calm = TRUE /\ opened = FALSE /\ ops = 0

Quiet == readers = <<>> /\ watched = 0 /\ passes = <<>>

dataVars == <<nutc, d2, kin>>
symVars == <<k0, ihsym>>

-----------------------------------------------------------------------------
\* read_wav_file

\* The watcher forgets the reader it watched before.
read_wav_file(f) ==
  /\ Len(readers) < MaxReaders
  /\ readers' = Append(readers, [file |-> f, at |-> "time"])
  /\ watched' = Len(readers) + 1

\* The steps of a reader, in a thread.
Reader(i) ==
  LET r == readers[i]
      Goes(at) == readers' = [readers EXCEPT ![i].at = at] IN
  /\ \/ /\ r.at = "time" /\ nutc' = Time(r.file, 0) /\ Goes("first") /\ UNCHANGED <<d2, kin>>
     \/ /\ r.at = "first" /\ d2' = [d2 EXCEPT ![1] = r.file] /\ Goes("second")
        /\ UNCHANGED <<nutc, kin>>
     \/ /\ r.at = "second" /\ d2' = [d2 EXCEPT ![2] = r.file] /\ Goes("kin")
        /\ UNCHANGED <<nutc, kin>>
     \/ /\ r.at = "kin" /\ kin' = Steps[r.file] /\ Goes("done") /\ UNCHANGED <<nutc, d2>>
  /\ UNCHANGED <<m_path, m_diskData, m_loopall, m_startAnother, m_monitoring, m_decoderBusy,
                 watched, passes, symVars, job, calm, opened, ops>>

\* Readers that are done and that nobody watches are forgotten.
Remaining == IF \A i \in DOMAIN readers : readers[i].at = "done" \/ i = watched
             THEN <<>> ELSE readers

-----------------------------------------------------------------------------
\* decode and dataSink

\* For a new job all is copied, to decode again only what follows nutc.
Divided(t) == IF t.divided < 3 THEN Time(t.of, t.divided + 1) ELSE t

decode(new, time) ==
  /\ nutc' = IF m_diskData THEN Divided(time) ELSE time
  /\ job' = [audio |-> IF new THEN d2 ELSE job.audio, time |-> nutc',
             disk |-> m_diskData, path |-> m_path, new |-> new]
  /\ m_decoderBusy' = TRUE

\* symspec starts again when there are fewer samples than before.
HalfSymbols_on(k) == ihsym + 1
HalfSymbols(k) == IF k < k0 THEN 1 ELSE ihsym + 1

dataSink(k) ==
  /\ k0' = k /\ ihsym' = HalfSymbols(k)
  /\ IF ihsym' = Stop THEN decode(TRUE, nutc) ELSE UNCHANGED <<nutc, job, m_decoderBusy>>

-----------------------------------------------------------------------------
\* diskDat

\* Step n of the innermost run, or its end; outer are the runs around it.
Step(outer, n) ==
  IF n > Stop \/ n + 1 > kin
  THEN passes' = outer /\ UNCHANGED <<symVars, nutc, job, m_decoderBusy>>
  ELSE passes' = Append(outer, n) /\ dataSink(n + 1)

\* The reader that is watched is done.
diskDat ==
  /\ watched # 0 /\ readers[watched].at = "done" /\ watched' = 0
  /\ readers' = Remaining /\ m_diskData' = TRUE
  /\ Len(passes) < MaxReaders
  /\ IF 2 > kin
     THEN UNCHANGED <<passes, symVars, nutc, job, m_decoderBusy>>
     ELSE /\ passes' = Append(passes, 1)
          /\ k0' = 2 /\ ihsym' = HalfSymbols(2)
          /\ IF ihsym' # Stop THEN UNCHANGED <<nutc, job, m_decoderBusy>>
             ELSE /\ nutc' = Divided(nutc) /\ m_decoderBusy' = TRUE
                  /\ job' = [audio |-> d2, time |-> nutc', disk |-> TRUE, path |-> m_path,
                            new |-> TRUE]
  /\ UNCHANGED <<m_path, m_loopall, m_startAnother, m_monitoring, d2, kin, calm, opened, ops>>

Continue ==
  /\ passes # <<>>
  /\ Step(SubSeq(passes, 1, Len(passes) - 1), passes[Len(passes)] + 1)
  /\ UNCHANGED <<m_path, m_diskData, m_loopall, m_startAnother, m_monitoring, readers, watched,
                 d2, kin, calm, opened, ops>>

-----------------------------------------------------------------------------
\* Commands

\* The operator gives a command when the last one's work is done.
Idle == Quiet /\ ~m_decoderBusy /\ ~m_startAnother
Intervene == ops < MaxOps /\ ops' = ops + 1
Command == Intervene /\ calm' = (calm /\ Idle)

\* on_actionOpen: it also switches the loop off.
Open(f) ==
  /\ Command /\ m_monitoring' = FALSE /\ m_loopall' = FALSE
  /\ m_path' = f /\ m_diskData' = TRUE /\ read_wav_file(f) /\ opened' = FALSE
  /\ UNCHANGED <<m_startAnother, m_decoderBusy, dataVars, passes, symVars, job>>

\* on_actionOpen_next_in_directory: the last file but one and the last one end the
\* loop.
Loops(was) == was /\ m_path < Len(Steps) - 1

open_next(loop) ==
  /\ m_monitoring' = FALSE /\ m_loopall' = Loops(loop)
  /\ IF m_path < Len(Steps)
     THEN m_path' = m_path + 1 /\ m_diskData' = TRUE /\ read_wav_file(m_path + 1)
     ELSE UNCHANGED <<m_path, m_diskData, readers, watched>>

OpenNext ==
  /\ Command /\ open_next(m_loopall) /\ opened' = FALSE
  /\ UNCHANGED <<m_startAnother, m_decoderBusy, dataVars, passes, symVars, job>>

DecodeRemaining ==
  /\ Command /\ open_next(TRUE) /\ opened' = TRUE
  /\ UNCHANGED <<m_startAnother, m_decoderBusy, dataVars, passes, symVars, job>>

\* guiUpdate: the loop goes on.
StartAnother ==
  /\ m_startAnother /\ m_startAnother' = FALSE
  /\ open_next(m_loopall) /\ opened' = TRUE /\ UNCHANGED calm
  /\ UNCHANGED <<m_decoderBusy, dataVars, passes, symVars, job, ops>>

stopButton ==
  /\ Intervene /\ UNCHANGED calm /\ m_monitoring' = FALSE /\ m_loopall' = FALSE
  /\ UNCHANGED <<m_path, m_diskData, m_startAnother, m_decoderBusy, readers, watched, dataVars,
                 passes, symVars, job, opened>>

Monitor ==
  /\ Command /\ ~m_monitoring /\ m_monitoring' = TRUE /\ m_diskData' = FALSE
  /\ UNCHANGED <<m_path, m_loopall, m_startAnother, m_decoderBusy, readers, watched, dataVars,
                 passes, symVars, job, opened>>

\* The Decode button; calm counts it as a command, its job is not a new one.
DecodeButton ==
  /\ Command /\ ~m_decoderBusy /\ job # NoJob
  /\ decode(FALSE, nutc)
  /\ UNCHANGED <<m_path, m_diskData, m_loopall, m_startAnother, m_monitoring, readers, watched,
                 d2, kin, passes, symVars, opened>>

-----------------------------------------------------------------------------
\* The last line of a job: readFromStdout.
DecodeFinished ==
  /\ m_decoderBusy /\ m_decoderBusy' = FALSE /\ m_startAnother' = m_loopall
  /\ UNCHANGED <<m_path, m_diskData, m_loopall, m_monitoring, readers, watched, dataVars,
                 passes, symVars, job, calm, opened, ops>>

\* A period of the sound card is received and decoded; guiUpdate runs more often.
LivePeriod ==
  /\ m_monitoring /\ ~m_startAnother /\ passes = <<>> /\ d2' = <<Live, Live>> /\ kin' = Stop + 1
  /\ k0' = Stop + 1 /\ ihsym' = Stop
  /\ LET time == IF m_diskData THEN nutc ELSE Time(Live, 1) IN
     /\ nutc' = IF m_diskData THEN Divided(time) ELSE time
     /\ job' = [audio |-> d2', time |-> nutc', disk |-> m_diskData, path |-> m_path,
               new |-> TRUE]
  /\ m_decoderBusy' = TRUE
  /\ UNCHANGED <<m_path, m_diskData, m_loopall, m_startAnother, m_monitoring, readers, watched,
                 passes, calm, opened, ops>>

Thread == \E i \in DOMAIN readers : Reader(i)
Next ==
  \/ Thread \/ diskDat \/ Continue \/ DecodeFinished \/ StartAnother \/ LivePeriod
  \/ (\E f \in Files : Open(f)) \/ OpenNext \/ DecodeRemaining
  \/ stopButton \/ Monitor \/ DecodeButton

\* Threads, the event loop and the decoder go on.
Goes_on == Thread \/ diskDat \/ Continue \/ StartAnother
Spec == Init /\ [][Next]_vars /\ WF_vars(Goes_on) /\ WF_vars(DecodeFinished)

-----------------------------------------------------------------------------
\* A new job that is started while the operator leaves reading alone holds one
\* recording, that of the file shown, or one received period, and is told its time
\* in hours and minutes: no step of diskDat works on another file's samples.
NewJob == job' # job /\ job'.new
Pure(j) ==
  IF j.disk THEN j.audio = <<j.path, j.path>> /\ j.time = Time(j.path, 1)
  ELSE j.audio = <<Live, Live>> /\ j.time = Time(Live, 1)
JobPure == NewJob /\ calm => Pure(job')
JobsPure == [][JobPure]_vars

\* Decode Remaining Files gets to the end of the directory, unless it comes to a
\* file too short to be decoded or a command interrupts it.
LoopOver == ~m_loopall \/ ~calm \/ kin < Stop + 1 \/ ~opened
LoopEnds == []<>LoopOver
=============================================================================
