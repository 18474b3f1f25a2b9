-------------------------- MODULE DecodeHandshake --------------------------
(***************************************************************************)
(* How MainWindow has the decoder process jtdxjt9 decode what was received  *)
(* (JT65, JT9 and T10; the fast modes and WSPR have ways of their own).     *)
(* Two processes share a block of memory and the file .lock: MainWindow     *)
(* copies a job to the memory and removes the file; jtdxjt9, which looks    *)
(* for the file every 100 ms, decodes, prints a last line, and waits for    *)
(* the file to come back before it waits for the next job.                  *)
(***************************************************************************)
EXTENDS Integers, Sequences

CONSTANTS
  DxCalls,      \* entries of the DX Call field
  MaxPeriods,   \* bound: periods received
  MaxAgain,     \* bound: requests to decode a period again
  MaxClicks,    \* bound: clicks on the waterfall and edits of the DX Call field
  MaxLines,     \* bound: messages of a job still to be read
  Crashes       \* jtdxjt9 may crash

ASSUME DecodeAssumption ==
  /\ DxCalls # {} /\ MaxPeriods \in Nat /\ MaxAgain \in Nat /\ MaxClicks \in Nat
  /\ MaxLines \in Nat /\ Crashes \in BOOLEAN

VARIABLES
  \* MainWindow
  m_dataAvailable, m_decoderBusy,
  dxCall,          \* the DX Call field
  dec_data,        \* the period received last and the flags of the next job
  requests,        \* jobs requested
  closing,         \* no, waiting (in closeEvent), closed or exited (by jt9_error)
  \* shared by the two processes
  mem,             \* mem_jtdxjt9
  lock, quit,      \* the files .lock and .quit exist
  stdout,          \* the pipe from jtdxjt9
  \* jtdxjt9
  pc, job,
  \* history
  overrun,         \* the running job was overtaken by the end of a period
  missed,          \* a job was requested before jtdxjt9 had seen .lock come back
  \* counters of the bounds
  agains, clicks

mainVars == <<m_dataAvailable, m_decoderBusy, dxCall, dec_data, requests, closing>>
sharedVars == <<mem, lock, quit, stdout>>
decoderVars == <<pc, job>>
history == <<overrun, missed>>
counts == <<agains, clicks>>
vars == <<mainVars, sharedVars, decoderVars, history, counts>>

Periods == 1..MaxPeriods

\* What the parameters behind nutc say: the number stands for the rest of them.
Params == [n : 0..(MaxPeriods + MaxAgain), again : BOOLEAN, wide : BOOLEAN]
NoParams == [n |-> 0, again |-> FALSE, wide |-> FALSE]

\* A job as it lies in memory: the parameters before nutc (the DX call), those
\* behind it, and the audio of a period.
Nothing == [dx |-> "none", params |-> NoParams, audio |-> 0]

Init ==
  /\ m_dataAvailable = FALSE /\ m_decoderBusy = FALSE /\ dxCall \in DxCalls
  /\ dec_data = [period |-> 0, again |-> FALSE, wide |-> FALSE]
  /\ requests = 0 /\ closing = "no"
  /\ mem = Nothing /\ lock = TRUE /\ quit = FALSE /\ stdout = <<>>
  /\ pc = "wait" /\ job = Nothing
  /\ overrun = FALSE /\ missed = FALSE /\ agains = 0 /\ clicks = 0

Running == closing = "no"

-----------------------------------------------------------------------------
\* MainWindow: requests

\* decode with the flags d: a new period is copied whole, for another attempt at
\* the same audio the parameters from nutc on are enough.
Copied(d, new) ==
  [mem EXCEPT !.params = [n |-> requests', again |-> d.again, wide |-> d.wide],
              !.dx = IF new THEN dxCall ELSE @,
              !.audio = IF new THEN d.period ELSE @]

decode(d, new) ==
  /\ dec_data' = d /\ requests' = requests + 1
  /\ mem' = Copied(d, new)
  /\ lock' = FALSE /\ m_decoderBusy' = TRUE
  /\ missed' = (missed \/ (lock /\ pc = "again"))
  /\ UNCHANGED <<dxCall, closing, quit, stdout, decoderVars>>

\* dataSink has received hsymStop half symbols: the period is decoded, whether
\* the decoder is busy or not.
PeriodEnds ==
  /\ Running /\ dec_data.period < MaxPeriods /\ m_dataAvailable' = TRUE
  /\ decode([period |-> dec_data.period + 1, again |-> FALSE, wide |-> FALSE], TRUE)
  /\ overrun' = (overrun \/ m_decoderBusy) /\ UNCHANGED counts

\* The Decode button, and the keys Shift-D, which are for the whole band.
MayRequest_always == m_dataAvailable
MayRequest == m_dataAvailable /\ ~m_decoderBusy

DecodeAgain ==
  /\ Running /\ MayRequest /\ agains < MaxAgain /\ agains' = agains + 1
  /\ \E narrow \in BOOLEAN : decode([dec_data EXCEPT !.again = narrow], FALSE)
  /\ UNCHANGED <<m_dataAvailable, overrun, clicks>>

\* freezeDecode: a click on the waterfall is for the next decode, the second one
\* of a double click presses Decode.
ClickWaterfall ==
  /\ Running /\ clicks < MaxClicks /\ clicks' = clicks + 1
  /\ dec_data' = [dec_data EXCEPT !.wide = TRUE]
  /\ UNCHANGED <<m_dataAvailable, m_decoderBusy, dxCall, requests, closing, sharedVars,
                 decoderVars, history, agains>>

DoubleClickWaterfall ==
  /\ Running /\ MayRequest /\ agains < MaxAgain /\ agains' = agains + 1
  /\ decode([dec_data EXCEPT !.again = TRUE, !.wide = TRUE], FALSE)
  /\ UNCHANGED <<m_dataAvailable, overrun, clicks>>

EditDxCall ==
  /\ Running /\ clicks < MaxClicks /\ clicks' = clicks + 1
  /\ dxCall' \in DxCalls \ {dxCall}
  /\ UNCHANGED <<m_dataAvailable, m_decoderBusy, dec_data, requests, closing, sharedVars,
                 decoderVars, history, agains>>

-----------------------------------------------------------------------------
\* MainWindow: readFromStdout

\* The last line of a job: the flags are cleared, .lock is created again, and the
\* buttons are enabled.  The wait in closeEvent reads lines, too.
LockAgain_not == lock
LockAgain == TRUE

ReadLine ==
  /\ closing \in {"no", "waiting"} /\ stdout # <<>> /\ stdout' = Tail(stdout)
  /\ IF Head(stdout).last
     THEN /\ dec_data' = [dec_data EXCEPT !.again = FALSE, !.wide = FALSE]
          /\ lock' = LockAgain /\ m_decoderBusy' = FALSE
          /\ overrun' = FALSE /\ missed' = FALSE
     ELSE UNCHANGED <<dec_data, lock, m_decoderBusy, history>>
  /\ UNCHANGED <<m_dataAvailable, dxCall, requests, closing, mem, quit, decoderVars, counts>>

-----------------------------------------------------------------------------
\* MainWindow: the end

\* closeEvent waits for the end of jtdxjt9, a second at most.
CloseWindow ==
  /\ Running /\ closing' = "waiting" /\ quit' = TRUE /\ lock' = FALSE
  /\ UNCHANGED <<m_dataAvailable, m_decoderBusy, dxCall, dec_data, requests, mem, stdout,
                 decoderVars, history, counts>>

Over == {"ended", "killed", "crashed"}

Closed ==
  /\ closing = "waiting" /\ closing' = "closed" /\ quit' = FALSE
  /\ UNCHANGED <<m_dataAvailable, m_decoderBusy, dxCall, dec_data, requests, mem, lock,
                 stdout, job, history, counts>>

DecoderFinished == Closed /\ pc \in Over /\ UNCHANGED pc

Killed_not == pc
Killed == "killed"
WaitTimesOut == Closed /\ pc \notin Over /\ pc' = Killed

\* jt9_error: a message, and the program exits.
jt9_error ==
  /\ Running /\ pc = "crashed" /\ closing' = "exited"
  /\ UNCHANGED <<m_dataAvailable, m_decoderBusy, dxCall, dec_data, requests, sharedVars,
                 decoderVars, history, counts>>

-----------------------------------------------------------------------------
\* jtdxjt9

At(line) == pc = line
Goes(line) == pc' = line /\ UNCHANGED <<mainVars, mem, lock, quit, history, counts>>

\* Label 10: while there is a file .lock, wait; then look for .quit.
SeesNoLock == At("wait") /\ ~lock /\ Goes("go") /\ UNCHANGED <<stdout, job>>

SeesQuit == At("go") /\ quit /\ Goes("ended") /\ UNCHANGED <<stdout, job>>

CopiesParams ==
  /\ At("go") /\ ~quit /\ Goes("audio")
  /\ job' = [job EXCEPT !.dx = mem.dx, !.params = mem.params] /\ UNCHANGED stdout

CopiesAudio ==
  /\ At("audio") /\ Goes("decoding")
  /\ job' = [job EXCEPT !.audio = mem.audio] /\ UNCHANGED stdout

Line(last) == [n |-> job.params.n, last |-> last]

PrintsMessage ==
  /\ At("decoding") /\ Len(stdout) < MaxLines /\ Goes("decoding")
  /\ stdout' = Append(stdout, Line(FALSE)) /\ UNCHANGED job

\* Label 100: wait until the file .lock is back.
AfterJob_wait == "wait"
AfterJob == "again"

PrintsLast ==
  /\ At("decoding") /\ Goes(AfterJob)
  /\ stdout' = Append(stdout, Line(TRUE)) /\ UNCHANGED job

SeesLock == At("again") /\ lock /\ Goes("wait") /\ UNCHANGED <<stdout, job>>

Crash == Crashes /\ pc \notin Over /\ Goes("crashed") /\ UNCHANGED <<stdout, job>>

-----------------------------------------------------------------------------
Request == PeriodEnds \/ DecodeAgain \/ DoubleClickWaterfall
Decoder == SeesNoLock \/ SeesQuit \/ CopiesParams \/ CopiesAudio \/ PrintsLast \/ SeesLock
Ending == DecoderFinished \/ WaitTimesOut

Next ==
  \/ Request \/ ClickWaterfall \/ EditDxCall \/ ReadLine
  \/ CloseWindow \/ Ending \/ jt9_error
  \/ Decoder \/ PrintsMessage \/ Crash

\* Both processes run, jobs come to an end, and the wait in closeEvent is short.
Fairness == WF_vars(Decoder) /\ WF_vars(ReadLine) /\ WF_vars(Ending)

Spec == Init /\ [][Next]_vars /\ Fairness

-----------------------------------------------------------------------------
\* Properties

Jobs == [dx : DxCalls \cup {"none"}, params : Params, audio : {0} \cup Periods]

\* Types; and nothing is decoded before a period has been received.
TypeOK ==
  /\ m_dataAvailable \in BOOLEAN /\ m_decoderBusy \in BOOLEAN /\ dxCall \in DxCalls
  /\ dec_data \in [period : {0} \cup Periods, again : BOOLEAN, wide : BOOLEAN]
  /\ requests \in 0..(MaxPeriods + MaxAgain)
  /\ closing \in {"no", "waiting", "closed", "exited"}
  /\ mem \in Jobs /\ lock \in BOOLEAN /\ quit \in BOOLEAN
  /\ stdout \in Seq([n : 0..(MaxPeriods + MaxAgain), last : BOOLEAN])
  /\ pc \in {"wait", "go", "audio", "decoding", "again"} \cup Over /\ job \in Jobs
  /\ overrun \in BOOLEAN /\ missed \in BOOLEAN
  /\ agains \in 0..MaxAgain /\ clicks \in 0..MaxClicks
  /\ Running /\ pc = "decoding" => job.audio \in Periods

\* When MainWindow takes the decoder for idle it is, and has nothing more to say:
\* no result comes in behind the last line, no job runs twice.
OneJob ==
  Running /\ ~m_decoderBusy => stdout = <<>> /\ pc \in {"wait", "again"} \cup Over

\* A job is what was requested last, parameters and audio, and so are the lines
\* read, unless the end of a period overtook it: the operator alone cannot make
\* the decoder take half of one job and half of another.
JobWhole ==
  Running /\ ~overrun =>
    /\ pc = "decoding" => job = mem /\ job.audio = dec_data.period
    /\ \A k \in 1..Len(stdout) : stdout[k].n = requests

\* Every request is answered, if the file .lock had been seen to be back.
Answered ==
  m_decoderBusy ~> (~m_decoderBusy \/ missed \/ ~Running \/ pc = "crashed")

\* The decoder does not outlive the program, and leaves no file .quit to the next.
DecoderEnds == closing = "waiting" ~> (pc \in Over /\ ~quit)

\* Promised: removing .lock allows jtdxjt9 to start.
DecoderStarts == m_decoderBusy ~> (~m_decoderBusy \/ ~Running \/ pc = "crashed")

\* Promised: the decoders that use the DX call take it from the DX Call window,
\* as it reads when the job is requested.
RequestUsesDxCall == [][Request => mem'.dx = dxCall]_vars
=============================================================================
