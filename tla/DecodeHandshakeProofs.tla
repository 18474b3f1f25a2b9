----------------------- MODULE DecodeHandshakeProofs -----------------------
(***************************************************************************)
(* Proofs about DecodeHandshake, for all numbers of periods, requests,      *)
(* clicks and lines: its types, one job at a time (OneJob), and whole jobs  *)
(* (JobWhole).                                                              *)
(***************************************************************************)
EXTENDS DecodeHandshake, TLAPS

Numbers == 0..(MaxPeriods + MaxAgain)
Lines == [n : Numbers, last : BOOLEAN]
Places == {"wait", "go", "audio", "decoding", "again"} \cup Over

\* Each request is for a new period or one of the bounded repeats, and memory
\* holds what was requested last.
Counted ==
  /\ requests = dec_data.period + agains
  /\ m_decoderBusy => m_dataAvailable
  /\ m_dataAvailable => dec_data.period \in Periods
  /\ mem.params.n = requests /\ mem.audio = dec_data.period
  /\ pc = "decoding" => job.audio \in Periods

\* Where the two processes can be with respect to each other.
Handshake ==
  /\ lock => ~m_decoderBusy
  /\ Running /\ ~m_decoderBusy => lock
  /\ pc \in {"go", "audio", "decoding"} => ~lock
  /\ ~m_decoderBusy => stdout = <<>> /\ pc \notin {"audio", "decoding"}
  /\ closing = "waiting" => quit
  /\ closing \in {"closed", "exited"} => pc \in Over

\* The last line of a job is the last in the pipe, and then the job is over.
LastLine ==
  /\ pc \in {"wait", "go", "audio"} => stdout = <<>>
  /\ \A k \in 1..Len(stdout) :
       stdout[k].last => k = Len(stdout) /\ pc \in {"again"} \cup Over

\* What has not been overtaken is what was requested last.
Whole ==
  ~overrun =>
    /\ pc = "audio" => job.dx = mem.dx /\ job.params = mem.params
    /\ pc = "decoding" => job = mem
    /\ \A k \in 1..Len(stdout) : stdout[k].n = requests

Types ==
  /\ m_dataAvailable \in BOOLEAN /\ m_decoderBusy \in BOOLEAN /\ dxCall \in DxCalls
  /\ dec_data \in [period : {0} \cup Periods, again : BOOLEAN, wide : BOOLEAN]
  /\ requests \in Numbers
  /\ closing \in {"no", "waiting", "closed", "exited"}
  /\ mem \in Jobs /\ lock \in BOOLEAN /\ quit \in BOOLEAN
  /\ stdout \in Seq(Lines) /\ pc \in Places /\ job \in Jobs
  /\ overrun \in BOOLEAN /\ missed \in BOOLEAN
  /\ agains \in 0..MaxAgain /\ clicks \in 0..MaxClicks

IInv == Types /\ Counted /\ LastLine /\ Handshake /\ Whole

-----------------------------------------------------------------------------
Flags == [period : {0} \cup Periods, again : BOOLEAN, wide : BOOLEAN]

LEMMA NothingTyped == Nothing \in Jobs
  <1> USE DecodeAssumption
  <1>1. 0 \in Numbers
    BY SMT DEF Numbers
  <1>2. NoParams \in Params
    BY <1>1, Zenon DEF NoParams, Params, Numbers
  <1> QED
    BY <1>2 DEF Nothing, Jobs

LEMMA InitInv == Init => IInv
  <1> SUFFICES ASSUME Init PROVE IInv
    OBVIOUS
  <1> USE DecodeAssumption DEF Init
  <1>1. Types
    <2>1. requests \in Numbers /\ agains \in 0..MaxAgain /\ clicks \in 0..MaxClicks
      BY SMT DEF Numbers
    <2>2. mem \in Jobs /\ job \in Jobs
      BY NothingTyped
    <2>3. stdout \in Seq(Lines)
      OBVIOUS
    <2>4. closing \in {"no", "waiting", "closed", "exited"} /\ pc \in Places
      BY DEF Places
    <2> QED
      BY <2>1, <2>2, <2>3, <2>4 DEF Types
  <1>2. Counted
    BY DEF Counted, Nothing, NoParams
  <1>3. LastLine
    BY DEF LastLine
  <1>4. Handshake
    BY DEF Handshake, Running, Over
  <1>5. Whole
    BY DEF Whole
  <1> QED
    BY <1>1, <1>2, <1>3, <1>4, <1>5 DEF IInv

-----------------------------------------------------------------------------
\* A request: what decode does to types, counts, the two processes and the job.

LEMMA DecodeKeeps ==
  ASSUME IInv, NEW d \in Flags, NEW new \in BOOLEAN, decode(d, new), Running,
         new \/ d.period = dec_data.period, d.period \in Periods,
         requests + 1 = d.period + agains', agains' \in 0..MaxAgain,
         clicks' \in 0..MaxClicks, m_dataAvailable' = TRUE,
         overrun' \in BOOLEAN, m_decoderBusy => overrun', overrun => overrun'
  PROVE  IInv'
  <1> USE DecodeAssumption
  <1>0. Types /\ Counted /\ LastLine /\ Handshake /\ Whole
    BY DEF IInv
  <1>1. requests' \in Numbers
    <2>1. requests \in Nat /\ d.period \in 1..MaxPeriods
      BY <1>0 DEF Types, Numbers, Periods
    <2> QED
      BY <2>1 DEF decode, Numbers
  <1>2. mem' \in Jobs /\ mem'.params.n = requests' /\ mem'.audio = d.period
    <2>1. mem \in Jobs /\ mem.audio = dec_data.period /\ dxCall \in DxCalls
      BY <1>0 DEF Types, Counted
    <2> DEFINE p == [n |-> requests', again |-> d.again, wide |-> d.wide]
    <2>2. p \in Params
      BY <1>1 DEF Params, Numbers, Flags
    <2> HIDE DEF p
    <2>3. mem' = [mem EXCEPT !.params = p, !.dx = IF new THEN dxCall ELSE @,
                             !.audio = IF new THEN d.period ELSE @]
      BY DEF decode, Copied, p
    <2>4. mem' \in Jobs /\ mem'.params = p /\ mem'.audio = d.period
      BY <2>1, <2>2, <2>3 DEF Jobs, Flags
    <2>5. p.n = requests'
      BY DEF p
    <2> QED
      BY <2>4, <2>5
  <1>3. /\ dec_data' = d /\ requests' = requests + 1 /\ lock' = FALSE
        /\ m_decoderBusy' = TRUE /\ missed' = (missed \/ (lock /\ pc = "again"))
        /\ dxCall' = dxCall /\ closing' = closing /\ quit' = quit /\ stdout' = stdout
        /\ pc' = pc /\ job' = job
    BY DEF decode, decoderVars
  <1>4. Types'
    BY <1>0, <1>1, <1>2, <1>3, Zenon DEF Types, Flags
  <1>5. Counted'
    <2>1. requests' = dec_data'.period + agains'
      BY <1>3
    <2> QED
      BY <1>0, <1>2, <1>3, <2>1 DEF Counted
  <1>6. LastLine'
    BY <1>0, <1>3, Zenon DEF LastLine
  <1>7. Handshake'
    BY <1>0, <1>3, Zenon DEF Handshake, Running
  <1>8. Whole'
    <2>1. SUFFICES ASSUME ~overrun' PROVE Whole'
      BY DEF Whole
    <2>2. stdout = <<>> /\ pc \notin {"audio", "decoding"}
      BY <1>0, <2>1, Zenon DEF Handshake
    <2>3. stdout' = <<>> /\ pc' # "audio" /\ pc' # "decoding"
      BY <2>2, <1>3, Zenon
    <2> QED
      BY <2>3 DEF Whole
  <1> QED
    BY <1>4, <1>5, <1>6, <1>7, <1>8 DEF IInv

LEMMA RequestKeeps == ASSUME IInv, Request PROVE IInv'
  <1> USE DecodeAssumption
  <1>0. Types /\ Counted
    BY DEF IInv
  <1>t. /\ dec_data \in Flags /\ requests \in Nat /\ agains \in 0..MaxAgain
        /\ clicks \in 0..MaxClicks /\ overrun \in BOOLEAN /\ m_dataAvailable \in BOOLEAN
        /\ m_decoderBusy \in BOOLEAN
    BY <1>0 DEF Types, Flags, Numbers
  <1>1. CASE PeriodEnds
    <2> DEFINE d == [period |-> dec_data.period + 1, again |-> FALSE, wide |-> FALSE]
    <2>1. d \in Flags /\ d.period \in Periods
      BY <1>1, <1>t DEF PeriodEnds, Flags, Periods
    <2>2. requests + 1 = d.period + agains'
      BY <1>0, <1>1, <1>t DEF PeriodEnds, Counted, counts, Flags, Periods
    <2>3. decode(d, TRUE) /\ Running /\ overrun' = (overrun \/ m_decoderBusy)
          /\ agains' = agains /\ clicks' = clicks /\ m_dataAvailable' = TRUE
      BY <1>1 DEF PeriodEnds, counts
    <2> HIDE DEF d
    <2>4. overrun' \in BOOLEAN /\ (m_decoderBusy => overrun') /\ (overrun => overrun')
      BY <2>3, <1>t, Zenon
    <2>5. agains' \in 0..MaxAgain /\ clicks' \in 0..MaxClicks
      BY <2>3, <1>t, Zenon
    <2> QED
      BY <2>1, <2>2, <2>3, <2>4, <2>5, DecodeKeeps, Zenon
  <1>2. ASSUME NEW d \in Flags, decode(d, FALSE), Running, MayRequest,
               d.period = dec_data.period, agains < MaxAgain, agains' = agains + 1,
               UNCHANGED <<m_dataAvailable, overrun, clicks>>
        PROVE  IInv'
    <2>1. m_dataAvailable = TRUE /\ m_decoderBusy = FALSE
      BY <1>2, <1>t, Zenon DEF MayRequest
    <2>2. m_dataAvailable' = m_dataAvailable /\ overrun' = overrun /\ clicks' = clicks
      BY <1>2
    <2>3. d.period \in Periods
      BY <1>0, <1>2, <2>1, Zenon DEF Counted
    <2>4. agains' \in 0..MaxAgain
      BY <1>2, <1>t
    <2>5. requests + 1 = d.period + agains'
      <3>1. dec_data.period \in Nat /\ requests = dec_data.period + agains
        BY <1>0, <1>t DEF Counted, Flags, Periods
      <3> QED
        BY <1>2, <1>t, <3>1
    <2>6. overrun' \in BOOLEAN /\ (m_decoderBusy => overrun') /\ (overrun => overrun')
          /\ m_dataAvailable' = TRUE /\ clicks' \in 0..MaxClicks
      BY <2>1, <2>2, <1>t, Zenon
    <2> QED
      BY <1>2, <2>3, <2>4, <2>5, <2>6, DecodeKeeps, Zenon
  <1>3. CASE DecodeAgain
    <2>1. PICK narrow \in BOOLEAN : decode([dec_data EXCEPT !.again = narrow], FALSE)
      BY <1>3 DEF DecodeAgain
    <2> DEFINE d == [dec_data EXCEPT !.again = narrow]
    <2>2. d \in Flags /\ d.period = dec_data.period
      BY <1>t DEF Flags
    <2>3. Running /\ MayRequest /\ agains < MaxAgain /\ agains' = agains + 1
          /\ UNCHANGED <<m_dataAvailable, overrun, clicks>>
      BY <1>3 DEF DecodeAgain
    <2>4. decode(d, FALSE)
      BY <2>1
    <2> HIDE DEF d
    <2> QED
      BY <2>2, <2>3, <2>4, <1>2, Zenon
  <1>4. CASE DoubleClickWaterfall
    <2> DEFINE d == [dec_data EXCEPT !.again = TRUE, !.wide = TRUE]
    <2>2. d \in Flags /\ d.period = dec_data.period
      BY <1>t DEF Flags
    <2>3. Running /\ MayRequest /\ agains < MaxAgain /\ agains' = agains + 1
          /\ UNCHANGED <<m_dataAvailable, overrun, clicks>>
      BY <1>4 DEF DoubleClickWaterfall
    <2>4. decode(d, FALSE)
      BY <1>4 DEF DoubleClickWaterfall
    <2> HIDE DEF d
    <2> QED
      BY <2>2, <2>3, <2>4, <1>2, Zenon
  <1> QED
    BY <1>1, <1>3, <1>4 DEF Request

-----------------------------------------------------------------------------
\* The other steps of MainWindow.

LEMMA ClickKeeps == ASSUME IInv, ClickWaterfall \/ EditDxCall PROVE IInv'
  <1> USE DecodeAssumption
  <1>0. Types /\ Counted /\ LastLine /\ Handshake /\ Whole
    BY DEF IInv
  <1>1. /\ dec_data' \in Flags /\ dec_data'.period = dec_data.period /\ dxCall' \in DxCalls
        /\ clicks' \in 0..MaxClicks
    <2>1. dec_data \in Flags /\ dxCall \in DxCalls /\ clicks \in 0..MaxClicks
      BY <1>0 DEF Types, Flags
    <2>2. clicks < MaxClicks /\ clicks' = clicks + 1
      BY DEF ClickWaterfall, EditDxCall
    <2>3. dec_data' = [dec_data EXCEPT !.wide = TRUE] \/ dec_data' = dec_data
      BY DEF ClickWaterfall, EditDxCall
    <2>4. dxCall' = dxCall \/ dxCall' \in DxCalls
      BY DEF ClickWaterfall, EditDxCall
    <2>5. dec_data' \in Flags /\ dec_data'.period = dec_data.period
      BY <2>1, <2>3 DEF Flags
    <2>6. clicks' \in 0..MaxClicks
      BY <2>1, <2>2
    <2> QED
      BY <2>1, <2>4, <2>5, <2>6
  <1>2. /\ m_dataAvailable' = m_dataAvailable /\ m_decoderBusy' = m_decoderBusy
        /\ requests' = requests /\ closing' = closing /\ mem' = mem /\ lock' = lock
        /\ quit' = quit /\ stdout' = stdout /\ pc' = pc /\ job' = job
        /\ overrun' = overrun /\ missed' = missed /\ agains' = agains
    BY DEF ClickWaterfall, EditDxCall, sharedVars, decoderVars, history
  <1>3. Types'
    BY <1>0, <1>1, <1>2, Zenon DEF Types, Flags
  <1>4. Counted'
    BY <1>0, <1>1, <1>2 DEF Counted
  <1>5. LastLine' /\ Handshake' /\ Whole'
    BY <1>0, <1>2, Zenon DEF LastLine, Handshake, Whole, Running
  <1> QED
    BY <1>3, <1>4, <1>5 DEF IInv

LEMMA ReadLineKeeps == ASSUME IInv, ReadLine PROVE IInv'
  <1> USE DecodeAssumption
  <1>0. Types /\ Counted /\ LastLine /\ Handshake /\ Whole
    BY DEF IInv
  <1>1. /\ m_dataAvailable' = m_dataAvailable /\ dxCall' = dxCall /\ requests' = requests
        /\ closing' = closing /\ mem' = mem /\ quit' = quit /\ pc' = pc /\ job' = job
        /\ agains' = agains /\ clicks' = clicks
    BY DEF ReadLine, decoderVars, counts
  <1>2. /\ stdout \in Seq(Lines) /\ stdout # <<>> /\ stdout' = Tail(stdout)
        /\ dec_data \in Flags /\ closing \in {"no", "waiting"}
    BY <1>0 DEF ReadLine, Types, Flags
  <1>3. /\ stdout' \in Seq(Lines) /\ Len(stdout) \in Nat \ {0}
        /\ Len(stdout') = Len(stdout) - 1
        /\ \A k \in 1..Len(stdout') : k + 1 \in 1..Len(stdout) /\ stdout'[k] = stdout[k + 1]
    BY <1>2
  <1>4. ~overrun => \A k \in 1..Len(stdout') : stdout'[k].n = requests'
    BY <1>0, <1>1, <1>3 DEF Whole
  <1>5. CASE Head(stdout).last
    <2>1. stdout[1].last /\ 1 \in 1..Len(stdout)
      BY <1>5, <1>2, <1>3
    <2>2. Len(stdout) = 1 /\ pc \in {"again"} \cup Over
      BY <1>0, <2>1 DEF LastLine
    <2>3. stdout' = <<>>
      BY <1>2, <1>3, <2>2
    <2>4. /\ dec_data' = [dec_data EXCEPT !.again = FALSE, !.wide = FALSE]
          /\ lock' = TRUE /\ m_decoderBusy' = FALSE /\ overrun' = FALSE /\ missed' = FALSE
      BY <1>5 DEF ReadLine, LockAgain
    <2>5. dec_data' \in Flags /\ dec_data'.period = dec_data.period
      BY <1>2, <2>4 DEF Flags
    <2>6. pc \notin {"wait", "go", "audio", "decoding"}
      BY <2>2 DEF Over
    <2>7. Types'
      BY <1>0, <1>1, <1>3, <2>4, <2>5, Zenon DEF Types, Flags
    <2>8. Counted'
      BY <1>0, <1>1, <2>4, <2>5, <2>6 DEF Counted
    <2>9. LastLine'
      BY <1>1, <2>3 DEF LastLine
    <2>10. Handshake'
      <3>1. ~m_decoderBusy' => stdout' = <<>> /\ pc' \notin {"audio", "decoding"}
        BY <1>1, <2>3, <2>6
      <3>2. pc' \notin {"go", "audio", "decoding"}
        BY <1>1, <2>6
      <3> QED
        BY <3>1, <3>2, <1>0, <1>1, <2>4, Zenon DEF Handshake
    <2>11. Whole'
      BY <1>1, <2>3, <2>6 DEF Whole
    <2> QED
      BY <2>7, <2>8, <2>9, <2>10, <2>11 DEF IInv
  <1>6. CASE ~Head(stdout).last
    <2>1. UNCHANGED <<dec_data, lock, m_decoderBusy, history>>
      BY <1>6 DEF ReadLine
    <2>2. /\ dec_data' = dec_data /\ lock' = lock /\ m_decoderBusy' = m_decoderBusy
          /\ overrun' = overrun /\ missed' = missed
      BY <2>1 DEF history
    <2>3. m_decoderBusy
      BY <1>0, <1>2, Zenon DEF Handshake, Types
    <2>4. pc \notin {"wait", "go", "audio"}
      BY <1>0, <1>2, Zenon DEF LastLine
    <2>5. Types'
      BY <1>0, <1>1, <1>3, <2>2, Zenon DEF Types
    <2>6. Counted'
      BY <1>0, <1>1, <2>2 DEF Counted
    <2>7. LastLine'
      <3>1. ASSUME NEW k \in 1..Len(stdout'), stdout'[k].last
            PROVE  k = Len(stdout') /\ pc \in {"again"} \cup Over
        <4>1. k + 1 = Len(stdout) /\ pc \in {"again"} \cup Over
          BY <1>0, <1>3, <3>1 DEF LastLine
        <4> QED
          BY <4>1, <1>3, <3>1
      <3> QED
        BY <3>1, <1>1, <2>4 DEF LastLine
    <2>8. Handshake'
      BY <1>0, <1>1, <2>2, <2>3, Zenon DEF Handshake, Running
    <2>9. Whole'
      BY <1>0, <1>1, <1>4, <2>2, Zenon DEF Whole
    <2> QED
      BY <2>5, <2>6, <2>7, <2>8, <2>9 DEF IInv
  <1> QED
    BY <1>5, <1>6

\* The end of the program: what the job is does not change any more.
LEMMA EndingKeeps == ASSUME IInv, CloseWindow \/ Ending \/ jt9_error PROVE IInv'
  <1> USE DecodeAssumption
  <1>0. Types /\ Counted /\ LastLine /\ Handshake /\ Whole
    BY DEF IInv
  <1>1. /\ m_dataAvailable' = m_dataAvailable /\ m_decoderBusy' = m_decoderBusy
        /\ dxCall' = dxCall /\ dec_data' = dec_data /\ requests' = requests /\ mem' = mem
        /\ stdout' = stdout /\ job' = job /\ overrun' = overrun /\ missed' = missed
        /\ agains' = agains /\ clicks' = clicks
    BY DEF CloseWindow, Ending, DecoderFinished, WaitTimesOut, Closed, jt9_error,
           decoderVars, sharedVars, history, counts
  <1>2. pc' = pc \/ (pc' = "killed" /\ closing = "waiting")
    BY DEF CloseWindow, Ending, DecoderFinished, WaitTimesOut, Closed, Killed, jt9_error,
           decoderVars
  <1>3. /\ closing' \in {"waiting", "closed", "exited"} /\ quit' \in BOOLEAN
        /\ lock' \in BOOLEAN /\ (lock' => lock) /\ (closing' = "waiting" => quit')
        /\ (closing' \in {"closed", "exited"} => pc' \in Over)
    <2>0. lock \in BOOLEAN /\ quit \in BOOLEAN
      BY <1>0 DEF Types
    <2>1. CASE CloseWindow
      <3>1. closing' = "waiting" /\ quit' = TRUE /\ lock' = FALSE
        BY <2>1 DEF CloseWindow
      <3> QED
        BY <3>1
    <2>2. CASE Ending
      <3>1. closing' = "closed" /\ quit' = FALSE /\ lock' = lock
        BY <2>2 DEF Ending, DecoderFinished, WaitTimesOut, Closed
      <3>2. pc' \in Over
        BY <2>2 DEF Ending, DecoderFinished, WaitTimesOut, Killed, Over
      <3> QED
        BY <2>0, <3>1, <3>2
    <2>3. CASE jt9_error
      <3>1. closing' = "exited" /\ quit' = quit /\ lock' = lock /\ pc' = pc /\ pc = "crashed"
        BY <2>3 DEF jt9_error, sharedVars, decoderVars
      <3> QED
        BY <2>0, <3>1 DEF Over
    <2> QED
      BY <2>1, <2>2, <2>3
  <1>4. pc' \in Places /\ (pc' # pc => pc' \in Over)
    BY <1>0, <1>2 DEF Types, Places, Over
  <1>5. Types'
    <2>1. closing' \in {"no", "waiting", "closed", "exited"}
      BY <1>3
    <2> QED
      BY <1>0, <1>1, <1>3, <1>4, <2>1, Zenon DEF Types
  <1>6. Counted'
    BY <1>0, <1>1, <1>2 DEF Counted
  <1>7. LastLine'
    BY <1>0, <1>1, <1>2 DEF LastLine, Over
  <1>8. Handshake'
    <2>1. pc' \in {"go", "audio", "decoding"} => pc' = pc
      BY <1>2
    <2>2. closing' # "no"
      BY <1>3
    <2> QED
      BY <2>1, <2>2, <1>0, <1>1, <1>3, Zenon DEF Handshake, Running
  <1>9. Whole'
    <2>1. (pc' = "audio" => pc = "audio") /\ (pc' = "decoding" => pc = "decoding")
      BY <1>2
    <2> QED
      BY <2>1, <1>0, <1>1, Zenon DEF Whole
  <1> QED
    BY <1>5, <1>6, <1>7, <1>8, <1>9 DEF IInv

-----------------------------------------------------------------------------
\* The decoder's steps leave MainWindow and the shared memory alone.

LEMMA DecoderKeeps == ASSUME IInv, Decoder \/ PrintsMessage \/ Crash PROVE IInv'
  <1> USE DecodeAssumption
  <1>0. Types /\ Counted /\ LastLine /\ Handshake /\ Whole
    BY DEF IInv
  <1>1. UNCHANGED <<mainVars, mem, lock, quit, history, counts>>
    BY DEF Decoder, PrintsMessage, Crash, SeesNoLock, SeesQuit, CopiesParams, CopiesAudio,
           PrintsLast, SeesLock, Goes
  <1>2. /\ m_dataAvailable' = m_dataAvailable /\ m_decoderBusy' = m_decoderBusy
        /\ dxCall' = dxCall /\ dec_data' = dec_data /\ requests' = requests
        /\ closing' = closing /\ mem' = mem /\ lock' = lock /\ quit' = quit
        /\ overrun' = overrun /\ missed' = missed /\ agains' = agains /\ clicks' = clicks
    BY <1>1 DEF mainVars, history, counts
  <1>3. job \in Jobs /\ mem \in Jobs /\ stdout \in Seq(Lines) /\ requests \in Numbers
    BY <1>0 DEF Types
  \* It is enough to look at pc, the job and the pipe.
  <1>4. ASSUME pc' \in Places, job' \in Jobs, stdout' \in Seq(Lines),
               pc' = "decoding" => job'.audio \in Periods,
               LastLine',
               pc' \in {"go", "audio", "decoding"} => ~lock,
               ~m_decoderBusy => stdout' = <<>> /\ pc' \notin {"audio", "decoding"},
               pc \in Over => pc' \in Over,
               Whole'
        PROVE  IInv'
    <2>1. Types'
      BY <1>4, <1>0, <1>2, Zenon DEF Types
    <2>2. Counted'
      BY <1>4, <1>0, <1>2 DEF Counted
    <2>3. Handshake'
      BY <1>4, <1>0, <1>2, Zenon DEF Handshake, Running
    <2> QED
      BY <1>4, <2>1, <2>2, <2>3 DEF IInv
  <1>5. CASE SeesNoLock
    <2>1. pc = "wait" /\ ~lock /\ pc' = "go" /\ stdout' = stdout /\ job' = job
      BY <1>5 DEF SeesNoLock, At, Goes
    <2>2. stdout = <<>>
      BY <2>1, <1>0 DEF LastLine
    <2>3. LastLine' /\ Whole'
      BY <2>1, <2>2 DEF LastLine, Whole
    <2> QED
      BY <1>3, <1>4, <2>1, <2>2, <2>3 DEF Places, Over
  <1>6. CASE SeesQuit
    <2>1. pc = "go" /\ pc' = "ended" /\ stdout' = stdout /\ job' = job
      BY <1>6 DEF SeesQuit, At, Goes
    <2>2. stdout = <<>>
      BY <2>1, <1>0 DEF LastLine
    <2>3. LastLine' /\ Whole'
      BY <2>1, <2>2 DEF LastLine, Whole
    <2> QED
      BY <1>3, <1>4, <2>1, <2>2, <2>3 DEF Places, Over
  <1>7. CASE CopiesParams
    <2>1. /\ pc = "go" /\ ~quit /\ pc' = "audio" /\ stdout' = stdout
          /\ job' = [job EXCEPT !.dx = mem.dx, !.params = mem.params]
      BY <1>7 DEF CopiesParams, At, Goes
    <2>2. stdout = <<>> /\ ~lock
      BY <2>1, <1>0 DEF LastLine, Handshake
    <2>3. closing = "no"
      BY <2>1, <1>0 DEF Handshake, Types, Over
    <2>4. m_decoderBusy
      BY <2>2, <2>3, <1>0, Zenon DEF Handshake, Running
    <2>5. job' \in Jobs /\ job'.dx = mem.dx /\ job'.params = mem.params
      BY <2>1, <1>3 DEF Jobs
    <2>6. LastLine' /\ Whole'
      BY <2>1, <2>2, <2>5, <1>2 DEF LastLine, Whole
    <2> QED
      BY <1>3, <1>4, <2>1, <2>2, <2>4, <2>5, <2>6 DEF Places, Over
  <1>8. CASE CopiesAudio
    <2>1. /\ pc = "audio" /\ pc' = "decoding" /\ stdout' = stdout
          /\ job' = [job EXCEPT !.audio = mem.audio]
      BY <1>8 DEF CopiesAudio, At, Goes
    <2>2. stdout = <<>> /\ ~lock
      BY <2>1, <1>0 DEF LastLine, Handshake
    <2>3. m_decoderBusy
      BY <2>1, <1>0, Zenon DEF Handshake
    <2>4. job' \in Jobs /\ job'.audio = mem.audio
          /\ (job.dx = mem.dx /\ job.params = mem.params => job' = mem)
      BY <2>1, <1>3 DEF Jobs
    <2>5. job'.audio \in Periods
      BY <1>0, <2>3, <2>4 DEF Counted
    <2>6. LastLine' /\ Whole'
      BY <2>1, <2>2, <2>4, <1>0, <1>2 DEF LastLine, Whole
    <2> QED
      BY <1>3, <1>4, <2>1, <2>2, <2>3, <2>4, <2>5, <2>6 DEF Places, Over
  <1>9. ASSUME NEW last \in BOOLEAN, pc = "decoding", stdout' = Append(stdout, Line(last)),
               job' = job, pc' = IF last THEN "again" ELSE "decoding"
        PROVE  IInv'
    <2>1. ~lock /\ m_decoderBusy
      BY <1>0, <1>9, Zenon DEF Handshake
    <2>2. job.params.n \in Numbers
      BY <1>3 DEF Jobs, Params, Numbers
    <2>3. Line(last) \in Lines /\ Line(last).last = last /\ Line(last).n = job.params.n
      BY <2>2 DEF Line, Lines
    <2>4. /\ stdout' \in Seq(Lines) /\ Len(stdout') = Len(stdout) + 1 /\ Len(stdout) \in Nat
          /\ stdout'[Len(stdout) + 1] = Line(last)
          /\ \A k \in 1..Len(stdout) : stdout'[k] = stdout[k]
      BY <1>3, <1>9, <2>3
    <2>5. \A k \in 1..Len(stdout) : ~stdout[k].last
      BY <1>0, <1>9 DEF LastLine, Over
    <2>6. LastLine'
      <3>1. ASSUME NEW k \in 1..Len(stdout'), stdout'[k].last
            PROVE  k = Len(stdout') /\ pc' \in {"again"} \cup Over
        <4>1. k = Len(stdout) + 1
          BY <2>4, <2>5, <3>1
        <4>2. last
          BY <2>3, <2>4, <3>1, <4>1
        <4> QED
          BY <1>9, <2>4, <4>1, <4>2
      <3>2. pc' \notin {"wait", "go", "audio"}
        BY <1>9
      <3> QED
        BY <3>1, <3>2 DEF LastLine
    <2>7. Whole'
      <3>1. SUFFICES ASSUME ~overrun PROVE Whole'
        BY <1>2 DEF Whole
      <3>2. job = mem /\ \A k \in 1..Len(stdout) : stdout[k].n = requests
        BY <1>0, <1>9, <3>1 DEF Whole
      <3>3. mem.params.n = requests
        BY <1>0 DEF Counted
      <3>4. \A k \in 1..Len(stdout') : stdout'[k].n = requests
        BY <2>3, <2>4, <3>2, <3>3
      <3>5. pc' # "audio"
        BY <1>9
      <3> QED
        BY <1>2, <1>9, <3>2, <3>4, <3>5 DEF Whole
    <2>8. job.audio \in Periods
      BY <1>0, <1>9 DEF Counted
    <2>9. pc' \in Places /\ pc \notin Over
      BY <1>9 DEF Places, Over
    <2> QED
      BY <1>3, <1>4, <1>9, <2>1, <2>4, <2>6, <2>7, <2>8, <2>9
  <1>10. CASE PrintsMessage
    <2>1. pc = "decoding" /\ stdout' = Append(stdout, Line(FALSE)) /\ job' = job
          /\ pc' = "decoding"
      BY <1>10 DEF PrintsMessage, At, Goes
    <2> QED
      BY <1>9, <2>1
  <1>11. CASE PrintsLast
    <2>1. pc = "decoding" /\ stdout' = Append(stdout, Line(TRUE)) /\ job' = job
          /\ pc' = "again"
      BY <1>11 DEF PrintsLast, At, Goes, AfterJob
    <2> QED
      BY <1>9, <2>1
  <1>12. CASE SeesLock
    <2>1. pc = "again" /\ lock /\ pc' = "wait" /\ stdout' = stdout /\ job' = job
      BY <1>12 DEF SeesLock, At, Goes
    <2>2. stdout = <<>>
      BY <2>1, <1>0, Zenon DEF Handshake
    <2>3. LastLine' /\ Whole'
      BY <2>1, <2>2 DEF LastLine, Whole
    <2> QED
      BY <1>3, <1>4, <2>1, <2>2, <2>3 DEF Places, Over
  <1>13. CASE Crash
    <2>1. pc' = "crashed" /\ stdout' = stdout /\ job' = job
      BY <1>13 DEF Crash, Goes
    <2>2. LastLine' /\ Whole'
      BY <2>1, <1>0, <1>2 DEF LastLine, Whole, Over
    <2>3. ~m_decoderBusy => stdout' = <<>>
      BY <2>1, <1>0, Zenon DEF Handshake
    <2> QED
      BY <1>3, <1>4, <2>1, <2>2, <2>3 DEF Places, Over
  <1> QED
    BY <1>5, <1>6, <1>7, <1>8, <1>10, <1>11, <1>12, <1>13 DEF Decoder

-----------------------------------------------------------------------------
LEMMA NextKeeps == IInv /\ [Next]_vars => IInv'
  <1> SUFFICES ASSUME IInv, [Next]_vars PROVE IInv'
    OBVIOUS
  <1>1. CASE UNCHANGED vars
    <2>1. UNCHANGED <<mainVars, sharedVars, decoderVars, history, counts>>
      BY <1>1 DEF vars
    <2>2. /\ m_dataAvailable' = m_dataAvailable /\ m_decoderBusy' = m_decoderBusy
          /\ dxCall' = dxCall /\ dec_data' = dec_data /\ requests' = requests
          /\ closing' = closing /\ mem' = mem /\ lock' = lock /\ quit' = quit
          /\ stdout' = stdout /\ pc' = pc /\ job' = job /\ overrun' = overrun
          /\ missed' = missed /\ agains' = agains /\ clicks' = clicks
      BY <2>1 DEF mainVars, sharedVars, decoderVars, history, counts
    <2>3. Types' /\ Handshake'
      BY <2>2, Zenon DEF IInv, Types, Handshake, Running
    <2>4. Counted'
      BY <2>2 DEF IInv, Counted
    <2>5. LastLine'
      BY <2>2 DEF IInv, LastLine
    <2>6. Whole'
      BY <2>2 DEF IInv, Whole
    <2> QED
      BY <2>3, <2>4, <2>5, <2>6 DEF IInv
  <1>2. CASE Next
    BY <1>2, RequestKeeps, ClickKeeps, ReadLineKeeps, EndingKeeps, DecoderKeeps DEF Next
  <1> QED
    BY <1>1, <1>2

\* The invariant holds in all states: program and decoder agree on whose turn it is.
THEOREM Inductive == Spec => []IInv
  BY InitInv, NextKeeps, PTL DEF Spec

\* Types, and nothing is decoded before a period has been received, however many
\* periods, requests and lines there are.
THEOREM TypeCorrect == Spec => []TypeOK
  <1>1. IInv => TypeOK
    BY Zenon DEF IInv, Types, TypeOK, Counted, Numbers, Lines, Places
  <1> QED
    BY <1>1, Inductive, PTL

\* When MainWindow takes the decoder for idle (m_decoderBusy), it is.
THEOREM OneJobAtATime == Spec => []OneJob
  <1>1. IInv => OneJob
    <2> SUFFICES ASSUME IInv, Running, ~m_decoderBusy PROVE OneJob
      BY DEF OneJob
    <2>1. stdout = <<>> /\ pc \notin {"audio", "decoding"} /\ lock
      BY Zenon DEF IInv, Handshake
    <2>2. pc \in Places /\ pc # "go"
      BY <2>1 DEF IInv, Types, Handshake
    <2> QED
      BY <2>1, <2>2 DEF OneJob, Places
  <1> QED
    BY <1>1, Inductive, PTL

\* A job that no end of a period has overtaken is what decode copied last, and
\* the lines read are its lines.
THEOREM JobsWhole == Spec => []JobWhole
  <1>1. IInv => JobWhole
    <2> SUFFICES ASSUME IInv, ~overrun PROVE JobWhole
      BY DEF JobWhole
    <2>1. pc = "decoding" => job = mem
      BY DEF IInv, Whole
    <2>2. \A k \in 1..Len(stdout) : stdout[k].n = requests
      BY DEF IInv, Whole
    <2>3. mem.audio = dec_data.period
      BY DEF IInv, Counted
    <2> QED
      BY <2>1, <2>2, <2>3 DEF JobWhole
  <1> QED
    BY <1>1, Inductive, PTL
=============================================================================
