---------------------------- MODULE DecodeDisplay ----------------------------
(***************************************************************************)
(* The lines of the two text windows: what the log says of the station       *)
(* heard, on the band and in the mode or on any, how the line is marked for  *)
(* it, which filters hide it, and the one beep of a period.                  *)
(***************************************************************************)
EXTENDS Integers, FiniteSets

CONSTANTS Stations,       \* [call, country, grid]; country "" is a prefix not found
          Dials, Modes,   \* frequencies (kHz) and modes of contacts and of the window
          Options,        \* what the settings may be, see below
          MaxContacts
DisplayAssumption == Dials \subseteq Nat /\ MaxContacts \in Nat

VARIABLES
  o,          \* the options: [new, band, mode (sets of "DXCC", "Grid", "Call"), potential,
              \*   dontShow, hidefree, only ("", "cq", "cq73"), continents, country, bypass]
  dial, mode, \* m_freqNominal, m_mode
  made,       \* history: the contacts made, [station, dial, mode]
  log,        \* ADIF::_data, _countriesWorked and _gridsWorked: the records, of known stations
  line,       \* the line last shown: [kind, station, near, end, left, right]
  notified,   \* m_notified
  beeps       \* history: how often this period beeped
vars == <<o, dial, mode, made, log, line, notified, beeps>>

----------------------------------------------------------------------------
\* Bands::find, of which the log takes the band, and ADIF::bandFromFrequency, which asks for it
Find(f) == CASE f \in 472..479 -> "630m" [] f \in 501..504 -> "560m" [] f \in 5102..5406 -> "60m"
             [] f \in 7000..7300 -> "40m" [] f \in 14000..14350 -> "20m" [] OTHER -> ""
bandFromFrequency(f) ==
  CASE f \in 451..549 -> "630m" [] f \in 5101..5449 -> "60m" [] f \in 7001..7299 -> "40m"
    [] f \in 14001..14349 -> "20m" [] OTHER -> ""

\* ADIF::match, matchCountry, matchGrid: an empty string stands for any.
Fits(x, y) == x = y \/ x = "" \/ y = ""
Match(records, band, m) == \E r \in records : Fits(band, r.band) /\ Fits(m, r.mode)
Records(x, s) ==
  CASE x = "Call" -> {r \in log : r.call = s.call}
    [] x = "DXCC" -> {r \in log : r.country # "" /\ r.country = s.country}
    [] x = "Grid" -> {r \in log : r.grid # "" /\ r.grid = s.grid}

\* LogBook::matchDXCC, matchCall, matchGrid, with the frequency and the mode where the options
\* ask for them; a country not found and a missing grid count as worked.
Asks(x, s) == ~(x = "DXCC" /\ s.country = "") /\ ~(x = "Grid" /\ s.grid = "")
B4(x, s) == Asks(x, s) => Match(Records(x, s), "", "")
B4BandMode(x, s) ==
  LET band == IF x \in o.band THEN bandFromFrequency(dial) ELSE ""
      m == IF x \in o.mode THEN mode ELSE ""
  IN Asks(x, s) => IF x \in o.band \cup o.mode /\ (band # "" \/ m # "")
                   THEN B4(x, s) /\ Match(Records(x, s), band, m) ELSE B4(x, s)

\* displayDecodedText: the type of a line and the first mark that applies to it
Type(l) == CASE l.kind = "cq" -> 1 [] l.kind = "me" -> 2 [] l.kind = "std" -> 3 [] OTHER -> 0
Applies(l) == Type(l) # 0 /\ o.new # {} /\ (Type(l) = 3 => o.potential)
Marks == <<<<"DXCC", FALSE>>, <<"Grid", FALSE>>, <<"DXCC", TRUE>>, <<"Grid", TRUE>>, <<"Call", FALSE>>, <<"Call", TRUE>>>>
Due(l, k) == LET x == Marks[k][1]
             IN x \in o.new /\ IF Marks[k][2] THEN x \in o.band /\ ~B4BandMode(x, l.station)
                               ELSE ~B4(x, l.station)
Mark(l) == LET due == {k \in 1..6 : Due(l, k)}
           IN IF ~Applies(l) \/ due = {} THEN 0 ELSE CHOOSE k \in due : \A j \in due : k <= j

\* What hides it; the window of the Rx frequency asks with rx_frq 0, where no line is.
Off(l, right) == right \/ ~l.near
Hidden(l, right) ==
  \/ Applies(l) /\ Mark(l) = 0 /\ Type(l) # 2 /\ o.dontShow
  \/ o.country /\ Type(l) # 0 /\ Type(l) # 2 /\ l.station.country \in o.continents
  \/ l.kind = "free2" /\ o.hidefree
  \/ o.only = "cq" /\ Type(l) \notin {1, 2} /\ Off(l, right)
  \/ o.only = "cq73" /\ Type(l) \notin {1, 2} /\ ~l.end /\ Off(l, right)
Beeps(l, right) == ~Hidden(l, right) /\ (Type(l) = 2 \/ Mark(l) # 0)
Shows(l, right) == ~Hidden(l, right) \/ o.bypass

----------------------------------------------------------------------------
None == [kind |-> "none", station |-> [call |-> "", country |-> "", grid |-> ""], near |-> FALSE,
         end |-> FALSE, left |-> FALSE, right |-> FALSE]
Record(c) == [call |-> c.station.call, country |-> c.station.country, grid |-> c.station.grid,
              band |-> Find(c.dial), mode |-> c.mode]
Init ==
  /\ o \in Options /\ dial \in Dials /\ mode \in Modes /\ made = {} /\ log = {} /\ line = None
  /\ notified = FALSE /\ beeps = 0

\* ADIF::add
add(s) ==
  /\ Cardinality(made) < MaxContacts
  /\ LET c == [station |-> s, dial |-> dial, mode |-> mode]
     IN c \notin made /\ made' = made \cup {c} /\ log' = log \cup {Record(c)}
  /\ line' = None /\ UNCHANGED <<o, dial, mode, notified, beeps>>
Tune(f, m) ==
  /\ <<f, m>> # <<dial, mode>> /\ dial' = f /\ mode' = m /\ line' = None
  /\ UNCHANGED <<o, made, log, notified, beeps>>
\* readFromStdout: the line of a decode, to the left window and, if on the Rx frequency or to
\* me, to the right one; only the left window tells that it beeped.
Decode(l) ==
  LET left == Beeps(l, FALSE) /\ ~notified
      right == (l.near \/ Type(l) = 2) /\ Beeps(l, TRUE) /\ ~(notified \/ left)
  IN /\ line' = [l EXCEPT !.left = Shows(l, FALSE), !.right = (l.near \/ Type(l) = 2) /\ Shows(l, TRUE)]
     /\ notified' = (notified \/ left)
     /\ beeps' = beeps + (IF left THEN 1 ELSE 0) + (IF right THEN 1 ELSE 0)
     /\ UNCHANGED <<o, dial, mode, made, log>>
\* The next period
Finished == /\ notified /\ notified' = FALSE /\ beeps' = 0 /\ line' = None
            /\ UNCHANGED <<o, dial, mode, made, log>>

Lines == {l \in [kind : {"cq", "me", "std", "free2"}, station : Stations, near : BOOLEAN,
                 end : BOOLEAN, left : {FALSE}, right : {FALSE}] : l.end => l.kind = "std" /\ o.only = "cq73"}
Next ==
  \/ \E s \in Stations : add(s)
  \/ \E f \in Dials, m \in Modes : Tune(f, m)
  \/ \E l \in Lines : Decode(l)
  \/ Finished
Spec == Init /\ [][Next]_vars

----------------------------------------------------------------------------
\* What "new" means, from the contacts made: a station, country or square never worked, or
\* not on this band (and in this mode, when the option says so).
Same(x, s, t) == CASE x = "Call" -> s.call = t.call [] x = "DXCC" -> s.country = t.country
                   [] x = "Grid" -> s.grid = t.grid
OnBand(c) == Find(c.dial) = Find(dial)
IsNew(x, s) ==
  /\ x \in o.new /\ Asks(x, s)
  /\ ~\E c \in made : /\ Same(x, c.station, s)
                      /\ x \in o.band => OnBand(c)
                      /\ x \in o.band /\ x \in o.mode => c.mode = mode
\* The two tables of bands name the same band here.
Agreed == \A f \in {dial} \cup {c.dial : c \in made} : Find(f) # "" /\ Find(f) = bandFromFrequency(f)

\* A station is marked as new if and only if it is, on a frequency where the two tables of
\* bands agree.  ("and mode" without "per band" changes nothing.)
MarkTrue ==
  line.kind \in {"cq", "me"} /\ o.new # {} /\ Agreed =>
    (Mark(line) # 0 <=> \E x \in o.new : IsNew(x, line.station))

\* With "don't show worked", a CQ of a station that is new for one of the options is shown, unless its
\* continent is hidden; and one that is not is not.
NewShown ==
  line.kind = "cq" /\ o.dontShow /\ o.new # {} /\ Agreed /\ ~o.bypass =>
    (line.left <=> /\ \E x \in o.new : IsNew(x, line.station)
                   /\ ~(o.country /\ line.station.country \in o.continents))

\* At most one beep in a period, though two windows beep.
BeepsOnce == beeps <= 1

\* What the window of the Rx frequency shows, the window of the band shows too.
RightInLeft == line.right => line.left
=============================================================================
