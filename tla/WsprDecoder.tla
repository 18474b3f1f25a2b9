---------------------------- MODULE WsprDecoder -----------------------------
(* wsprd (src/lib/wsprd/wsprd.c), started once for each interval: the        *)
(* candidates of two passes over the recording, the signals that are         *)
(* subtracted after the first, the table of calls that resolves hashes and   *)
(* its file.  Finding the peaks, the synchronisation, the soft symbols and   *)
(* the Fano decoder decide whether a candidate is decoded at all (missed, or *)
(* not).                                                                     *)
(*                                                                           *)
(* First the fifty bits of a message: how wsprd packs a text in order to     *)
(* subtract its signal (src/lib/wsprd/wsprsim_utils.c), how it unpacks what  *)
(* it decoded (wsprd_utils.c), and the hash of a call that a message may     *)
(* carry instead of it (nhash.c).  Text is a sequence of codes: digits are   *)
(* 0 to 9, letters 10 to 35; a table of calls is a function from the hashes  *)
(* that are known; a 32-bit word is <<high half, low half>>.                 *)
EXTENDS Integers, FiniteSets, Sequences
LOCAL INSTANCE SequencesExt

CONSTANTS
  Signals,     \* what may be on the air: text, frequency f and strength snr, all different
  MaxSignals,  \* bound: signals in an interval
  MaxRuns,     \* bound: intervals
  MaxMisses    \* bound: candidates not decoded, and crashes
DecoderAssumption == MaxSignals \in Nat /\ MaxRuns \in Nat /\ MaxMisses \in Nat

VARIABLES
  phase,      \* "idle", "pass", "print", "save" (hashtable.txt truncated)
  air,        \* signals of the interval
  data,       \* those that are left in the recording
  ipass, cand, \* pass, and its candidates, the strongest first
  decodes,    \* what was decoded: allcalls, allfreqs and decodes, `uniques` of them
  hashtab,    \* calls by hash
  file,       \* hashtable.txt
  printed,    \* the lines of the last interval that ended, in the order they were decoded
              \*   (wsprd sorts them by frequency)
  runs, misses,
  told        \* history: calls printed in full in an interval that ended, since the file was lost
vars == <<phase, air, data, ipass, cand, decodes, hashtab, file, printed, runs, misses, told>>

----------------------------------------------------------------------------

Blank == 36
Slash == 37
LT == 38
GT == 39
Dot == 40
Ascii(c) == CASE c < 10 -> c + 48 [] c \in 10..35 -> c + 55 [] c = Blank -> 32
              [] c = Slash -> 47 [] c = LT -> 60 [] c = GT -> 62 [] OTHER -> 46

Half == 65536
Plus(x, y) == LET lo == x[2] + y[2]
              IN <<(x[1] + y[1] + (lo \div Half)) % Half, lo % Half>>
Minus(x, y) == LET lo == x[2] - y[2]
               IN <<(x[1] - y[1] + (lo \div Half)) % Half, lo % Half>>
XorHalf(x, y) ==
  LET Bit(e) == e * (((x \div e) + (y \div e)) % 2)
  IN Bit(1) + Bit(2) + Bit(4) + Bit(8) + Bit(16) + Bit(32) + Bit(64) + Bit(128) + Bit(256) + Bit(512)
     + Bit(1024) + Bit(2048) + Bit(4096) + Bit(8192) + Bit(16384) + Bit(32768)
Exor(x, y) == <<XorHalf(x[1], y[1]), XorHalf(x[2], y[2])>>
rot(x, k) ==
  LET w == IF k >= 16 THEN <<x[2], x[1]>> ELSE x
      j == k % 16
  IN <<((w[1] * (2 ^ j)) % Half) + (w[2] \div (2 ^ (16 - j))),
       ((w[2] * (2 ^ j)) % Half) + (w[1] \div (2 ^ (16 - j)))>>

\* One line of the macro mix: x -= z; x ^= rot (z, k); z += y, and on to the next.
MixLine(s, k) == <<s[2], Plus(s[3], s[2]), Exor(Minus(s[1], s[3]), rot(s[3], k))>>
mix(s) == FoldLeft(MixLine, s, <<4, 6, 8, 16, 19, 4>>)
\* One line of the macro final: x ^= y; x -= rot (y, k), and on to the next.
FinalLine(s, k) == <<s[3], Minus(Exor(s[1], s[2]), rot(s[2], k)), s[2]>>
final(s) == FoldLeft(FinalLine, <<s[3], s[2], s[1]>>, <<14, 11, 25, 16, 4, 14, 24>>)[2]

\* The twelve bytes of block b, blank beyond the end, added to the three words.
Byte(key, i) == IF i <= Len(key) THEN Ascii(key[i]) ELSE 0
Word(key, i) == <<Byte(key, i + 3) * 256 + Byte(key, i + 2), Byte(key, i + 1) * 256 + Byte(key, i)>>
AddBlock(s, key, b) == [w \in 1..3 |-> Plus(s[w], Word(key, 12 * b + 4 * (w - 1) + 1))]
\* The key is never empty: the third character of a call that was unpacked is a digit.
nhash(key, initval) ==
  LET start == Plus(<<57005, 48879>>, <<0, Len(key) + initval>>)
      full == (Len(key) - 1) \div 12
      blocks == FoldLeft(LAMBDA s, b : mix(AddBlock(s, key, b - 1)), <<start, start, start>>,
                         [b \in 1..full |-> b])
  IN final(AddBlock(blocks, key, full))[2] % 32768

----------------------------------------------------------------------------
IsDigit(c) == c \in 0..9
IsAlpha(c) == c \in 10..35

\* strcspn and strtok.
Where(text, c) ==
  IF \E i \in 1..Len(text) : text[i] = c
  THEN CHOOSE i \in 0..(Len(text) - 1) : text[i + 1] = c /\ \A j \in 1..i : text[j] # c
  ELSE Len(text)
Words(text, delims) ==
  LET In(i) == i \in 1..Len(text) /\ text[i] \notin delims
      starts == {i \in 1..Len(text) : In(i) /\ ~In(i - 1)}
      End(i) == CHOOSE j \in i..Len(text) : ~In(j + 1) /\ \A h \in i..j : In(h)
      Start(w) == CHOOSE i \in starts : Cardinality({j \in starts : j < i}) = w - 1
  IN [w \in 1..Cardinality(starts) |-> SubSeq(text, Start(w), End(Start(w)))]
atoi(w) == IF Len(w) = 1 THEN w[1] ELSE 10 * w[1] + w[2]
Padded(s) == [i \in 1..6 |-> IF i <= Len(s) THEN s[i] ELSE Blank]

----------------------------------------------------------------------------
\* Packing.
get_locator_character_code(c) ==
  CASE IsDigit(c) -> c [] c \in 10..27 -> c - 10 [] c = Blank -> 36 [] OTHER -> -1
pack_grid4_power(g, power) ==
  ((((179 - 10 * g[1]) - g[3]) * 180) + 10 * g[2] + g[4]) * 128 + power + 64
call6(call) ==
  CASE Len(call) >= 3 /\ IsDigit(call[3]) -> Padded(call)
    [] ~(Len(call) >= 3 /\ IsDigit(call[3])) /\ Len(call) >= 2 /\ IsDigit(call[2])
         -> Padded(<<Blank>> \o call)
    [] OTHER -> Padded(<<>>)
pack_call(call) ==
  LET c == call6(call)
      n == (c[1] * 36 + c[2]) * 10 + c[3]
  IN IF Len(call) > 6 THEN 0
     ELSE ((((n * 27 + c[4]) - 10) * 27 + c[5]) - 10) * 27 + c[6] - 10

\* pack_prefix: a suffix of one or two characters, or a prefix of up to three.
PrefixCode(pfx) ==
  LET start == CASE Len(pfx) = 1 -> (37 * 36) + 36 [] Len(pfx) = 2 -> 36 [] OTHER -> 0
      m[i \in 0..Len(pfx)] == IF i = 0 THEN start ELSE 37 * m[i - 1] + pfx[i]
  IN m[Len(pfx)]
pack_prefix(call) ==
  LET i1 == Where(call, Slash)
      base == SubSeq(call, 1, i1)
      tail == SubSeq(call, i1 + 2, Len(call))
      m == PrefixCode(base)
  IN CASE Len(tail) = 1 -> [call |-> base, m |-> (60000 - 32768) + tail[1], nadd |-> 1]
       [] Len(tail) = 2 -> [call |-> base, nadd |-> 1,
                            m |-> 60000 + 26 + (10 * (Ascii(tail[1]) - 48)) + Ascii(tail[2]) - 48]
       [] OTHER -> [call |-> tail, m |-> IF m > 32768 THEN m - 32768 ELSE m,
                    nadd |-> IF m > 32768 THEN 1 ELSE 0]

nu == <<0, -1, 1, 0, -1, 2, 1, 0, -1, 1>>
Allowed(power) == LET p == IF power > 60 THEN 60 ELSE power IN p + nu[(p % 10) + 1]

\* get_wspr_channel_symbols up to the packed bits: the punctuation tells the type.  "torn":
\* the six characters of a suffixed call, or of a grid, have no end of their own, and
\* pack_call returns 0 when the memory behind them is not zero.
NotPacked == [ok |-> FALSE, n |-> 0, m |-> 0]
Type1(text) == Where(text, Blank) > 3 /\ Where(text, Blank) < 7
               /\ Where(text, Slash) = Len(text) /\ Where(text, LT) = Len(text)
Type3(text) == Where(text, LT) = 0 /\ Where(text, GT) < Len(text)
Packed(text, torn) ==
  LET w == Words(text, {Blank})
      h == Words(text, {LT, GT, Blank})
      p == pack_prefix(w[1])
      Grid(g) == [i \in 1..4 |-> get_locator_character_code(g[i])]
      Grid6(g) == [Padded(SubSeq(g, 2, Len(g))) EXCEPT ![6] = g[1]]
      suffix == Len(w[1]) - Where(w[1], Slash) <= 3
      Bits(n, m) == [ok |-> TRUE, n |-> n, m |-> m % (2 ^ 22)]
  IN CASE Type1(text) -> Bits(pack_call(w[1]), pack_grid4_power(Grid(w[2]), atoi(w[3])))
       [] ~Type1(text) /\ Type3(text) ->
            Bits(IF torn THEN 0 ELSE pack_call(Grid6(h[2])),
                 (128 * nhash(h[1], 146)) - (Allowed(atoi(h[3])) + 1) + 64)
       [] ~Type1(text) /\ ~Type3(text) /\ Where(text, Slash) < Len(text) ->
            IF Len(w[1]) < Where(text, Slash) THEN NotPacked
            ELSE Bits(IF torn /\ suffix THEN 0 ELSE pack_call(p.call),
                      (128 * p.m) + Allowed(atoi(w[2])) + 1 + p.nadd + 64)
       [] OTHER -> NotPacked

----------------------------------------------------------------------------
\* Unpacking.  unpackcall leaves six characters, with an end of text for each blank.
unpackcall(n) ==
  LET six == <<n \div 7085880, (n \div 196830) % 36, (n \div 19683) % 10,
               ((n \div 729) % 27) + 10, ((n \div 27) % 27) + 10, (n % 27) + 10>>
      lead == CHOOSE k \in 0..5 : (k = 5 \/ six[k + 1] # Blank) /\ \A j \in 1..k : six[j] = Blank
  IN Padded(SubSeq(six, lead + 1, 6))
Text(six) == SubSeq(six, 1, Where(six, Blank))
unpackgrid(m) ==
  LET ngrid == m \div 128
      long == 12 * (358 - (2 * (ngrid \div 180)))
      lat == 24 * (ngrid % 180)
  IN <<10 + (long \div 240), 10 + (lat \div 240), (long % 240) \div 24, (lat % 240) \div 24>>

\* unpackpfx: a prefix keeps its blanks; the suffix is told by a signed byte.
unpackpfx(n, call) ==
  LET nc == (((n - 60000) + 128) % 256) - 128
      After(tail) == [ok |-> TRUE, call |-> call \o <<Slash>> \o tail]
  IN CASE n < 60000 -> [ok |-> TRUE, call |-> <<(n \div 1369) % 37, (n \div 37) % 37, n % 37>>
                                                \o <<Slash>> \o call]
       [] n >= 60000 /\ nc \in 0..35 -> After(<<nc>>)
       [] n >= 60000 /\ nc \in 36..125 -> After(<<(nc - 26) \div 10, (nc - 26) % 10>>)
       [] OTHER -> [ok |-> FALSE, call |-> call]

Power(p) == IF p < 10 THEN <<Blank, p>> ELSE <<p \div 10, p % 10>>
Said(call, more, p) == call \o <<Blank>> \o more \o Power(p)
Unprinted(call, table) == [noprint |-> TRUE, text |-> <<>>, call |-> call, table |-> table]

Store(table, call) ==
  LET h == nhash(call, 146)
  IN [x \in DOMAIN table \cup {h} |-> IF x = h THEN call ELSE table[x]]

\* unpk_: grid and power, an extended call and power, or a hash with a grid of six.  A
\* call enters the table; so do, for a hash, the six characters of its grid.
Plain(call, m, ntype, table) ==
  [noprint |-> FALSE, text |-> Said(call, unpackgrid(m) \o <<Blank>>, ntype), call |-> call,
   table |-> Store(table, call)]
Extended(call, m, ntype, table) ==
  LET u == ntype % 10
      nadd == CASE u > 7 -> u - 7 [] u \in 4..7 -> u - 3 [] OTHER -> u
      p == unpackpfx((m \div 128) + (32768 * (nadd - 1)), call)
      valid == (ntype - nadd) % 10 \in {0, 3, 7}
  IN IF ~p.ok THEN Unprinted(p.call, table)
     ELSE [noprint |-> ~valid, text |-> Said(p.call, <<>>, ntype - nadd), call |-> p.call,
           table |-> IF valid THEN Store(table, p.call) ELSE table]
Hashed(six, m, ntype, table) ==
  LET call == Text(six)
      grid == (IF six[6] = Blank THEN <<>> ELSE <<six[6]>>) \o SelectSeq(SubSeq(six, 1, 5), LAMBDA c : c # Blank)
      ndbm == -(ntype + 1)
      valid == /\ ndbm % 10 \in {0, 3, 7} /\ Len(grid) >= 4
               /\ IsAlpha(grid[1]) /\ IsAlpha(grid[2]) /\ IsDigit(grid[3]) /\ IsDigit(grid[4])
      new == IF valid THEN Store(table, call) ELSE table
      ihash == m \div 128
      shown == <<LT>> \o (IF ihash \in DOMAIN new THEN new[ihash] ELSE <<Dot, Dot, Dot>>) \o <<GT>>
  IN [noprint |-> ~valid \/ ntype = -64, text |-> Said(shown, grid \o <<Blank>>, ndbm),
      call |-> shown, table |-> new]
unpk(n, m, table) ==
  LET ntype == (m % 128) - 64
      six == unpackcall(n)
  IN CASE n >= 262177560 -> Unprinted(<<>>, table)
       [] n < 262177560 /\ m \div 128 >= 32400 -> Unprinted(Text(six), table)
       [] n < 262177560 /\ m \div 128 < 32400 ->
            CASE ntype \in 0..62 /\ ntype % 10 \in {0, 3, 7} -> Plain(Text(six), m, ntype, table)
              [] ntype \in 0..62 /\ ntype % 10 \notin {0, 3, 7} ->
                   Extended(Text(six), m, ntype, table)
              [] ntype < 0 -> Hashed(six, m, ntype, table)
              [] OTHER -> [Unprinted(Text(six), table) EXCEPT !.noprint = FALSE]

----------------------------------------------------------------------------
\* What is packed is what is unpacked, blanks apart and but for a call known only by its
\* hash.  The exceptions: the upper bits of the second number are also tested as if they were
\* a grid, so a prefix or a hash of 32400 and more is refused; and prefix 32768 (NYN) is
\* taken for one that fits fifteen bits.
Resolved(text) ==
  IF text[1] = LT THEN <<LT, Dot, Dot, Dot, GT>> \o SubSeq(text, Where(text, GT) + 2, Len(text)) ELSE text
RoundTrip(text) ==
  LET e == Packed(text, FALSE)
      read == unpk(e.n, e.m, [h \in {} |-> <<>>])
  IN IF e.m \div 128 >= 32400 THEN read.noprint
     ELSE \/ ~read.noprint /\ Words(read.text, {Blank}) = Words(Resolved(text), {Blank})
          \/ SubSeq(text, 1, 4) = <<23, 34, 23, Slash>>
----------------------------------------------------------------------------

Empty == [h \in {} |-> <<>>]
\* What a station sends; its own program packs it as wsprd does.
Sends == [s \in Signals |-> Packed(s.text, FALSE)]
\* Candidates sorted by strength.
Sorted(S) == [k \in 1..Cardinality(S) |-> CHOOSE s \in S : Cardinality({x \in S : x.snr > s.snr}) = k - 1]

\* Signals in the band of 375 Hz kept of the recording, f counted from its middle.
readwavfile(S) == {s \in S : s.f \in -187..187}
\* Synchronisation and soft symbols are right for a signal that is still in the recording.
sync_and_demodulate(s) == s \in data
\* The waveform of the message `made` cancels the signal of s only where s sends that message.
subtract_signal2(s, made) == IF made = Sends[s] THEN data \ {s} ELSE data

Init ==
  /\ phase = "idle" /\ air = {} /\ data = {} /\ ipass = 0 /\ cand = <<>> /\ decodes = <<>>
  /\ hashtab = Empty /\ file = Empty /\ printed = <<>> /\ runs = 0 /\ misses = 0 /\ told = {}

\* The recording and hashtable.txt are read.
Start ==
  /\ phase = "idle" /\ runs < MaxRuns
  /\ \E S \in SUBSET Signals :
       /\ Cardinality(S) \in 1..MaxSignals
       /\ air' = S /\ data' = readwavfile(S) /\ cand' = Sorted(readwavfile(S))
  /\ phase' = "pass" /\ ipass' = 0 /\ decodes' = <<>> /\ printed' = <<>>
  /\ hashtab' = file /\ runs' = runs + 1 /\ UNCHANGED <<file, misses, told>>

\* The recording cannot be opened: wsprd ends before it decodes or prints anything.
Unread ==
  /\ phase = "idle" /\ runs < MaxRuns /\ misses < MaxMisses
  /\ misses' = misses + 1 /\ runs' = runs + 1
  /\ air' = {} /\ data' = {} /\ decodes' = <<>> /\ printed' = <<>>
  /\ UNCHANGED <<phase, ipass, cand, hashtab, file, told>>

\* A candidate that is not worth a try, that the Fano decoder gives up, or whose signal is gone.
Miss ==
  /\ phase = "pass" /\ cand # <<>>
  /\ sync_and_demodulate(Head(cand)) => misses < MaxMisses
  /\ misses' = IF sync_and_demodulate(Head(cand)) THEN misses + 1 ELSE misses
  /\ cand' = Tail(cand)
  /\ UNCHANGED <<phase, air, data, ipass, decodes, hashtab, file, printed, runs, told>>

Dupe(call, f) == \E k \in 1..Len(decodes) : decodes[k].call = call /\ decodes[k].f - f \in -2..2
Recorded_dupes(u, f) ==
  IF u.noprint THEN decodes ELSE Append(decodes, [call |-> u.call, text |-> u.text, f |-> f])
Recorded(u, f) ==
  IF u.noprint \/ Dupe(u.call, f) THEN decodes
  ELSE Append(decodes, [call |-> u.call, text |-> u.text, f |-> f])
\* A candidate is decoded and unpacked.  In the first pass its signal is made again from the
\* text, which unpacks it once more, and subtracted; when the text cannot be packed, the pass is over.
Decode ==
  /\ phase = "pass" /\ cand # <<>> /\ sync_and_demodulate(Head(cand))
  /\ LET s == Head(cand)
         u == unpk(Sends[s].n, Sends[s].m, hashtab)
     IN IF ipass = 0 /\ ~u.noprint
        THEN \E torn \in BOOLEAN :
               LET again == Packed(u.text, torn) IN
               IF again.ok
               THEN /\ data' = subtract_signal2(s, again)
                    /\ hashtab' = unpk(again.n, again.m, u.table).table
                    /\ decodes' = Recorded(u, s.f) /\ cand' = Tail(cand)
               ELSE hashtab' = u.table /\ cand' = <<>> /\ UNCHANGED <<data, decodes>>
        ELSE /\ decodes' = Recorded(u, s.f) /\ hashtab' = u.table /\ cand' = Tail(cand)
             /\ data' = data
  /\ UNCHANGED <<phase, air, ipass, file, printed, runs, misses, told>>

\* A second pass over what is left, unless the first found nothing.
NextPass ==
  /\ phase = "pass" /\ cand = <<>> /\ ipass = 0 /\ decodes # <<>>
  /\ ipass' = 1 /\ cand' = Sorted(data)
  /\ UNCHANGED <<phase, air, data, decodes, hashtab, file, printed, runs, misses, told>>

\* The decodes are printed; then hashtable.txt is written anew.
Calls == {decodes[k].call : k \in 1..Len(decodes)}
Report ==
  /\ phase = "pass" /\ cand = <<>> /\ (ipass = 1 \/ decodes = <<>>)
  /\ printed' = decodes
  /\ phase' = "print"
  /\ UNCHANGED <<air, data, ipass, cand, decodes, hashtab, file, runs, misses, told>>
Truncate ==
  /\ phase = "print" /\ phase' = "save" /\ file' = Empty
  /\ UNCHANGED <<air, data, ipass, cand, decodes, hashtab, printed, runs, misses, told>>
Save ==
  /\ phase = "save" /\ phase' = "idle" /\ file' = hashtab
  /\ told' = told \cup {c \in Calls : c[1] # LT}
  /\ UNCHANGED <<air, data, ipass, cand, decodes, hashtab, printed, runs, misses>>

\* wsprd is killed, or the computer stops.
Crash ==
  /\ phase # "idle" /\ misses < MaxMisses /\ misses' = misses + 1
  /\ phase' = "idle" /\ cand' = <<>> /\ decodes' = <<>> /\ air' = {} /\ data' = {}
  /\ printed' = <<>>
  /\ told' = IF phase = "save" THEN {} ELSE told
  /\ UNCHANGED <<ipass, hashtab, file, runs>>

Next == Start \/ Unread \/ Miss \/ Decode \/ NextPass \/ Report \/ Truncate \/ Save \/ Crash
Spec == Init /\ [][Next]_vars

----------------------------------------------------------------------------
\* A line is what a station on the air at that frequency sends; for a hash, with three dots
\* or with a call that was heard in full and has this hash, be it the station's own or another's.
Sender(text) == IF text[1] = LT THEN SubSeq(text, 2, Where(text, GT)) ELSE Words(text, {Blank})[1]
InFull == {Sender(s.text) : s \in {x \in air : x.text[1] # LT}}
Shares(text, calls) == {c \in calls : nhash(c, 146) = nhash(Sender(text), 146)}
With(text, c) == <<LT>> \o c \o SubSeq(text, Where(text, GT) + 1, Len(text))
Dots == <<Dot, Dot, Dot>>
Readings(text) ==
  IF text[1] # LT THEN {text}
  ELSE {With(text, c) : c \in {Dots} \cup Shares(text, InFull \cup told)}
LineTrue ==
  \A i \in 1..Len(printed) : \E s \in air :
    s.f = printed[i].f
    /\ Words(printed[i].text, {Blank}) \in {Words(t, {Blank}) : t \in Readings(s.text)}

\* A station is printed once.  The one exception is a message with a hash that the same
\* interval told in full, by that station or by another of the hash, between the two passes:
\* it was not subtracted after the first (three dots are packed as another hash; a grid may be
\* packed with what stands behind it), and is printed again, as it reads by now.
OneLine ==
  \A i, j \in 1..Len(printed) : i < j /\ printed[i].f = printed[j].f =>
    \E s \in air : /\ s.f = printed[i].f /\ s.text[1] = LT
                   /\ \E c \in Shares(s.text, InFull) : printed[j].text = With(s.text, c)
                   /\ printed[i].text # printed[j].text
PrintedTrue == LineTrue /\ OneLine

\* A call that was printed in full in an earlier interval is not printed as three dots,
\* unless the file was lost; but for a prefix of one or two characters.
Short(text) == Where(text, Slash) < 4 /\ Where(text, Slash) + 4 < Where(text, GT)
CallsKept ==
  phase = "print" =>
    \A i \in 1..Len(printed), s \in air :
      printed[i].f = s.f /\ s.text[1] = LT /\ Sender(s.text) \in told /\ ~Short(s.text)
      => printed[i].text # With(s.text, Dots)

\* Nothing is missed for the sake of another station's message, but for a call of three
\* characters: it cannot be packed again and ends the pass.
Repacked(text) == Where(text, Blank) > 3
AllHeard ==
  phase = "print" /\ misses = 0 /\ (\A s \in air : Repacked(s.text))
  => \A s \in air : \E i \in 1..Len(printed) : printed[i].f = s.f

\* Commented: "Remove dupes (same callsign and freq within 3 Hz)"; one station, one line.
PrintedOnce == \A i, j \in 1..Len(printed) : i # j => printed[i].f # printed[j].f
=============================================================================
