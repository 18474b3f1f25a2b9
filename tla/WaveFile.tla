------------------------------ MODULE WaveFile ------------------------------
(***************************************************************************)
(* BWFFile: the .wav files of received periods.  save_wave_file (in a       *)
(* thread of its own) writes a header without sizes, the samples, and, as   *)
(* the file is closed, the sizes and a list of facts; a crash or a full     *)
(* disk may end this anywhere.  read_header finds samples and facts again,  *)
(* also in files of other programs.                                         *)
(*                                                                          *)
(* A file is a sequence of bytes.  A byte of a descriptor, of a tag or of   *)
(* the format is known by its place in it, so that what is read at a wrong  *)
(* offset is not taken for one.  A write that fails is noticed at once.     *)
(***************************************************************************)
EXTENDS Integers, SequencesExt

CONSTANTS
  Audios,    \* what is saved: sequences of bytes
  Lists,     \* the facts: sequences of [key, text], ordered by their keys
  Others     \* files of other programs: [chunks, padded]

WaveAssumption ==
  \A o \in Others : \A i \in DOMAIN o.chunks :
    o.chunks[i].id \in {"fmt ", "data", "LIST", "bext"}

VARIABLES
  data, list,    \* what the file is to hold
  file,          \* the bytes of the file
  pc, item,      \* the next write, the fact it is about
  header_length,
  list_start,
  cut            \* history: a write failed

vars == <<data, list, file, pc, item, header_length, list_start, cut>>

-----------------------------------------------------------------------------
\* Bytes

Cells(id, size, n) == [k \in 1..n |-> [id |-> id, size |-> size, k |-> k]]
Desc(id, size) == Cells(id, size, 8)
Tag(id) == Cells(id, 0, 4)
Fmt(kind) == Cells(kind, 0, 16)
Plain(bytes) == [k \in 1..Len(bytes) |-> [id |-> "byte", size |-> bytes[k], k |-> 0]]
PadCells == Plain(<<0>>)
Text(t) == Plain(Append(t, 0))

\* Chunks begin at even offsets.
Even_not(n) == n
Even(n) == n + (n % 2)
PadIf(cells) == IF Len(cells) % 2 = 1 THEN cells \o PadCells ELSE cells

\* The file after cells were written at an offset; the end of what is written
\* may lie behind the end of the file.
Written(bytes, offset, cells) ==
  SubSeq(bytes, 1, offset) \o cells \o SubSeq(bytes, offset + Len(cells) + 1, Len(bytes))

\* A file as another program writes it: its last chunk may lack the pad byte.
Chunk(c) ==
  Desc(c.id, Len(c.body)) \o c.body
Whole(o) ==
  LET Put(cells, c) == PadIf(cells) \o Chunk(c)
      all == FoldLeft(Put, Tag("WAVE"), o.chunks)
      padded == IF o.padded THEN PadIf(all) ELSE all IN
  Desc("RIFF", Len(padded)) \o padded

-----------------------------------------------------------------------------
\* read_header

IdAt(bytes, o) ==
  LET c == bytes[o + 1] IN
  IF c.k = 1 /\ o + 8 <= Len(bytes) /\ bytes[o + 8].k = 8 THEN c ELSE [id |-> "?", size |-> 0, k |-> 0]

\* The offsets of the chunks from offset o on, in front of end; -1 if the file
\* ends before that.
ChunksAt(bytes, first, end) ==
  LET next[o \in 0..(2 * Len(bytes) + end)] ==
        IF o >= end - 1 THEN <<>>
        ELSE IF o + 8 > Len(bytes) THEN <<-1>>
        ELSE <<o>> \o next[o + 8 + Even(IdAt(bytes, o).size)] IN
  next[first]

Refused == [ok |-> FALSE, audio |-> <<>>, list |-> <<>>, kind |-> "none"]

Body(bytes, o) == SubSeq(bytes, o + 9, o + 8 + IdAt(bytes, o).size)
Values(cells) == [k \in 1..Len(cells) |-> cells[k].size]

Facts(bytes, o) ==
  LET starts == ChunksAt(bytes, o + 12, o + 8 + IdAt(bytes, o).size)
      Fact(s) == [key |-> IdAt(bytes, s).id, text |-> Values(Body(bytes, s))] IN
  IF starts # <<>> /\ Last(starts) = -1 THEN <<[key |-> "?", text |-> <<>>]>>
  ELSE [i \in 1..Len(starts) |-> Fact(starts[i])]

IsInfo(bytes, o) ==
  IdAt(bytes, o).id = "LIST" /\ o + 9 <= Len(bytes) /\ bytes[o + 9].id = "INFO"

\* The samples are those of the last data chunk, as many as the file holds; a
\* format other than PCM ends the attempt, and so does the end of the file.
read_header(bytes) ==
  LET riff == IF Len(bytes) < 12 THEN [id |-> "?", size |-> 0, k |-> 0] ELSE IdAt(bytes, 0)
      chunks == ChunksAt(bytes, 12, 8 + riff.size)
      Those(id) == SelectSeq(chunks, LAMBDA o : IdAt(bytes, o).id = id)
      fmts == Those("fmt ")
      datas == Those("data")
      infos == SelectSeq(chunks, LAMBDA o : IsInfo(bytes, o))
      facts == FlattenSeq([i \in 1..Len(infos) |-> Facts(bytes, infos[i])]) IN
  IF \/ riff.id # "RIFF" \/ bytes[9].id # "WAVE" \/ -1 \in ToSet(chunks)
     \/ datas = <<>> \/ \E i \in DOMAIN fmts : bytes[fmts[i] + 9].id = "float"
     \/ \E i \in DOMAIN facts : facts[i].key = "?"
  THEN Refused
  ELSE [ok |-> TRUE, audio |-> Values(Body(bytes, Last(datas))), list |-> facts,
        kind |-> IF fmts = <<>> THEN "none" ELSE bytes[Last(fmts) + 9].id]

-----------------------------------------------------------------------------
\* What is saved

Saving ==
  /\ data \in Audios /\ list \in Lists /\ file = <<>> /\ pc = "riff"

OfOther(o) ==
  LET infos == SelectSeq(o.chunks, LAMBDA c : c.id = "LIST" /\ c.list # <<>>) IN
  /\ data = Values(SelectSeq(o.chunks, LAMBDA c : c.id = "data")[1].body)
  /\ list = IF infos = <<>> THEN <<>> ELSE infos[1].list
  /\ file = Whole(o) /\ pc = "done"

Init ==
  /\ Saving \/ \E o \in Others : OfOther(o)
  /\ item = 1 /\ header_length = 0 /\ list_start = 0 /\ cut = FALSE

\* A write at an offset, and where the code goes on: a full disk keeps a part of
\* what lies behind the end of the file.
Put(offset, cells, next, failed) ==
  \/ file' = Written(file, offset, cells) /\ pc' = next /\ UNCHANGED cut
  \/ /\ offset + Len(cells) > Len(file)
     /\ \E n \in 0..(Len(cells) - 1) : file' = Written(file, offset, SubSeq(cells, 1, n))
     /\ pc' = failed /\ cut' = TRUE

End == Len(file)
Same == UNCHANGED <<data, list, item, header_length, list_start>>

\* write_header.  Should it fail, open cuts the file to nothing and goes on.
WriteRiff == pc = "riff" /\ Put(0, Desc("RIFF", 0), "wave", "resize") /\ Same
WriteWave == pc = "wave" /\ Put(End, Tag("WAVE"), "fmt", "resize") /\ Same
WriteFmt ==
  /\ pc = "fmt" /\ Put(End, Desc("fmt ", 16) \o Fmt("PCM"), "data", "resize") /\ Same
WriteData ==
  /\ pc = "data" /\ Put(End, Desc("data", 0), "write", "resize")
  /\ header_length' = IF pc' = "write" THEN End + 8 ELSE 0
  /\ UNCHANGED <<data, list, item, list_start>>
Resize == pc = "resize" /\ file' = <<>> /\ pc' = "write" /\ Same /\ UNCHANGED cut

\* save_wave_file: the samples, and then the file is closed.
WriteSamples == pc = "write" /\ Put(End, Plain(data), "size", "size") /\ Same

\* update_header: the size of the samples, the list and its size, and last of
\* all the size of the file.
SampleSize ==
  /\ pc = "size"
  /\ IF header_length = 0 THEN pc' = "over" /\ UNCHANGED <<file, cut>>
     ELSE Put(header_length - 8, Desc("data", End - header_length),
              IF list = <<>> THEN "outer" ELSE "list", "over")
  /\ Same

StartList ==
  /\ pc = "list"
  /\ Put(End, (IF End % 2 = 1 THEN PadCells ELSE <<>>) \o Desc("LIST", 0) \o Tag("INFO"),
         "item", "over")
  /\ list_start' = Even(End) + 8 /\ UNCHANGED <<data, list, item, header_length>>

WriteItem ==
  /\ pc = "item" /\ item <= Len(list)
  /\ LET t == Text(list[item].text) IN
     Put(End, (IF End % 2 = 1 THEN PadCells ELSE <<>>) \o Desc(list[item].key, Len(t)) \o t,
         "item", "over")
  /\ item' = item + 1 /\ UNCHANGED <<data, list, header_length, list_start>>

ListSize ==
  /\ pc = "item" /\ item > Len(list)
  /\ Put(list_start - 8, Desc("LIST", End - list_start), "outer", "over") /\ Same

OuterSize_uncounted == End - 12
OuterSize == End - 8

LastPad ==
  /\ pc = "outer" /\ End % 2 = 1
  /\ Put(End, PadCells, "riffsize", "over") /\ list_start' = OuterSize
  /\ UNCHANGED <<data, list, item, header_length>>
NoPad ==
  /\ pc = "outer" /\ End % 2 = 0 /\ pc' = "riffsize" /\ list_start' = OuterSize
  /\ UNCHANGED <<data, list, item, header_length, file, cut>>

RiffSize ==
  /\ pc = "riffsize" /\ Put(0, Desc("RIFF", list_start), "done", "over") /\ Same

\* The program ends in the middle.
Crash ==
  /\ pc \notin {"done", "over"} /\ pc' = "over" /\ UNCHANGED <<file, cut>> /\ Same

Next ==
  \/ WriteRiff \/ WriteWave \/ WriteFmt \/ WriteData \/ Resize \/ WriteSamples
  \/ SampleSize \/ StartList \/ WriteItem \/ ListSize \/ LastPad \/ NoPad \/ RiffSize
  \/ Crash

Spec == Init /\ [][Next]_vars

-----------------------------------------------------------------------------
\* The facts as they are read: the byte that ends a text belongs to it.
ListRead == [i \in 1..Len(list) |-> [list[i] EXCEPT !.text = Append(@, 0)]]

\* A file that was closed without a failure, or that another program wrote, is
\* read back whole, wherever odd lengths made pad bytes necessary.
ReadBack ==
  (pc = "done" /\ ~cut) =>
    LET r == read_header(file) IN r.ok /\ r.audio = data /\ r.list = ListRead

\* A file that a crash or a full disk cut short is refused; if it is read it has
\* lost nothing but the end of its samples, and knows all its facts.
TornRefused ==
  LET r == read_header(file) IN
  r.ok => pc = "done" /\ IsPrefix(r.audio, data) /\ r.list = ListRead
=============================================================================
