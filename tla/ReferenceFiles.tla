--------------------------- MODULE ReferenceFiles ---------------------------
(***************************************************************************)
(* Two files of reference data.  CALL3.TXT, the calls and grids that Add     *)
(* keeps in order and Lookup searches, and the copy through which it is      *)
(* replaced.  cty.dat, the list of countries: a line that names a country,   *)
(* then lines of call prefixes, of which the last one says that it is; and   *)
(* the search for the country of a call.  They share nothing.                *)
(***************************************************************************)
EXTENDS Integers, Sequences

(* CALL3.TXT *)

CONSTANTS Calls,      \* numbers, in the order of the calls
          Begins,     \* <<c, d>>: call d begins with call c
          Grids, Start, MaxAdds
CallAssumption == /\ Calls \subseteq Nat \ {0} /\ MaxAdds \in Nat
                  /\ \A p \in Begins : p[1] <= p[2]
Zzz == 99            \* the entry of a new file
Missing == <<[call |-> -1, grid |-> ""]>>

VARIABLES
  txt, tmp, old,     \* CALL3.TXT, CALL3.TMP, CALL3.OLD: sequences of [call, grid], or Missing
  add,               \* the call of on_addButton_clicked under way: [pc, call, grid, todo, hc2, modified]
  adds,
  known,             \* history: the grid added last for each call
  crashed, shut      \* history: stops between the two renames; the file lacks its last entry
callVars == <<txt, tmp, old, add, adds, known, crashed, shut>>

Idle == [pc |-> "idle", call |-> 0, grid |-> "", todo |-> <<>>, hc2 |-> 0, modified |-> FALSE]
Entry(c, g) == [call |-> c, grid |-> g]
Listed(file) == {i \in 1..Len(file) : file[i].call \in Calls}
CallInit ==
  /\ txt \in Start /\ tmp = Missing /\ old = Missing /\ add = Idle /\ adds = 0
  /\ known = [c \in Calls |->
       IF \E i \in Listed(txt) : txt[i].call = c
       THEN txt[CHOOSE i \in Listed(txt) : txt[i].call = c].grid ELSE ""]
  /\ crashed = 0 /\ shut = (txt # Missing /\ \A i \in 1..Len(txt) : txt[i].call # Zzz)

----------------------------------------------------------------------------
\* on_addButton_clicked: both files are opened, an empty one gets an entry beyond all calls.
Add(c, g) ==
  /\ add.pc = "idle" /\ adds < MaxAdds /\ adds' = adds + 1
  /\ LET file == IF txt \in {Missing, <<>>} THEN <<Entry(Zzz, "")>> ELSE txt
     IN /\ txt' = file
        /\ add' = [pc |-> "read", call |-> c, grid |-> g, todo |-> file, hc2 |-> 0, modified |-> FALSE]
  /\ tmp' = <<>> /\ UNCHANGED <<old, known, crashed, shut>>

\* Mutant: the line before is not looked at.
Read_after(yes) ==
  /\ add.pc = "read" /\ add.todo # <<>>
  /\ LET l == Head(add.todo)
         new == Entry(add.call, add.grid)
         here == add.call < l.call
         there == add.call = l.call
     IN /\ ~there => yes
        /\ tmp' = tmp \o (IF here THEN <<new, l>> ELSE IF ~there THEN <<l>> ELSE IF yes THEN <<new>> ELSE <<>>)
        /\ add' = [add EXCEPT !.todo = Tail(@), !.hc2 = l.call, !.modified = @ \/ here \/ (there /\ yes)]
  /\ UNCHANGED <<txt, old, adds, known, crashed, shut>>
\* One line: the new entry goes before the first that is greater; if the call is there the
\* operator is asked.  hc1 is hc2 of the line before.
Read(yes) ==
  /\ add.pc = "read" /\ add.todo # <<>>
  /\ LET l == Head(add.todo)
         new == Entry(add.call, add.grid)
         here == add.hc2 < add.call /\ add.call < l.call
         there == add.call = l.call
     IN /\ ~there => yes
        /\ tmp' = tmp \o (IF here THEN <<new, l>> ELSE IF ~there THEN <<l>> ELSE IF yes THEN <<new>> ELSE <<>>)
        /\ add' = [add EXCEPT !.todo = Tail(@), !.hc2 = l.call, !.modified = @ \/ here \/ (there /\ yes)]
  /\ UNCHANGED <<txt, old, adds, known, crashed, shut>>

\* The end of the file: an entry beyond the last is written, but the copy not used.
Read_all ==
  /\ add.pc = "read" /\ add.todo = <<>>
  /\ tmp' = IF add.call > add.hc2 /\ ~add.modified THEN Append(tmp, Entry(add.call, add.grid)) ELSE tmp
  /\ add' = IF add.modified THEN [add EXCEPT !.pc = "rename"] ELSE Idle
  /\ UNCHANGED <<txt, old, adds, known, crashed, shut>>
RenameOld ==
  /\ add.pc = "rename" /\ old' = txt /\ txt' = Missing /\ add' = [add EXCEPT !.pc = "replace"]
  /\ UNCHANGED <<tmp, adds, known, crashed, shut>>
RenameNew ==
  /\ add.pc = "replace" /\ txt' = tmp /\ tmp' = Missing /\ add' = Idle
  /\ known' = [known EXCEPT ![add.call] = add.grid] /\ UNCHANGED <<old, adds, crashed, shut>>

Crash ==
  /\ add.pc # "idle" /\ add' = Idle /\ crashed' = crashed + (IF add.pc = "replace" THEN 1 ELSE 0)
  /\ UNCHANGED <<txt, tmp, old, adds, known, shut>>

CallNext == \/ \E c \in Calls, g \in Grids : Add(c, g)
            \/ \E yes \in BOOLEAN : Read(yes)
            \/ Read_all \/ RenameOld \/ RenameNew \/ Crash

----------------------------------------------------------------------------
\* lookup: the first line that begins with the call
lookup(file, c) ==
  LET fits == {i \in 1..Len(file) : file[i].call = c \/ <<c, file[i].call>> \in Begins}
  IN IF fits = {} THEN "" ELSE file[CHOOSE i \in fits : \A j \in fits : i <= j].grid

\* Every call that was ever added is found, with the grid added last, whenever the program
\* stops, unless between the two renames.  (Beyond the last entry of a file that does not
\* end in ZZZZZZ nothing is added; a call that is not there is given the grid of one that
\* begins with it.)
Found ==
  crashed = 0 /\ ~shut /\ add.pc # "replace" =>
    \A c \in Calls : known[c] # "" => lookup(txt, c) = known[c]

\* The file stays in order, each call once.
InOrder == add.pc # "replace" /\ ~shut => \A i, j \in 1..Len(txt) : i < j => txt[i].call < txt[j].call

\* After a stop between the renames nothing is lost until the next Add, which throws
\* the old file away.
OldKept == add.pc = "idle" /\ txt = Missing /\ crashed = 1 /\ ~shut =>
             \A c \in Calls : known[c] # "" => lookup(old, c) = known[c]

----------------------------------------------------------------------------
(* cty.dat *)

CONSTANTS Files,     \* sequences of lines, [name] or [prefixes, last]; prefixes are sequences
          Words      \* calls to look for
CountryAssumption == \A f \in Files : \A i \in 1..Len(f) : f[i].prefixes \subseteq Words

VARIABLES
  file, at,          \* the lines, how many were read
  pc, name,          \* the country of the lines being read
  data               \* _data: from prefixes to countries
countryVars == <<file, at, pc, name, data>>

CountryInit == /\ file \in Files /\ at = 0 /\ pc = "name" /\ name = ""
               /\ data = [w \in {} |-> ""]

\* load: two lines at least are read for a country; a file without a name there is no country.
AtEnd == at = Len(file)
ReadName ==
  /\ pc = "name"
  /\ IF at + 1 >= Len(file) THEN pc' = "loaded" /\ UNCHANGED <<at, name>>
     ELSE pc' = "prefixes" /\ at' = at + 1 /\ name' = file[at + 1].name
  /\ UNCHANGED <<file, data>>

\* The last line is the one with a semicolon; beyond the end of the file the lines read are empty.
Line == IF AtEnd THEN [name |-> "", prefixes |-> {}, last |-> FALSE] ELSE file[at + 1]
ReadPrefixes ==
  /\ pc = "prefixes" /\ at' = (IF AtEnd THEN at ELSE at + 1)
  /\ pc' = IF name = "" \/ Line.last THEN "name" ELSE "prefixes"
  /\ data' = IF name = "" THEN data
             ELSE [w \in DOMAIN data \cup Line.prefixes |->
                    IF w \in Line.prefixes THEN name ELSE data[w]]
  /\ UNCHANGED <<file, name>>
CountryNext == ReadName \/ ReadPrefixes

\* find: a call is shortened until it is a prefix of the list.
find[w \in Words] ==
  IF w = <<>> THEN "" ELSE IF w \in DOMAIN data THEN data[w] ELSE find[SubSeq(w, 1, Len(w) - 1)]

----------------------------------------------------------------------------
\* The country of a call is that of the longest prefix listed, and of the last country that lists it;
\* each line of names is followed by its lines of prefixes.
Within(v, w) == Len(v) <= Len(w) /\ v = SubSeq(w, 1, Len(v))
NamedFor(i) == file[CHOOSE j \in 1..i : /\ file[j].name # ""
                                        /\ \A k \in j + 1..i : file[k].name = ""].name
Listing(w) == {i \in 1..Len(file) : w \in file[i].prefixes}
Longest(w) ==
  LET all == {v \in Words : v # <<>> /\ Within(v, w) /\ Listing(v) # {}}
  IN IF all = {} THEN ""
     ELSE LET v == CHOOSE v \in all : \A u \in all : Len(u) <= Len(v)
          IN NamedFor(CHOOSE i \in Listing(v) : \A j \in Listing(v) : j <= i)
FindTrue == pc = "loaded" => \A w \in Words : find[w] = Longest(w)

\* A list whose last line has its semicolon is loaded to the end; without it the program
\* reads on for ever.
Ended == file # <<>> /\ file[Len(file)].last
NeverStuck == Ended => ~(pc = "prefixes" /\ AtEnd)

----------------------------------------------------------------------------
Init == CallInit /\ CountryInit
Next == \/ CallNext /\ UNCHANGED countryVars
        \/ CountryNext /\ UNCHANGED callVars
Spec == Init /\ [][Next]_<<callVars, countryVars>>
=============================================================================
