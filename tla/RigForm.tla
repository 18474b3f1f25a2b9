------------------------------ MODULE RigForm -------------------------------
(***************************************************************************)
(* The rig's page of the settings dialog: what it enables and fills in as   *)
(* the operator goes through it, what OK and Test make of it, and with      *)
(* which parameters the rig is open when the dialog is left.                *)
(*                                                                          *)
(* What can be chosen depends on the rig, and set_rig_invariants, called    *)
(* after most clicks, sees to that; it reads widgets that it sets itself    *)
(* further down.  The parameters the page holds are those that depend on    *)
(* each other; the others (speed, bits, split, polling) are one, "rest".    *)
(***************************************************************************)
EXTENDS Integers

CONSTANTS
  Types,      \* of each rig: how it is reached
  CatPtt,     \* rigs that can be keyed by a command
  Indirect,   \* rigs that can key a line of their serial port for another
  Mic,        \* rigs with a choice of the audio source
  First,      \* the rig whose name comes first: one of Hamlib's, on a serial port
  Serial, Network, Usb,   \* addresses
  Saved,      \* the parameters a settings file may hold at the start
  MaxEdits    \* bound: clicks in the dialog

None == "None"
Rigs == DOMAIN Types
Kinds == {"serial", "network", "usb"}
Ports == Serial \cup {"USB"}        \* the list of ports
Texts == Ports \cup Network \cup Usb \cup {""}
Methods == {"VOX", "CAT", "DTR", "RTS"}
Forms == [rig : Rigs, cat : Texts, hw : BOOLEAN, dtr : BOOLEAN, rts : BOOLEAN,
          method : Methods, pport : Ports \cup {"", "CAT"}, rear : BOOLEAN, rest : 0..1]
Params == [rig : Rigs, address : [Kinds -> Texts], hw : BOOLEAN, dtr : BOOLEAN, rts : BOOLEAN,
           method : Methods, pport : Ports \cup {"", "CAT"}, rear : BOOLEAN, rest : 0..1]

\* The method of keying is one the rig has, and does not take the line that the handshake
\* of its own port uses.
Keyed(prm) ==
  /\ prm.method = "CAT" => prm.rig \in CatPtt
  /\ ~(prm.method = "RTS" /\ Types[prm.rig] = "serial" /\ prm.hw /\ prm.pport = prm.address["serial"])

\* Parameters that a settled page accepts: a line of the serial port is forced only if
\* there is one, and neither handshake nor keying uses it.
OwnLine(prm, method) == prm.method = method /\ prm.pport = prm.address["serial"]
Proper(prm) ==
  /\ Keyed(prm)
  /\ prm.dtr => Types[prm.rig] = "serial" /\ ~OwnLine(prm, "DTR")
  /\ prm.rts => Types[prm.rig] = "serial" /\ ~OwnLine(prm, "RTS") /\ ~prm.hw
  /\ prm.pport = "CAT" => prm.rig \in Indirect
  /\ prm.rig # None /\ Types[prm.rig] = "none" => prm.address["serial"] = ""

FormAssumption ==
  /\ Types \in [Rigs -> Kinds \cup {"none"}] /\ None \in Rigs /\ Types[None] = "none"
  /\ First \in Rigs /\ Types[First] = "serial" /\ CatPtt \cup Indirect \cup Mic \subseteq Rigs \ {None}
  /\ Serial # {} /\ {"", "CAT"} \cap Serial = {} /\ Saved \subseteq Params /\ MaxEdits \in Nat
  /\ \A prm \in Saved : Proper(prm)

VARIABLES
  params,   \* rig_params_, in force and in the file
  page,     \* the widgets: form, on (enabled), last (last_port_type_)
  rig,      \* rig_active_, what it was opened with, saved_rig_params_, rig_changed_
  have,     \* have_rig_
  open,     \* the dialog is
  edits,
  stale,    \* history: OK came when the page was to be settled once more
  left      \* history: Cancel, or a file that names no port, left a page with another one
vars == <<params, page, rig, have, open, edits, stale, left>>

----------------------------------------------------------------------------
\* The widgets that are not always enabled; those in a box need the box.
Widgets == {"control", "serial", "dtr", "rts", "CAT", "RTS", "pport", "catItem", "source"}
Can(p, w) ==
  p.on[w] /\ (w = "serial" => p.on["control"]) /\ (w \in {"dtr", "rts"} => p.on["control"] /\ p.on["serial"])

FirstPort == CHOOSE port \in Serial : TRUE
AddressShown(prm, p, type) ==
  IF type = p.last THEN p.form.cat
  ELSE IF type = "none" THEN ""
  ELSE IF type = "serial" /\ prm.address[type] = "" THEN FirstPort ELSE prm.address[type]

\* set_rig_invariants: handshake and address are read before they are set.
Hardware(p) == Can(p, "serial") /\ p.form.hw
Settled(prm, p) ==
  LET f == p.form
      type == Types[f.rig]
      shared == f.pport = f.cat
      rtsOk == ~(type = "serial" /\ shared /\ Hardware(p))
      both == [w \in Widgets |->
                 CASE w = "CAT" -> f.rig \in CatPtt
                   [] w = "pport" -> f.method \notin {"CAT", "VOX"}
                   [] w = "catItem" -> f.rig \in Indirect
                   [] w = "RTS" -> rtsOk
                   [] OTHER -> p.on[w]]
      port == IF f.pport = "CAT" /\ f.rig \notin Indirect THEN "USB" ELSE f.pport
  IN IF f.rig = None
     THEN [p EXCEPT !.form.pport = port,
                    !.on = [both EXCEPT !["control"] = FALSE, !["source"] = FALSE]]
     ELSE [form |-> [f EXCEPT !.pport = port, !.cat = AddressShown(prm, p, type)],
           last |-> type,
           on |-> [w \in Widgets |->
                     CASE w = "control" -> TRUE
                       [] w = "source" -> f.rig \in Mic /\ f.method = "CAT"
                       [] w = "serial" -> type = "serial"
                       [] w = "dtr" -> type = "serial" /\ ~(shared /\ f.method = "DTR")
                       [] w = "rts" -> /\ type = "serial" /\ ~Hardware(p)
                                       /\ ~(shared /\ rtsOk /\ f.method = "RTS")
                       [] OTHER -> both[w]]]

\* A widget is set by the program; some then call set_rig_invariants if they change.
Put(p, field, v) == [p EXCEPT !.form[field] = v]
Changed(prm, p, field, v) == IF p.form[field] = v THEN p ELSE Settled(prm, Put(p, field, v))

\* initialize_models, the rig's part, in its order.
initialize_models(prm, p) ==
  LET p1 == Changed(prm, Put(p, "method", prm.method), "rig", prm.rig)
      p2 == Put(Changed(prm, p1, "rest", prm.rest), "hw", prm.hw)
      p3 == Changed(prm, Changed(prm, p2, "dtr", prm.dtr), "rts", prm.rts)
      p4 == Put(p3, "rear", prm.rear)
  IN Settled(prm, IF prm.pport = "" THEN Put(p4, "pport", FirstPort) ELSE Put(p4, "pport", prm.pport))

\* gather_rig_data: the address goes to the kind of the rig, "None" counts as serial.
AddressFor(type) == IF type \in {"network", "usb"} THEN type ELSE "serial"
gather_rig_data(prm, p) ==
  [rig |-> p.form.rig, address |-> [prm.address EXCEPT ![AddressFor(Types[p.form.rig])] = p.form.cat],
   hw |-> p.form.hw, dtr |-> Can(p, "dtr") /\ p.form.dtr, rts |-> Can(p, "rts") /\ p.form.rts,
   method |-> p.form.method, pport |-> p.form.pport, rear |-> p.form.rear, rest |-> p.form.rest]

\* validate, the rig's part.
Valid(p) ==
  /\ p.form.method \in {"CAT", "RTS"} => p.on[p.form.method]
  /\ p.form.method \in {"DTR", "RTS"} =>
       p.form.pport # "" /\ ~(p.form.pport = "CAT" /\ ~p.on["catItem"])

\* open_rig: the outcomes, of which some may have failed.
Opened_once(r, data, force) ==
  IF force \/ ~r.active
  THEN {[active |-> b, with |-> data, saved |-> data, changed |-> TRUE] : b \in BOOLEAN}
  ELSE {r}
Opened(r, data, force) ==
  IF force \/ ~r.active \/ data # r.saved
  THEN {[active |-> b, with |-> data, saved |-> data, changed |-> TRUE] : b \in BOOLEAN}
  ELSE {r}

\* The constructor: the list of rigs is filled, which shows the first of them, then
\* the one in force.
Fresh == [form |-> [rig |-> First, cat |-> "", hw |-> FALSE, dtr |-> FALSE, rts |-> FALSE,
                    method |-> "VOX", pport |-> FirstPort, rear |-> FALSE, rest |-> 0],
          on |-> [w \in Widgets |-> TRUE], last |-> "none"]
Built(prm) == initialize_models(prm, Changed(prm, Settled(prm, Fresh), "rig", prm.rig))

NamesNoPort(prm) ==
  prm.pport = "" \/ (prm.address["serial"] = "" /\ (prm.rig = None \/ Types[prm.rig] = "serial"))

Init ==
  /\ params \in Saved /\ page = Built(params)
  /\ \E b \in BOOLEAN : LET d == gather_rig_data(params, page) IN
       rig = [active |-> b, with |-> d, saved |-> d, changed |-> TRUE]
  /\ have = FALSE /\ open = FALSE /\ edits = 0 /\ left = NamesNoPort(params) /\ stale = FALSE

----------------------------------------------------------------------------
exec ==
  /\ ~open /\ open' = TRUE /\ have' = rig.active
  /\ rig' = [rig EXCEPT !.saved = params, !.changed = FALSE]
  /\ page' = initialize_models(params, page)
  /\ UNCHANGED <<params, edits, stale, left>>

Edit(p) ==
  /\ open /\ edits < MaxEdits /\ edits' = edits + 1 /\ page' = p /\ p # page
  /\ UNCHANGED <<params, rig, have, open, stale, left>>

on_rig_combo_box == \E r \in Rigs : Edit(Settled(params, Put(page, "rig", r)))
on_PTT_method == \E m \in Methods :
  /\ m \in {"CAT", "RTS"} => page.on[m]
  /\ Edit(Settled(params, Put(page, "method", m)))
on_PTT_port_combo_box == \E port \in Ports \cup {"CAT"} :
  /\ page.on["pport"] /\ (port = "CAT" => page.on["catItem"])
  /\ Edit(Settled(params, Put(page, "pport", port)))
\* An item of the list of ports is taken, or an address typed: then nothing follows.
on_CAT_port_combo_box == \E port \in Ports :
  /\ page.on["control"] /\ page.last = "serial"
  /\ Edit(Settled(params, Put(page, "cat", port)))
CAT_port_typed == \E text \in Texts :
  /\ page.on["control"] /\ page.last # "none"
  /\ Edit(Put(page, "cat", text))
on_CAT_handshake == Can(page, "serial") /\ Edit(Settled(params, Put(page, "hw", ~page.form.hw)))
on_force_DTR == Can(page, "dtr") /\ Edit(Settled(params, Put(page, "dtr", ~page.form.dtr)))
on_force_RTS == Can(page, "rts") /\ Edit(Settled(params, Put(page, "rts", ~page.form.rts)))
on_audio_source == page.on["source"] /\ Edit(Put(page, "rear", ~page.form.rear))
on_others == page.on["control"] /\ Edit(Settled(params, Put(page, "rest", 1 - page.form.rest)))

on_test_CAT ==
  /\ open /\ page.on["control"] /\ Valid(page) /\ edits < MaxEdits /\ edits' = edits + 1
  /\ rig' \in Opened(rig, gather_rig_data(params, page), TRUE)
  /\ page' = Settled(params, page) /\ UNCHANGED <<params, have, open, stale, left>>
on_test_PTT ==
  /\ open /\ Valid(page) /\ rig' \in Opened(rig, gather_rig_data(params, page), FALSE)
  /\ rig' # rig /\ UNCHANGED <<params, page, have, open, edits, stale, left>>

\* The connection fails.
handle_transceiver_failure ==
  /\ rig.active /\ rig' = [rig EXCEPT !.active = FALSE]
  /\ UNCHANGED <<params, page, have, open, edits, stale, left>>

\* OK: the rig is opened first if the parameters are others.  The main window then
\* sees that it is open.
Reopened(data) == IF data = params THEN {rig} ELSE Opened(rig, data, FALSE)
accept ==
  /\ open /\ Valid(page)
  /\ LET data == gather_rig_data(params, page) IN
     \E r \in Reopened(data) :
       IF data # params /\ ~r.active
       THEN rig' = r /\ UNCHANGED <<params, open, stale, left>>
       ELSE params' = data /\ open' = FALSE /\ left' = (left /\ data = params)
            /\ stale' = (Settled(data, page) # page)
            /\ rig' \in Opened(r, gather_rig_data(data, page), FALSE)
  /\ UNCHANGED <<page, have, edits>>

reject ==
  /\ open /\ open' = FALSE /\ page' = initialize_models(params, page)
  /\ LET data == gather_rig_data(params, page') IN
     \E r \in IF ~rig.changed THEN {rig}
              ELSE IF have THEN Opened(rig, data, FALSE) ELSE {[rig EXCEPT !.active = FALSE]} :
       rig' \in Opened(r, data, FALSE)
  /\ left' = (left \/ gather_rig_data(params, page').address # params.address)
  /\ UNCHANGED <<params, have, edits, stale>>

\* The Read button and others: transceiver_online.
transceiver_online ==
  /\ ~open /\ rig' \in Opened(rig, gather_rig_data(params, page), FALSE) /\ rig' # rig
  /\ UNCHANGED <<params, page, have, open, edits, stale, left>>

restart ==
  /\ ~open /\ page' = Built(params) /\ left' = NamesNoPort(params) /\ have' = FALSE
  /\ \E b \in BOOLEAN : LET d == gather_rig_data(params, page') IN
       rig' = [active |-> b, with |-> d, saved |-> d, changed |-> TRUE]
  /\ UNCHANGED <<params, open, edits, stale>>

Next ==
  \/ exec \/ accept \/ reject \/ transceiver_online \/ restart \/ handle_transceiver_failure
  \/ on_rig_combo_box \/ on_PTT_method \/ on_PTT_port_combo_box
  \/ on_CAT_port_combo_box \/ CAT_port_typed \/ on_CAT_handshake
  \/ on_force_DTR \/ on_force_RTS \/ on_audio_source \/ on_others \/ on_test_CAT \/ on_test_PTT
Spec == Init /\ [][Next]_vars

----------------------------------------------------------------------------
TypeOK ==
  /\ params \in Params /\ page.form \in Forms /\ page.on \in [Widgets -> BOOLEAN]
  /\ rig.with \in Params /\ rig.saved \in Params /\ {rig.active, have, open, stale, left} \subseteq BOOLEAN
  /\ edits \in 0..MaxEdits

\* However the dialog was left and whatever was tested in it, a rig that is open is
\* open with the parameters in force: not so after a Cancel that left an address, nor before the first OK.
RigAsSet == ~open /\ rig.active /\ ~left /\ ~stale => rig.with = params

\* A method of keying in force is one the rig has, and does not take the line that
\* the handshake of its own port uses.
KeyingPossible == ~stale => Keyed(params)

----------------------------------------------------------------------------
\* Why (proved in StationProofs).

Pages == [form : Forms, on : [Widgets -> BOOLEAN], last : Kinds \cup {"none"}]
Connections == [active : BOOLEAN, with : Params, saved : Params, changed : BOOLEAN]
RigTypeOK ==
  /\ params \in Params /\ page \in Pages /\ rig \in Connections
  /\ have \in BOOLEAN /\ open \in BOOLEAN /\ stale \in BOOLEAN /\ left \in BOOLEAN /\ edits \in 0..MaxEdits

\* The page remembers the kind of its rig, and has an address only for a rig that needs one.
PageSound(p) ==
  /\ p.form.rig # None => p.last = Types[p.form.rig]
  /\ p.last = "none" => p.form.cat = ""
  /\ p.form.pport # ""

\* Out of the dialog the page says what is in force, in it the connection was made with
\* what was saved for comparison; both but for a cancelled address and a page not settled.
Excused == left \/ ~Proper(params)
Connected ==
  rig.active =>
    IF open THEN rig.with = rig.saved \/ (rig.saved = params /\ Excused)
            ELSE rig.with = params \/ Excused
RigInv ==
  /\ RigTypeOK /\ PageSound(page) /\ Connected
  /\ ~left => params.pport # ""
  /\ ~stale => Proper(params)
  /\ ~open /\ ~Excused => gather_rig_data(params, page) = params
=============================================================================
