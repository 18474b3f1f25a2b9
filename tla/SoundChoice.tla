---------------------------- MODULE SoundChoice -----------------------------
(***************************************************************************)
(* The choice of a sound device and its channel, for input as for output:   *)
(* in force, in the settings file, in the dialog and in the stream that     *)
(* runs, with devices that are unplugged and an operating system whose      *)
(* default changes.                                                         *)
(***************************************************************************)
EXTENDS Integers

CONSTANTS Devices, Channels, MaxEdits
SoundAssumption == Devices # {} /\ Channels # {} /\ MaxEdits \in Nat

VARIABLES
  plugged, default,  \* the devices there are, and the default of the system
  device, channel,   \* in force
  file,              \* SoundInName and AudioInputChannel
  box, channelBox,   \* the combo boxes
  selected,          \* default_audio_input_device_selected_
  restart,           \* restart_sound_input_device_
  stream,            \* what the audio runs with
  open, edits,
  left, fallen       \* history: a choice was cancelled; the device in the file was not there
world == <<plugged, default>>
conf == <<device, channel, box, channelBox, selected, restart, stream>>
vars == <<world, conf, file, open, edits, left, fallen>>

\* read_settings and load_audio_devices: a device that is not there is replaced by
\* the default, and so will be the name in the file.
Loaded(f) ==
  /\ device' = IF f.name \in plugged' THEN f.name ELSE default'
  /\ channel' = f.channel /\ box' = device' /\ channelBox' = f.channel
  /\ selected' = (f.name \notin plugged') /\ fallen' = selected' /\ restart' = FALSE
  /\ stream' = [name |-> device', channel |-> f.channel]

\* write_settings
Written(dev, ch) == [name |-> IF selected THEN default ELSE dev, channel |-> ch]

Init ==
  \E d \in Devices, c \in Channels :
    /\ plugged = Devices /\ default \in Devices /\ file = [name |-> d, channel |-> c]
    /\ device = d /\ channel = c /\ box = d /\ channelBox = c /\ selected = FALSE
    /\ restart = FALSE /\ stream = file /\ open = FALSE /\ edits = 0 /\ left = FALSE /\ fallen = FALSE

----------------------------------------------------------------------------
exec == ~open /\ open' = TRUE /\ UNCHANGED <<world, conf, file, edits, left, fallen>>

Edit == open /\ edits < MaxEdits /\ edits' = edits + 1
\* on_sound_input_combo_box_currentTextChanged: whether it is the default is noted
\* before it is accepted.
device_chosen(d) ==
  /\ Edit /\ d # box /\ box' = d /\ selected' = (d = default)
  /\ UNCHANGED <<world, device, channel, channelBox, restart, stream, file, open, left, fallen>>
channel_chosen(c) ==
  /\ Edit /\ c # channelBox /\ channelBox' = c
  /\ UNCHANGED <<world, device, channel, box, selected, restart, stream, file, open, left, fallen>>

\* The restart is asked for if anything changed; it is never taken back, so every
\* later OK restarts the stream too.
Restarted(changed) == restart \/ changed
accept ==
  /\ open /\ open' = FALSE
  /\ device' = IF box = device THEN device ELSE IF box \in plugged THEN box ELSE default
  /\ channel' = channelBox
  /\ restart' = Restarted(box # device \/ channelBox # channel)
  /\ stream' = IF restart' THEN [name |-> device', channel |-> channel'] ELSE stream
  /\ file' = Written(device', channel') /\ left' = (box # device') /\ fallen' = FALSE
  /\ UNCHANGED <<world, box, channelBox, selected, edits>>

\* initialize_models does nothing about sound.
reject ==
  /\ open /\ open' = FALSE /\ left' = (left \/ box # device \/ channelBox # channel)
  /\ UNCHANGED <<world, conf, file, edits, fallen>>

\* The program ends or crashes and starts again, with devices plugged and unplugged
\* and another default in between.  (Changes under a running program are not modelled.)
restarts ==
  /\ ~open
  /\ plugged' \in SUBSET Devices /\ default' \in plugged'
  /\ world' # world => edits < MaxEdits
  /\ edits' = IF world' = world THEN edits ELSE edits + 1
  /\ \E f \in {Written(device, channel), file} : file' = f /\ Loaded(f)
  /\ left' = FALSE /\ UNCHANGED open

Next ==
  \/ exec \/ accept \/ reject \/ restarts
  \/ \E d \in Devices : device_chosen(d)
  \/ \E c \in Channels : channel_chosen(c)
Spec == Init /\ [][Next]_vars

----------------------------------------------------------------------------
TypeOK ==
  /\ plugged \subseteq Devices /\ {default, device, box} \subseteq Devices
  /\ {channel, channelBox} \subseteq Channels /\ {file, stream} \subseteq [name : Devices, channel : Channels]
  /\ {selected, restart, open, left, fallen} \subseteq BOOLEAN /\ edits \in 0..MaxEdits

\* The sound runs with the device and the channel in force.
StreamAsSet == stream = [name |-> device, channel |-> channel]

\* A start of the program brings back the device and the channel that were in force,
\* if the device is there, unless a choice was cancelled in the dialog: then the
\* default may come back; or the one in force stood in for another.
KeptAtStart ==
  restarts /\ ~left /\ ~fallen /\ device \in plugged' => device' = device /\ channel' = channel
DeviceKept == [][KeptAtStart]_vars

----------------------------------------------------------------------------
\* Why (proved in StationProofs): unless a choice was cancelled, or the device in the
\* file was not there, file and dialog agree with what is in force; the default is
\* written for a device only when the box shows the default.
SoundInv ==
  /\ TypeOK /\ StreamAsSet
  /\ selected => box = default
  /\ ~left /\ ~fallen => file = [name |-> device, channel |-> channel]
  /\ ~open /\ ~left /\ ~fallen => box = device
=============================================================================
