------------------------------- MODULE RigLink -------------------------------
(***************************************************************************)
(* What the management of rig connections promises, whatever fails and      *)
(* whatever crosses in transit between the threads: one connection at a     *)
(* time has the rig, a connection takes it only when all older ones have    *)
(* retired, a retired one never takes it again, and nobody but the          *)
(* connection that has the rig keys it.                                     *)
(***************************************************************************)
EXTENDS Integers

CONSTANT Connections   \* numbered in the order in which they are opened

VARIABLES
  owners,    \* the connections that have the rig
  retired,   \* those that will not have it again
  key        \* the rig is transmitting

linkVars == <<owners, retired, key>>

Init == owners = {} /\ retired = {} /\ key = FALSE

Older(i) == {j \in Connections : j < i}

Acquire(i) ==
  /\ owners = {} /\ i \notin retired /\ Older(i) \subseteq retired
  /\ owners' = {i} /\ key' \in BOOLEAN /\ UNCHANGED retired

\* The owner keys, unkeys, tunes; the rig may stop by itself.
Use ==
  /\ owners # {} \/ ~key'
  /\ key' \in BOOLEAN /\ UNCHANGED <<owners, retired>>

\* Letting go of the rig, for the time being or for ever, never keys it.
Release(i) ==
  /\ i \in owners /\ owners' = {}
  /\ key' \in {FALSE, key} /\ UNCHANGED retired

Retire(i) ==
  /\ i \notin retired /\ retired' = retired \cup {i} /\ owners' = owners \ {i}
  /\ key' \in {FALSE, key}

Next == Use \/ \E i \in Connections : Acquire(i) \/ Release(i) \/ Retire(i)

Spec == Init /\ [][Next]_linkVars
=============================================================================
