----------------------------- MODULE PrivacyMap -----------------------------
(***************************************************************************)
(* What the controller's address-resolution commands promise: a map from   *)
(* the identities the host has added to the privacy mode of each, with     *)
(* mode 0 until the host sets another.  The map may not change while it is *)
(* in use, that is, while advertising with resolution on.                  *)
(***************************************************************************)
EXTENDS Integers, FiniteSets, Functions

CONSTANTS Identities, Capacity

VARIABLES privacy,   \* identity -> mode, for the identities in the list
          inUse,     \* resolution is enabled and advertising is on
          reply      \* status byte of the last command

vars == <<privacy, inUse, reply>>

Ok == 0
UnknownConnection == 2
MemoryFull == 7
Disallowed == 12
InvalidParameters == 18

NoIdentity == [i \in {} |-> 0]

Init == privacy = NoIdentity /\ inUse = FALSE /\ reply = Ok

Listed(id) == id \in DOMAIN privacy

Answer(status) == reply' = status /\ UNCHANGED inUse

Add(id) ==
  \/ inUse /\ Answer(Disallowed) /\ UNCHANGED privacy
  \/ ~inUse /\ Listed(id) /\ Answer(InvalidParameters) /\ UNCHANGED privacy
  \/ /\ ~inUse /\ ~Listed(id) /\ Cardinality(DOMAIN privacy) = Capacity
     /\ Answer(MemoryFull) /\ UNCHANGED privacy
  \/ /\ ~inUse /\ ~Listed(id) /\ Cardinality(DOMAIN privacy) < Capacity
     /\ Answer(Ok)
     /\ privacy' = [i \in DOMAIN privacy \cup {id} |-> IF i = id THEN 0 ELSE privacy[i]]

Remove(id) ==
  \/ inUse /\ Answer(Disallowed) /\ UNCHANGED privacy
  \/ ~inUse /\ ~Listed(id) /\ Answer(UnknownConnection) /\ UNCHANGED privacy
  \/ ~inUse /\ Listed(id) /\ Answer(Ok) /\ privacy' = Restrict(privacy, DOMAIN privacy \ {id})

Clear ==
  \/ inUse /\ Answer(Disallowed) /\ UNCHANGED privacy
  \/ ~inUse /\ Answer(Ok) /\ privacy' = NoIdentity

(* Unlike the others, this one is accepted while the map is in use.        *)
SetMode(id, mode) ==
  \/ ~Listed(id) /\ Answer(UnknownConnection) /\ UNCHANGED privacy
  \/ Listed(id) /\ Answer(Ok) /\ privacy' = [privacy EXCEPT ![id] = mode]

(* Advertising, the resolution switch and connections decide the use.      *)
Switch == UNCHANGED privacy /\ inUse' \in BOOLEAN /\ reply' \in {Ok, Disallowed, InvalidParameters, reply}

Reset == privacy' = NoIdentity /\ inUse' = FALSE /\ reply' = Ok

Next ==
  \/ \E id \in Identities : Add(id) \/ Remove(id) \/ \E mode \in 0..1 : SetMode(id, mode)
  \/ Clear \/ Switch \/ Reset

Spec == Init /\ [][Next]_vars

=============================================================================
