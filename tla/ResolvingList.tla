--------------------------- MODULE ResolvingList ---------------------------
(***************************************************************************)
(* The resolving list of the BLE controller (BleController.Hci.cpp): a     *)
(* vector of identities and, beside it, a fixed array with the privacy     *)
(* mode of the identity at the same index.  The two are kept aligned by    *)
(* hand: removing an identity shifts the modes behind it down one slot.    *)
(***************************************************************************)
EXTENDS Integers, Sequences, SequencesExt

CONSTANTS Identities,  \* peer identities: address type and address
          Capacity     \* ResolvingCapacity, and the size of _privacyModes (4)

ASSUME ListAssumption == Capacity \in Nat \ {0}

VARIABLES list,               \* _resolvingList, its identities
          modes,              \* _privacyModes, slots 1..Capacity
          resolutionEnabled, advertising, connected,
          reply               \* status byte of the last command

vars == <<list, modes, resolutionEnabled, advertising, connected, reply>>

Ok == 0
UnknownConnection == 2
MemoryFull == 7
Disallowed == 12
InvalidParameters == 18

NoModes == [slot \in 1..Capacity |-> 0]

Init ==
  /\ list = <<>> /\ modes = NoModes
  /\ resolutionEnabled = FALSE /\ advertising = FALSE /\ connected = FALSE
  /\ reply = Ok

InUse == resolutionEnabled /\ advertising

Listed(id) == \E i \in DOMAIN list : list[i] = id

(* find_if: the first entry with this identity.                            *)
IndexOf(id) == CHOOSE i \in DOMAIN list : list[i] = id /\ \A j \in 1..(i - 1) : list[j] # id

Refuse(status) == reply' = status /\ UNCHANGED <<list, modes, resolutionEnabled, advertising, connected>>

(* Mutant: the limit of the array is not checked.                          *)
AddDeviceUnchecked(id) ==
  \/ InUse /\ Refuse(Disallowed)
  \/ ~InUse /\ Listed(id) /\ Refuse(InvalidParameters)
  \/ /\ ~InUse /\ ~Listed(id)
     /\ list' = Append(list, id)
     /\ reply' = Ok
     /\ UNCHANGED <<modes, resolutionEnabled, advertising, connected>>

AddDevice(id) ==
  \/ InUse /\ Refuse(Disallowed)
  \/ ~InUse /\ Listed(id) /\ Refuse(InvalidParameters)
  \/ ~InUse /\ ~Listed(id) /\ Len(list) = Capacity /\ Refuse(MemoryFull)
  \/ /\ ~InUse /\ ~Listed(id) /\ Len(list) # Capacity
     /\ list' = Append(list, id)
     /\ reply' = Ok
     /\ UNCHANGED <<modes, resolutionEnabled, advertising, connected>>

(* Mutants: the last slot keeps its mode; the shift starts one too far.    *)
ShiftKeepsLast(index) ==
  [slot \in 1..Capacity |-> IF slot >= index /\ slot < Len(list) THEN modes[slot + 1] ELSE modes[slot]]

ShiftFromNext(index) ==
  [slot \in 1..Capacity |->
     IF slot = Len(list) THEN 0
     ELSE IF slot > index /\ slot < Len(list) THEN modes[slot + 1] ELSE modes[slot]]

(* The loop over i + 1 < size, then the last used slot is zeroed.          *)
ShiftedModes(index) ==
  [slot \in 1..Capacity |->
     IF slot = Len(list) THEN 0
     ELSE IF slot >= index /\ slot < Len(list) THEN modes[slot + 1] ELSE modes[slot]]

RemoveDevice(id) ==
  \/ InUse /\ Refuse(Disallowed)
  \/ ~InUse /\ ~Listed(id) /\ Refuse(UnknownConnection)
  \/ /\ ~InUse /\ Listed(id)
     /\ modes' = ShiftedModes(IndexOf(id))
     /\ list' = RemoveAt(list, IndexOf(id))
     /\ reply' = Ok
     /\ UNCHANGED <<resolutionEnabled, advertising, connected>>

ClearList ==
  \/ InUse /\ Refuse(Disallowed)
  \/ /\ ~InUse
     /\ list' = <<>> /\ modes' = NoModes
     /\ reply' = Ok
     /\ UNCHANGED <<resolutionEnabled, advertising, connected>>

SetPrivacyMode(id, mode) ==
  \/ ~Listed(id) /\ Refuse(UnknownConnection)
  \/ /\ Listed(id)
     /\ modes' = [modes EXCEPT ![IndexOf(id)] = mode]
     /\ reply' = Ok
     /\ UNCHANGED <<list, resolutionEnabled, advertising, connected>>

SetResolution(on) ==
  \/ advertising /\ Refuse(Disallowed)
  \/ /\ ~advertising
     /\ resolutionEnabled' = on
     /\ reply' = Ok
     /\ UNCHANGED <<list, modes, advertising, connected>>

(* Advertising with a random address that has not been set is refused.     *)
SetAdvertising(on) ==
  \/ connected /\ on /\ Refuse(Disallowed)
  \/ ~connected /\ on /\ Refuse(InvalidParameters)
  \/ /\ ~(connected /\ on)
     /\ advertising' = on
     /\ reply' = Ok
     /\ UNCHANGED <<list, modes, resolutionEnabled, connected>>

(* A peer connects, which ends advertising; the link ends.                 *)
Connect ==
  /\ advertising /\ ~connected
  /\ connected' = TRUE /\ advertising' = FALSE
  /\ UNCHANGED <<list, modes, resolutionEnabled, reply>>

Disconnect ==
  /\ connected /\ connected' = FALSE
  /\ UNCHANGED <<list, modes, resolutionEnabled, advertising, reply>>

resetHci ==
  /\ list' = <<>> /\ modes' = NoModes
  /\ resolutionEnabled' = FALSE /\ advertising' = FALSE /\ connected' = FALSE
  /\ reply' = Ok

Next ==
  \/ \E id \in Identities :
       \/ AddDevice(id) \/ RemoveDevice(id)
       \/ \E mode \in 0..1 : SetPrivacyMode(id, mode)
  \/ \E on \in BOOLEAN : SetResolution(on) \/ SetAdvertising(on)
  \/ ClearList \/ Connect \/ Disconnect \/ resetHci

Spec == Init /\ [][Next]_vars

-----------------------------------------------------------------------------

(* Types, and the bound of the fixed array on the vector beside it.        *)
TypeOK ==
  /\ list \in Seq(Identities) /\ Len(list) <= Capacity
  /\ modes \in [1..Capacity -> 0..1]
  /\ resolutionEnabled \in BOOLEAN /\ advertising \in BOOLEAN /\ connected \in BOOLEAN
  /\ reply \in {Ok, UnknownConnection, MemoryFull, Disallowed, InvalidParameters}

(* An identity is listed once, and no mode is left in a slot without an    *)
(* identity: the next identity added there starts with mode 0.             *)
Aligned ==
  /\ \A i, j \in DOMAIN list : list[i] = list[j] => i = j
  /\ \A slot \in 1..Capacity : slot > Len(list) => modes[slot] = 0

(* The state's invariants together.                                        *)
ListSafety == TypeOK /\ Aligned

(* The mode the parallel array records for each listed identity.           *)
PrivacyOf == [id \in {list[i] : i \in DOMAIN list} |-> modes[IndexOf(id)]]

Map == INSTANCE PrivacyMap WITH privacy <- PrivacyOf, inUse <- InUse

(* The vector and the array implement a map from identity to mode; in      *)
(* particular a removal changes the mode of no other identity.             *)
ImplementsMap == Map!Spec

=============================================================================
