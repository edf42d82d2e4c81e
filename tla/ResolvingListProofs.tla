------------------------ MODULE ResolvingListProofs ------------------------
(***************************************************************************)
(* The resolving list and the array of modes beside it, for every set of   *)
(* identities and every capacity: the invariants, and the refinement of    *)
(* PrivacyMap.                                                             *)
(***************************************************************************)
EXTENDS ResolvingList, SequenceTheorems, FiniteSetTheorems, TLAPS

ListInv == TypeOK /\ Aligned

-----------------------------------------------------------------------------
(* Removing the element at an index: the elements before it stay, the      *)
(* elements behind it move down one place.                                 *)
LEMMA Removed ==
  ASSUME NEW S, NEW s \in Seq(S), NEW i \in 1..Len(s)
  PROVE  /\ RemoveAt(s, i) \in Seq(S)
         /\ Len(RemoveAt(s, i)) = Len(s) - 1
         /\ \A j \in 1..(Len(s) - 1) : RemoveAt(s, i)[j] = IF j < i THEN s[j] ELSE s[j + 1]
<1> DEFINE front == SubSeq(s, 1, i - 1)
           back == SubSeq(s, i + 1, Len(s))
<1>1. Len(s) \in Nat /\ i \in Nat /\ i >= 1 /\ i <= Len(s)
  OBVIOUS
<1>2. /\ front \in Seq(S) /\ Len(front) = i - 1
      /\ \A j \in 1..(i - 1) : front[j] = s[j]
  BY <1>1
<1>3. /\ back \in Seq(S) /\ Len(back) = Len(s) - i
      /\ \A j \in 1..(Len(s) - i) : back[j] = s[i + j]
  BY <1>1
<1> HIDE DEF front, back
<1>4. RemoveAt(s, i) = front \o back
  BY DEF RemoveAt, front, back
<1>5. front \o back \in Seq(S) /\ Len(front \o back) = Len(s) - 1
  <2>1. front \o back \in Seq(S) /\ Len(front \o back) = Len(front) + Len(back)
    BY <1>2, <1>3, ConcatProperties
  <2> QED
    BY <1>1, <1>2, <1>3, <2>1
<1>6. ASSUME NEW j \in 1..(Len(s) - 1)
      PROVE  (front \o back)[j] = IF j < i THEN s[j] ELSE s[j + 1]
  <2>1. CASE j < i
    BY <1>1, <1>2, <1>3, <2>1
  <2>2. CASE ~(j < i)
    <3>1. j - (i - 1) \in 1..(Len(s) - i) /\ i + (j - (i - 1)) = j + 1
      BY <1>1, <2>2
    <3>2. (front \o back)[j] = back[j - (i - 1)]
      BY <1>1, <1>2, <1>3, <2>2
    <3> QED
      BY <1>3, <3>1, <3>2, <2>2
  <2> QED
    BY <2>1, <2>2
<1> QED
  BY <1>4, <1>5, <1>6

(* The index of a listed identity, which is the only one it is found at.   *)
LEMMA Found ==
  ASSUME TypeOK, Aligned, NEW id, Listed(id)
  PROVE  /\ IndexOf(id) \in 1..Len(list) /\ list[IndexOf(id)] = id
         /\ \A i \in 1..Len(list) : list[i] = id => i = IndexOf(id)
<1>1. DOMAIN list = 1..Len(list) /\ Len(list) \in Nat
  BY DEF TypeOK
<1>2. PICK k \in 1..Len(list) : list[k] = id
  BY <1>1 DEF Listed
<1>3. \A i \in 1..Len(list) : list[i] = id => i = k
  BY <1>1, <1>2 DEF Aligned
<1>4. \A j \in 1..(k - 1) : list[j] # id
  BY <1>1, <1>2, <1>3
<1>5. IndexOf(id) = k
  BY <1>1, <1>2, <1>3, <1>4 DEF IndexOf
<1> QED
  BY <1>2, <1>3, <1>5

-----------------------------------------------------------------------------
LEMMA ListInit == Init => ListInv
<1> SUFFICES ASSUME Init PROVE ListInv
  OBVIOUS
<1> USE ListAssumption DEF Init
<1>1. list = <<>> /\ <<>> \in Seq(Identities) /\ Len(list) = 0 /\ DOMAIN list = {}
  OBVIOUS
<1>2. modes \in [1..Capacity -> 0..1]
  BY DEF NoModes
<1>3. Aligned
  BY <1>1 DEF Aligned, NoModes
<1> QED
  <2>1. Len(list) <= Capacity
    BY <1>1
  <2>2. {resolutionEnabled, advertising, connected} \subseteq BOOLEAN /\ reply = Ok
    OBVIOUS
  <2> QED
    BY <1>1, <1>2, <1>3, <2>1, <2>2 DEF ListInv, TypeOK
(* A step that leaves the list and the modes alone.                        *)
LEMMA ListStays ==
  ASSUME ListInv, UNCHANGED <<list, modes>>,
         {resolutionEnabled', advertising', connected'} \subseteq BOOLEAN,
         reply' \in {Ok, UnknownConnection, MemoryFull, Disallowed, InvalidParameters}
  PROVE  ListInv'
BY DEF ListInv, TypeOK, Aligned, Ok, UnknownConnection, MemoryFull, Disallowed, InvalidParameters

LEMMA RefusedStays ==
  ASSUME ListInv, NEW status \in {Ok, UnknownConnection, MemoryFull, Disallowed, InvalidParameters}, Refuse(status)
  PROVE  ListInv'
<1>1. UNCHANGED <<list, modes>> /\ {resolutionEnabled', advertising', connected'} \subseteq BOOLEAN /\ reply' = status
  BY DEF Refuse, ListInv, TypeOK
<1> QED
  BY <1>1, ListStays

LEMMA AddKeeps ==
  ASSUME ListInv, NEW id \in Identities, AddDevice(id)
  PROVE  ListInv'
<1>1. CASE \E s \in {Disallowed, InvalidParameters, MemoryFull} : Refuse(s)
  BY <1>1, RefusedStays
<1>2. CASE /\ ~Listed(id) /\ Len(list) # Capacity
           /\ list' = Append(list, id) /\ reply' = Ok
           /\ UNCHANGED <<modes, resolutionEnabled, advertising, connected>>
  <2>1. /\ list \in Seq(Identities) /\ Len(list) \in Nat /\ Len(list) < Capacity /\ Capacity \in Nat
        /\ DOMAIN list = 1..Len(list)
    BY <1>2, ListAssumption DEF ListInv, TypeOK
  <2>2. /\ list' \in Seq(Identities) /\ Len(list') = Len(list) + 1 /\ DOMAIN list' = 1..(Len(list) + 1)
        /\ list'[Len(list) + 1] = id /\ \A i \in 1..Len(list) : list'[i] = list[i]
    <3>1. /\ Append(list, id) \in Seq(Identities) /\ Len(Append(list, id)) = Len(list) + 1
          /\ Append(list, id)[Len(list) + 1] = id /\ \A i \in 1..Len(list) : Append(list, id)[i] = list[i]
      BY <2>1, AppendProperties
    <3>2. list' = Append(list, id)
      BY <1>2
    <3>3. DOMAIN Append(list, id) = 1..(Len(list) + 1)
      BY <3>1
    <3> QED
      BY <3>1, <3>2, <3>3, Zenon
  <2>3. TypeOK'
    <3>1. Len(list') <= Capacity
      BY <2>1, <2>2
    <3> QED
      BY <1>2, <2>2, <3>1 DEF ListInv, TypeOK
  <2>4. \A i \in 1..Len(list) : list[i] # id
    BY <1>2, <2>1 DEF Listed
  <2>5. \A i, j \in DOMAIN list' : list'[i] = list'[j] => i = j
    <3> SUFFICES ASSUME NEW i \in DOMAIN list', NEW j \in DOMAIN list', list'[i] = list'[j] PROVE i = j
      OBVIOUS
    <3>1. CASE i \in 1..Len(list) /\ j \in 1..Len(list)
      BY <3>1, <2>1, <2>2 DEF ListInv, Aligned
    <3>2. CASE i = Len(list) + 1 \/ j = Len(list) + 1
      BY <3>2, <2>1, <2>2, <2>4
    <3> QED
      BY <3>1, <3>2, <2>1, <2>2
  <2>6. \A slot \in 1..Capacity : slot > Len(list') => modes'[slot] = 0
    <3>1. \A slot \in 1..Capacity : slot > Len(list) => modes[slot] = 0
      BY DEF ListInv, Aligned
    <3>2. Len(list') > Len(list) /\ Len(list') \in Nat
      BY <2>1, <2>2
    <3> QED
      <4>1. \A slot \in 1..Capacity : slot > Len(list') => slot > Len(list)
        BY <2>1, <3>2
      <4>2. modes' = modes
        BY <1>2
      <4> QED
        BY <3>1, <4>1, <4>2
  <2> QED
    BY <2>3, <2>5, <2>6 DEF ListInv, Aligned
<1> QED
  BY <1>1, <1>2 DEF AddDevice

(* What the loop over the modes leaves behind.                             *)
LEMMA Shifted ==
  ASSUME ListInv, NEW index \in 1..Len(list)
  PROVE  /\ ShiftedModes(index) \in [1..Capacity -> 0..1]
         /\ \A slot \in 1..Capacity : slot >= Len(list) => ShiftedModes(index)[slot] = 0
         /\ \A slot \in 1..(Len(list) - 1) :
              ShiftedModes(index)[slot] = IF slot < index THEN modes[slot] ELSE modes[slot + 1]
<1>1. /\ Len(list) \in Nat /\ Capacity \in Nat /\ Len(list) <= Capacity
      /\ modes \in [1..Capacity -> 0..1]
  BY ListAssumption DEF ListInv, TypeOK
<1>2. \A slot \in 1..Capacity : slot > Len(list) => modes[slot] = 0
  BY DEF ListInv, Aligned
<1> QED
  BY <1>1, <1>2 DEF ShiftedModes

LEMMA RemoveKeeps ==
  ASSUME ListInv, NEW id \in Identities, RemoveDevice(id)
  PROVE  ListInv'
<1>1. CASE \E s \in {Disallowed, UnknownConnection} : Refuse(s)
  BY <1>1, RefusedStays
<1>2. CASE /\ Listed(id)
           /\ modes' = ShiftedModes(IndexOf(id)) /\ list' = RemoveAt(list, IndexOf(id)) /\ reply' = Ok
           /\ UNCHANGED <<resolutionEnabled, advertising, connected>>
  <2>1. /\ list \in Seq(Identities) /\ Len(list) \in Nat /\ Capacity \in Nat /\ Len(list) <= Capacity
        /\ DOMAIN list = 1..Len(list)
    BY ListAssumption DEF ListInv, TypeOK
  <2>2. IndexOf(id) \in 1..Len(list)
    BY <1>2, Found DEF ListInv
  <2>3. /\ list' \in Seq(Identities) /\ Len(list') = Len(list) - 1
        /\ \A j \in 1..(Len(list) - 1) : list'[j] = IF j < IndexOf(id) THEN list[j] ELSE list[j + 1]
    BY <1>2, <2>1, <2>2, Removed
  <2>4. DOMAIN list' = 1..(Len(list) - 1)
    BY <2>1, <2>3
  <2>5. /\ modes' \in [1..Capacity -> 0..1]
        /\ \A slot \in 1..Capacity : slot >= Len(list) => modes'[slot] = 0
    BY <1>2, <2>2, Shifted
  <2>6. TypeOK'
    BY <1>2, <2>1, <2>3, <2>5 DEF ListInv, TypeOK, Ok
  <2>7. \A i, j \in DOMAIN list' : list'[i] = list'[j] => i = j
    <3> SUFFICES ASSUME NEW i \in 1..(Len(list) - 1), NEW j \in 1..(Len(list) - 1), list'[i] = list'[j]
                 PROVE  i = j
      BY <2>4
    <3> DEFINE before(k) == IF k < IndexOf(id) THEN k ELSE k + 1
    <3>1. before(i) \in 1..Len(list) /\ before(j) \in 1..Len(list)
      BY <2>1, <2>2
    <3>2. list'[i] = list[before(i)] /\ list'[j] = list[before(j)]
      BY <2>3
    <3>3. before(i) = before(j)
      BY <3>1, <3>2, <2>1 DEF ListInv, Aligned
    <3> QED
      BY <3>3, <2>1, <2>2
  <2>8. \A slot \in 1..Capacity : slot > Len(list') => modes'[slot] = 0
    BY <2>1, <2>3, <2>5
  <2> QED
    BY <2>6, <2>7, <2>8 DEF ListInv, Aligned
<1> QED
  BY <1>1, <1>2 DEF RemoveDevice

(* The list is emptied.                                                    *)
LEMMA EmptyKeeps ==
  ASSUME list' = <<>>, modes' = NoModes, reply' = Ok,
         {resolutionEnabled', advertising', connected'} \subseteq BOOLEAN
  PROVE  ListInv'
<1> USE ListAssumption
<1>1. list' \in Seq(Identities) /\ Len(list') = 0 /\ DOMAIN list' = {}
  OBVIOUS
<1>2. modes' \in [1..Capacity -> 0..1] /\ \A slot \in 1..Capacity : modes'[slot] = 0
  BY DEF NoModes
<1>3. TypeOK'
  BY <1>1, <1>2 DEF TypeOK, Ok
<1>4. Aligned'
  BY <1>1, <1>2 DEF Aligned
<1> QED
  BY <1>3, <1>4 DEF ListInv

LEMMA SetModeKeeps ==
  ASSUME ListInv, NEW id \in Identities, NEW mode \in 0..1, SetPrivacyMode(id, mode)
  PROVE  ListInv'
<1>1. CASE Refuse(UnknownConnection)
  BY <1>1, RefusedStays
<1>2. CASE /\ Listed(id) /\ modes' = [modes EXCEPT ![IndexOf(id)] = mode] /\ reply' = Ok
           /\ UNCHANGED <<list, resolutionEnabled, advertising, connected>>
  <2>1. IndexOf(id) \in 1..Len(list) /\ Len(list) \in Nat /\ Len(list) <= Capacity
    BY <1>2, Found DEF ListInv, TypeOK
  <2>2. TypeOK'
    BY <1>2, <2>1, ListAssumption DEF ListInv, TypeOK, Ok
  <2>3. \A slot \in 1..Capacity : slot > Len(list) => modes'[slot] = 0
    BY <1>2, <2>1, ListAssumption DEF ListInv, TypeOK, Aligned
  <2> QED
    BY <1>2, <2>2, <2>3 DEF ListInv, Aligned
<1> QED
  BY <1>1, <1>2 DEF SetPrivacyMode

LEMMA ListStep == ListInv /\ [Next]_vars => ListInv'
<1> SUFFICES ASSUME ListInv, [Next]_vars PROVE ListInv'
  OBVIOUS
<1>0. {resolutionEnabled, advertising, connected} \subseteq BOOLEAN
      /\ reply \in {Ok, UnknownConnection, MemoryFull, Disallowed, InvalidParameters}
  BY DEF ListInv, TypeOK
<1>1. ASSUME NEW id \in Identities, AddDevice(id) PROVE ListInv'
  BY <1>1, AddKeeps
<1>2. ASSUME NEW id \in Identities, RemoveDevice(id) PROVE ListInv'
  BY <1>2, RemoveKeeps
<1>3. ASSUME NEW id \in Identities, NEW mode \in 0..1, SetPrivacyMode(id, mode) PROVE ListInv'
  BY <1>3, SetModeKeeps
<1>4. ASSUME NEW on \in BOOLEAN, SetResolution(on) PROVE ListInv'
  <2>1. CASE Refuse(Disallowed)
    BY <2>1, RefusedStays
  <2>2. CASE resolutionEnabled' = on /\ reply' = Ok /\ UNCHANGED <<list, modes, advertising, connected>>
    BY <1>0, <2>2, ListStays
  <2> QED
    BY <1>4, <2>1, <2>2 DEF SetResolution
<1>5. ASSUME NEW on \in BOOLEAN, SetAdvertising(on) PROVE ListInv'
  <2>1. CASE Refuse(Disallowed)
    BY <2>1, RefusedStays
  <2>2. CASE advertising' = on /\ reply' = Ok /\ UNCHANGED <<list, modes, resolutionEnabled, connected>>
    BY <1>0, <2>2, ListStays
  <2>3. CASE Refuse(InvalidParameters)
    BY <2>3, RefusedStays
  <2> QED
    BY <1>5, <2>1, <2>2, <2>3 DEF SetAdvertising
<1>6. CASE ClearList
  <2>1. CASE Refuse(Disallowed)
    BY <2>1, RefusedStays
  <2>2. CASE /\ list' = <<>> /\ modes' = NoModes /\ reply' = Ok
             /\ UNCHANGED <<resolutionEnabled, advertising, connected>>
    BY <1>0, <2>2, EmptyKeeps
  <2> QED
    BY <1>6, <2>1, <2>2 DEF ClearList
<1>7. CASE Connect
  BY <1>0, <1>7, ListStays DEF Connect
<1>8. CASE Disconnect
  BY <1>0, <1>8, ListStays DEF Disconnect
<1>9. CASE resetHci
  BY <1>9, EmptyKeeps DEF resetHci
<1>10. CASE UNCHANGED vars
  BY <1>0, <1>10, ListStays DEF vars
<1> QED
  BY <1>1, <1>2, <1>3, <1>4, <1>5, <1>6, <1>7, <1>8, <1>9, <1>10 DEF Next

(* The vector never outgrows the array beside it, whatever the capacity;   *)
(* identities are listed once and unused slots hold no mode, so that the   *)
(* next identity added there starts from mode 0.                           *)
THEOREM ListCorrect == Spec => []ListSafety
<1>1. ListInv => ListSafety
  BY DEF ListInv, ListSafety
<1> QED
  BY ListInit, ListStep, <1>1, PTL DEF Spec

-----------------------------------------------------------------------------
(* The map the two arrays stand for: its identities, its modes, its size.  *)
MapFacts ==
  /\ DOMAIN PrivacyOf = {list[i] : i \in 1..Len(list)}
  /\ \A i \in 1..Len(list) : list[i] \in DOMAIN PrivacyOf /\ PrivacyOf[list[i]] = modes[i]
  /\ \A id : Listed(id) <=> id \in DOMAIN PrivacyOf
  /\ Cardinality(DOMAIN PrivacyOf) = Len(list)
  /\ PrivacyOf = [id \in DOMAIN PrivacyOf |-> PrivacyOf[id]]

LEMMA MapOfLists == ListInv => MapFacts
<1> SUFFICES ASSUME ListInv PROVE MapFacts
  OBVIOUS
<1> DEFINE names == {list[i] : i \in 1..Len(list)}
<1>1. DOMAIN list = 1..Len(list) /\ Len(list) \in Nat
  BY DEF ListInv, TypeOK
<1>2. DOMAIN PrivacyOf = names
  BY <1>1 DEF PrivacyOf
<1>3. ASSUME NEW i \in 1..Len(list)
      PROVE  list[i] \in DOMAIN PrivacyOf /\ PrivacyOf[list[i]] = modes[i]
  <2>1. Listed(list[i])
    BY <1>1 DEF Listed
  <2>2. IndexOf(list[i]) = i
    BY <2>1, Found DEF ListInv
  <2> QED
    BY <1>1, <2>2 DEF PrivacyOf
<1>4. \A id : Listed(id) <=> id \in DOMAIN PrivacyOf
  BY <1>1, <1>2 DEF Listed
<1>5. Cardinality(names) = Len(list)
  <2> DEFINE f == [i \in 1..Len(list) |-> list[i]]
  <2>1. f \in [1..Len(list) -> names]
    OBVIOUS
  <2>2. \A i, j \in 1..Len(list) : f[i] = f[j] => i = j
    BY <1>1 DEF ListInv, Aligned
  <2>3. \A n \in names : \E i \in 1..Len(list) : f[i] = n
    OBVIOUS
  <2>4. f \in Bijection(1..Len(list), names)
    BY <2>1, <2>2, <2>3 DEF Bijection, Injection, Surjection, IsInjective
  <2>5. ExistsBijection(1..Len(list), names)
    BY <2>4 DEF ExistsBijection
  <2> QED
    BY <1>1, <2>5, FS_CountingElements
<1> QED
  BY <1>2, <1>3, <1>4, <1>5 DEF MapFacts, PrivacyOf

(* A step that leaves the list and the modes alone leaves the map alone.   *)
LEMMA MapStays == ASSUME UNCHANGED <<list, modes>> PROVE PrivacyOf' = PrivacyOf
BY DEF PrivacyOf, IndexOf

(* An empty list stands for the empty map.                                 *)
LEMMA MapEmpty == list = <<>> => PrivacyOf = Map!NoIdentity
BY DEF PrivacyOf, Map!NoIdentity

(* A refused command is one of the map's refusals.                         *)
LEMMA RefusedMap ==
  ASSUME NEW status, Refuse(status)
  PROVE  PrivacyOf' = PrivacyOf /\ InUse' = InUse /\ reply' = status
BY MapStays DEF Refuse, InUse

(* The instance of PrivacyMap counts as this module does.                  *)
LEMMA SameCardinality == \A S : Map!Cardinality(S) = Cardinality(S)
BY DEF Map!Cardinality, Cardinality, Map!IsFiniteSet, IsFiniteSet

LEMMA AddMaps ==
  ASSUME ListInv, ListInv', MapFacts, MapFacts', NEW id \in Identities, AddDevice(id)
  PROVE  Map!Add(id)
<1>1. CASE InUse /\ Refuse(Disallowed)
  BY <1>1, RefusedMap DEF Map!Add, Map!Answer, Map!Disallowed, Disallowed
<1>2. CASE ~InUse /\ Listed(id) /\ Refuse(InvalidParameters)
  BY <1>2, RefusedMap DEF Map!Add, Map!Answer, Map!Listed, Map!InvalidParameters, InvalidParameters, MapFacts
<1>3. CASE ~InUse /\ ~Listed(id) /\ Len(list) = Capacity /\ Refuse(MemoryFull)
  <2>1. Map!Cardinality(DOMAIN PrivacyOf) = Capacity /\ ~Map!Listed(id)
    BY <1>3, SameCardinality DEF MapFacts, Map!Listed
  <2> QED
    BY <1>3, <2>1, RefusedMap DEF Map!Add, Map!Answer, Map!MemoryFull, MemoryFull
<1>4. CASE /\ ~InUse /\ ~Listed(id) /\ Len(list) # Capacity
           /\ list' = Append(list, id) /\ reply' = Ok
           /\ UNCHANGED <<modes, resolutionEnabled, advertising, connected>>
  <2>1. /\ list \in Seq(Identities) /\ Len(list) \in Nat /\ Len(list) < Capacity /\ Capacity \in Nat
    BY <1>4, ListAssumption DEF ListInv, TypeOK
  <2>2. /\ Len(list') = Len(list) + 1 /\ list'[Len(list) + 1] = id
        /\ \A i \in 1..Len(list) : list'[i] = list[i]
    <3>1. /\ Len(Append(list, id)) = Len(list) + 1 /\ Append(list, id)[Len(list) + 1] = id
          /\ \A i \in 1..Len(list) : Append(list, id)[i] = list[i]
      BY <2>1, AppendProperties
    <3> QED
      BY <1>4, <3>1, Zenon
  <2>3. modes[Len(list) + 1] = 0
    BY <2>1 DEF ListInv, Aligned
  <2>4. DOMAIN PrivacyOf' = DOMAIN PrivacyOf \cup {id}
    <3>1. DOMAIN PrivacyOf' = {list'[i] : i \in 1..(Len(list) + 1)}
      BY <2>2 DEF MapFacts
    <3>2. DOMAIN PrivacyOf = {list[i] : i \in 1..Len(list)}
      BY DEF MapFacts
    <3> QED
      BY <2>1, <2>2, <3>1, <3>2
  <2>5. \A i \in 1..(Len(list) + 1) : PrivacyOf'[list'[i]] = modes[i]
    BY <1>4, <2>2 DEF MapFacts
  <2>6. PrivacyOf'[id] = 0
    BY <2>1, <2>2, <2>3, <2>5
  <2>7. ASSUME NEW other \in DOMAIN PrivacyOf PROVE PrivacyOf'[other] = PrivacyOf[other] /\ other # id
    <3>0. DOMAIN PrivacyOf = {list[i] : i \in 1..Len(list)}
      BY DEF MapFacts
    <3>1. PICK i \in 1..Len(list) : other = list[i]
      BY <3>0
    <3>2. PrivacyOf[list[i]] = modes[i]
      BY DEF MapFacts
    <3>3. PrivacyOf'[list'[i]] = modes[i] /\ list'[i] = list[i]
      BY <2>1, <2>2, <2>5
    <3>4. other # id
      BY <1>4, <3>1 DEF MapFacts
    <3> QED
      BY <3>1, <3>2, <3>3, <3>4
  <2>8. PrivacyOf' = [i \in DOMAIN PrivacyOf \cup {id} |-> IF i = id THEN 0 ELSE PrivacyOf[i]]
    <3>1. PrivacyOf' = [i \in DOMAIN PrivacyOf' |-> PrivacyOf'[i]]
      BY DEF MapFacts
    <3>2. \A i \in DOMAIN PrivacyOf' : PrivacyOf'[i] = IF i = id THEN 0 ELSE PrivacyOf[i]
      BY <2>4, <2>6, <2>7
    <3> QED
      BY <2>4, <3>1, <3>2
  <2>9. InUse' = InUse /\ Map!Cardinality(DOMAIN PrivacyOf) < Capacity /\ ~Map!Listed(id)
    BY <1>4, <2>1, SameCardinality DEF InUse, MapFacts, Map!Listed
  <2> QED
    BY <1>4, <2>8, <2>9 DEF Map!Add, Map!Answer, Map!Ok, Ok
<1> QED
  BY <1>1, <1>2, <1>3, <1>4 DEF AddDevice

LEMMA RemoveMaps ==
  ASSUME ListInv, ListInv', MapFacts, MapFacts', NEW id \in Identities, RemoveDevice(id)
  PROVE  Map!Remove(id)
<1>1. CASE InUse /\ Refuse(Disallowed)
  BY <1>1, RefusedMap DEF Map!Remove, Map!Answer, Map!Disallowed, Disallowed
<1>2. CASE ~InUse /\ ~Listed(id) /\ Refuse(UnknownConnection)
  BY <1>2, RefusedMap DEF Map!Remove, Map!Answer, Map!Listed, Map!UnknownConnection, UnknownConnection, MapFacts
<1>3. CASE /\ ~InUse /\ Listed(id)
           /\ modes' = ShiftedModes(IndexOf(id)) /\ list' = RemoveAt(list, IndexOf(id)) /\ reply' = Ok
           /\ UNCHANGED <<resolutionEnabled, advertising, connected>>
  <2> DEFINE k == IndexOf(id)
             before(j) == IF j < k THEN j ELSE j + 1
  <2>1. list \in Seq(Identities) /\ Len(list) \in Nat
    BY DEF ListInv, TypeOK
  <2>2. k \in 1..Len(list) /\ list[k] = id /\ \A i \in 1..Len(list) : list[i] = id => i = k
    BY <1>3, Found DEF ListInv
  <2>3. /\ Len(list') = Len(list) - 1
        /\ \A j \in 1..(Len(list) - 1) : list'[j] = list[before(j)]
    <3>1. /\ Len(RemoveAt(list, k)) = Len(list) - 1
          /\ \A j \in 1..(Len(list) - 1) : RemoveAt(list, k)[j] = IF j < k THEN list[j] ELSE list[j + 1]
      BY <2>1, <2>2, Removed
    <3> QED
      BY <1>3, <3>1
  <2>4. \A j \in 1..(Len(list) - 1) : modes'[j] = modes[before(j)]
    BY <1>3, <2>2, Shifted
  <2> HIDE DEF k
  <2>5. \A j \in 1..(Len(list) - 1) : before(j) \in 1..Len(list) /\ before(j) # k
    BY <2>1, <2>2
  <2>6. \A i \in 1..Len(list) : i # k => \E j \in 1..(Len(list) - 1) : before(j) = i
    <3> SUFFICES ASSUME NEW i \in 1..Len(list), i # k
                 PROVE  \E j \in 1..(Len(list) - 1) : before(j) = i
      OBVIOUS
    <3>1. CASE i < k
      <4>1. i \in 1..(Len(list) - 1) /\ before(i) = i
        BY <3>1, <2>1, <2>2
      <4> QED
        BY <4>1
    <3>2. CASE i > k
      <4>1. i - 1 \in 1..(Len(list) - 1) /\ before(i - 1) = i
        BY <3>2, <2>1, <2>2
      <4> QED
        BY <4>1
    <3> QED
      BY <3>1, <3>2, <2>2
  <2> HIDE DEF before
  <2>7. DOMAIN PrivacyOf' = DOMAIN PrivacyOf \ {id}
    <3>1. DOMAIN PrivacyOf' = {list'[j] : j \in 1..(Len(list) - 1)}
      BY <2>3 DEF MapFacts
    <3>2. DOMAIN PrivacyOf = {list[i] : i \in 1..Len(list)}
      BY DEF MapFacts
    <3>3. ASSUME NEW j \in 1..(Len(list) - 1) PROVE list'[j] \in DOMAIN PrivacyOf \ {id}
      BY <2>2, <2>3, <2>5, <3>2
    <3>4. ASSUME NEW i \in 1..Len(list), list[i] # id PROVE list[i] \in DOMAIN PrivacyOf'
      <4>1. PICK j \in 1..(Len(list) - 1) : before(j) = i
        BY <2>2, <2>6, <3>4
      <4> QED
        BY <2>3, <3>1, <4>1
    <3> QED
      BY <3>1, <3>2, <3>3, <3>4
  <2>8. ASSUME NEW other \in DOMAIN PrivacyOf' PROVE PrivacyOf'[other] = PrivacyOf[other]
    <3>0. DOMAIN PrivacyOf' = {list'[j] : j \in 1..(Len(list) - 1)}
      BY <2>3 DEF MapFacts
    <3>1. PICK j \in 1..(Len(list) - 1) : other = list'[j]
      BY <3>0
    <3>2. PrivacyOf'[list'[j]] = modes'[j]
      BY <2>3 DEF MapFacts
    <3>3. PrivacyOf[list[before(j)]] = modes[before(j)]
      BY <2>5 DEF MapFacts
    <3> QED
      BY <2>3, <2>4, <3>1, <3>2, <3>3
  <2>9. PrivacyOf' = [i \in DOMAIN PrivacyOf \ {id} |-> PrivacyOf[i]]
    <3>1. PrivacyOf' = [i \in DOMAIN PrivacyOf' |-> PrivacyOf'[i]]
      BY DEF MapFacts
    <3> QED
      BY <2>7, <2>8, <3>1
  <2>10. InUse' = InUse /\ Map!Listed(id)
    BY <1>3 DEF InUse, MapFacts, Map!Listed
  <2> QED
    BY <1>3, <2>9, <2>10 DEF Map!Remove, Map!Answer, Map!Ok, Ok, Map!Restrict
<1> QED
  BY <1>1, <1>2, <1>3 DEF RemoveDevice

LEMMA SetModeMaps ==
  ASSUME ListInv, ListInv', MapFacts, MapFacts', NEW id \in Identities, NEW mode \in 0..1, SetPrivacyMode(id, mode)
  PROVE  Map!SetMode(id, mode)
<1>1. CASE ~Listed(id) /\ Refuse(UnknownConnection)
  BY <1>1, RefusedMap DEF Map!SetMode, Map!Answer, Map!Listed, Map!UnknownConnection, UnknownConnection, MapFacts
<1>2. CASE /\ Listed(id) /\ modes' = [modes EXCEPT ![IndexOf(id)] = mode] /\ reply' = Ok
           /\ UNCHANGED <<list, resolutionEnabled, advertising, connected>>
  <2> DEFINE k == IndexOf(id)
  <2>1. k \in 1..Len(list) /\ list[k] = id /\ \A i \in 1..Len(list) : list[i] = id => i = k
    BY <1>2, Found DEF ListInv
  <2>2. /\ modes \in [1..Capacity -> 0..1] /\ Len(list) \in Nat /\ Len(list) <= Capacity /\ Capacity \in Nat
    BY ListAssumption DEF ListInv, TypeOK
  <2>3. modes'[k] = mode /\ \A i \in 1..Len(list) : i # k => modes'[i] = modes[i]
    BY <1>2, <2>1, <2>2
  <2>4. DOMAIN PrivacyOf' = DOMAIN PrivacyOf
    <3>1. /\ DOMAIN PrivacyOf = {list[i] : i \in 1..Len(list)}
          /\ DOMAIN PrivacyOf' = {list'[i] : i \in 1..Len(list')}
      BY DEF MapFacts
    <3> QED
      BY <1>2, <3>1
  <2>5. ASSUME NEW other \in DOMAIN PrivacyOf
        PROVE  PrivacyOf'[other] = IF other = id THEN mode ELSE PrivacyOf[other]
    <3>0. DOMAIN PrivacyOf = {list[i] : i \in 1..Len(list)}
      BY DEF MapFacts
    <3>1. PICK i \in 1..Len(list) : other = list[i]
      BY <3>0
    <3>2. PrivacyOf'[list[i]] = modes'[i] /\ PrivacyOf[list[i]] = modes[i]
      BY <1>2 DEF MapFacts
    <3> QED
      BY <2>1, <2>3, <3>1, <3>2
  <2>6. PrivacyOf' = [PrivacyOf EXCEPT ![id] = mode]
    <3>1. PrivacyOf' = [i \in DOMAIN PrivacyOf' |-> PrivacyOf'[i]]
      BY DEF MapFacts
    <3> QED
      BY <2>4, <2>5, <3>1
  <2>7. InUse' = InUse /\ Map!Listed(id)
    BY <1>2 DEF InUse, MapFacts, Map!Listed
  <2> QED
    BY <1>2, <2>6, <2>7 DEF Map!SetMode, Map!Answer, Map!Ok, Ok
<1> QED
  BY <1>1, <1>2 DEF SetPrivacyMode

(* Every step of the list is a step of the map, or none.                   *)
LEMMA MapStep ==
  ASSUME ListInv, ListInv', MapFacts, MapFacts', [Next]_vars
  PROVE  [Map!Next]_(Map!vars)
<1>0. InUse' \in BOOLEAN
  BY DEF ListInv, TypeOK, InUse
<1>1. ASSUME NEW id \in Identities, AddDevice(id) PROVE Map!Next
  BY <1>1, AddMaps DEF Map!Next
<1>2. ASSUME NEW id \in Identities, RemoveDevice(id) PROVE Map!Next
  BY <1>2, RemoveMaps DEF Map!Next
<1>3. ASSUME NEW id \in Identities, NEW mode \in 0..1, SetPrivacyMode(id, mode) PROVE Map!Next
  BY <1>3, SetModeMaps DEF Map!Next
<1>4. ASSUME UNCHANGED <<list, modes>>, reply' \in {Ok, Disallowed, InvalidParameters, reply} PROVE Map!Next
  <2>1. Map!Switch
    BY <1>0, <1>4, MapStays DEF Map!Switch, Map!Ok, Ok, Map!Disallowed, Disallowed,
         Map!InvalidParameters, InvalidParameters
  <2> QED
    BY <2>1 DEF Map!Next
<1>5. ASSUME NEW on \in BOOLEAN, SetResolution(on) \/ SetAdvertising(on) PROVE Map!Next
  BY <1>4, <1>5 DEF SetResolution, SetAdvertising, Refuse
<1>6. CASE Connect \/ Disconnect
  BY <1>4, <1>6 DEF Connect, Disconnect
<1>7. ASSUME list' = <<>> PROVE PrivacyOf' = Map!NoIdentity
  <2>1. (list = <<>> => PrivacyOf = Map!NoIdentity)'
    BY MapEmpty, PTL
  <2> QED
    BY <1>7, <2>1
<1>8. CASE ClearList
  <2>1. CASE InUse /\ Refuse(Disallowed)
    BY <2>1, RefusedMap DEF Map!Next, Map!Clear, Map!Answer, Map!Disallowed, Disallowed
  <2>2. CASE /\ ~InUse /\ list' = <<>> /\ reply' = Ok
             /\ UNCHANGED <<resolutionEnabled, advertising, connected>>
    <3>1. InUse' = InUse
      BY <2>2 DEF InUse
    <3> QED
      BY <1>7, <2>2, <3>1 DEF Map!Next, Map!Clear, Map!Answer, Map!Ok, Ok
  <2> QED
    BY <1>8, <2>1, <2>2 DEF ClearList
<1>9. CASE resetHci
  BY <1>7, <1>9 DEF resetHci, InUse, Map!Next, Map!Reset, Map!Ok, Ok
<1>10. CASE UNCHANGED vars
  <2>1. UNCHANGED <<list, modes>> /\ InUse' = InUse /\ reply' = reply
    BY <1>10 DEF vars, InUse
  <2> QED
    BY <2>1, MapStays DEF Map!vars
<1> QED
  BY <1>1, <1>2, <1>3, <1>5, <1>6, <1>8, <1>9, <1>10 DEF Next

(* The vector and the array beside it implement the map from identity to   *)
(* privacy mode, with the replies the map gives: in particular no removal  *)
(* hands the mode of one identity to another.                              *)
THEOREM MapRefinement == Spec => ImplementsMap
<1>1. Init => Map!Init
  <2> SUFFICES ASSUME Init PROVE Map!Init
    OBVIOUS
  <2>1. PrivacyOf = Map!NoIdentity
    BY MapEmpty DEF Init
  <2> QED
    BY <2>1 DEF Init, InUse, Map!Init, Map!Ok, Ok
<1>2. ListInv /\ ListInv' /\ MapFacts /\ MapFacts' /\ [Next]_vars => [Map!Next]_(Map!vars)
  BY MapStep
<1> QED
  BY ListInit, ListStep, MapOfLists, <1>1, <1>2, PTL DEF Spec, ImplementsMap, Map!Spec

=============================================================================
