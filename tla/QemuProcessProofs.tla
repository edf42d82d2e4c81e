-------------------------- MODULE QemuProcessProofs --------------------------
(***************************************************************************)
(* The emulator's child processes, for any number of children, any polls   *)
(* of the termination ladder and any output.                               *)
(***************************************************************************)
EXTENDS QemuProcess, SequenceTheorems, WellFoundedInduction, TLAPS

States == {"none", "running", "terminating", "zombie", "reaped"}

ProcessTypes ==
  /\ pid \in 0..MaxChildren /\ child \in [Children -> States]
  /\ pc \in {"idle", "failed", "stop", "poll", "wait", "close"}

\* stop() polls and waits for a child; it has none when it closes descriptors.
ChildOfStop == /\ pc \in {"poll", "wait"} => pid # 0
               /\ pc \in {"failed", "stop", "close"} => pid = 0

ProcessInv == ProcessTypes /\ SignalsOwnChild /\ NoStrayChild /\ DescriptorsClosed /\ ChildOfStop

-----------------------------------------------------------------------------
LEMMA PidChild == ASSUME ProcessTypes, pid # 0 PROVE pid \in Children
  BY ProcessAssumption DEF ProcessTypes, Children

(* The child in _pid has been waited for and forgotten at once.            *)
LEMMA Waited ==
  ASSUME ProcessInv, pid # 0, Reap(pid), pid' = 0, pc' \in {"stop", "close"}
  PROVE  ProcessInv'
<1>1. pid \in Children
  BY PidChild DEF ProcessInv
<1>2. child' = [child EXCEPT ![pid] = "reaped"]
  BY DEF Reap
<1>3. ProcessTypes'
  BY <1>1, <1>2, ProcessAssumption DEF ProcessInv, ProcessTypes, States
<1>4. NoStrayChild'
  BY <1>1, <1>2 DEF ProcessInv, ProcessTypes, NoStrayChild
<1> QED
  BY <1>3, <1>4 DEF ProcessInv, SignalsOwnChild, DescriptorsClosed, ChildOfStop

(* A signal, or an exit, changes the state of the child and no more.       *)
LEMMA Signals ==
  ASSUME ProcessInv, NEW sig, child' = Signalled(sig), pid' = pid
  PROVE  child' \in [Children -> States] /\ SignalsOwnChild' /\ NoStrayChild'
<1>1. CASE child' = child
  BY <1>1 DEF ProcessInv, ProcessTypes, SignalsOwnChild, NoStrayChild
<1>2. ASSUME NEW state \in {"zombie", "terminating"}, pid # 0, child' = [child EXCEPT ![pid] = state]
      PROVE  child' \in [Children -> States] /\ SignalsOwnChild' /\ NoStrayChild'
  <2>1. pid \in Children
    BY <1>2, PidChild DEF ProcessInv
  <2>2. child' \in [Children -> States] /\ child'[pid] = state /\ \A c \in Children \ {pid} : child'[c] = child[c]
    BY <1>2, <2>1 DEF ProcessInv, ProcessTypes, States
  <2> QED
    BY <1>2, <2>1, <2>2 DEF ProcessInv, SignalsOwnChild, NoStrayChild
<1> QED
  BY <1>1, <1>2 DEF Signalled

LEMMA ProcessInit == Init => ProcessInv
  BY ProcessAssumption DEF Init, ProcessInv, ProcessTypes, States, Children, SignalsOwnChild, NoStrayChild,
                           DescriptorsClosed, ChildOfStop

LEMMA ProcessKept ==
  ASSUME ProcessInv, UNCHANGED <<pid, child, fds, pc>>
  PROVE  ProcessInv'
  BY DEF ProcessInv, ProcessTypes, SignalsOwnChild, NoStrayChild, DescriptorsClosed, ChildOfStop

LEMMA ProcessStep == ProcessInv /\ [Next]_vars => ProcessInv'
<1> SUFFICES ASSUME ProcessInv, [Next]_vars PROVE ProcessInv'
  OBVIOUS
<1>1. CASE Start
  <2>1. PICK c \in Children : child[c] = "none" /\ child' = [child EXCEPT ![c] = "running"] /\ pid' = c
    BY <1>1 DEF Start
  <2>2. c \in 1..MaxChildren /\ c # 0
    BY ProcessAssumption DEF Children
  <2>3. pc = "idle" /\ pc' = "idle" /\ pid = 0
    BY <1>1 DEF Start
  <2>4. ProcessTypes'
    BY <2>1, <2>2, <2>3, ProcessAssumption DEF ProcessInv, ProcessTypes, States
  <2>5. child'[c] = "running" /\ \A d \in Children \ {c} : child'[d] = child[d]
    BY <2>1 DEF ProcessInv, ProcessTypes
  <2>6. NoStrayChild' /\ SignalsOwnChild'
    BY <2>1, <2>2, <2>3, <2>5 DEF ProcessInv, NoStrayChild, SignalsOwnChild, Children
  <2> QED
    BY <2>1, <2>2, <2>3, <2>4, <2>6 DEF ProcessInv, DescriptorsClosed, ChildOfStop
<1>2. ASSUME NEW opened, StartFails(opened) PROVE ProcessInv'
  BY <1>2 DEF StartFails, ProcessInv, ProcessTypes, SignalsOwnChild, NoStrayChild, DescriptorsClosed, ChildOfStop
<1>3. CASE Exited
  <2>1. CASE pid # 0 /\ child[pid] = "zombie"
    BY <1>3, <2>1, Waited DEF Exited
  <2>2. CASE ~(pid # 0 /\ child[pid] = "zombie")
    BY <1>3, <2>2, ProcessKept DEF Exited
  <2> QED
    BY <2>1, <2>2
<1>4. CASE StopBegins
  <2>1. child' = Signalled("TERM") /\ pid' = pid /\ pc' = IF pid # 0 THEN "poll" ELSE "close"
    BY <1>4 DEF StopBegins
  <2>2. child' \in [Children -> States] /\ SignalsOwnChild' /\ NoStrayChild'
    BY <2>1, Signals
  <2> QED
    BY <2>1, <2>2 DEF ProcessInv, ProcessTypes, DescriptorsClosed, ChildOfStop
<1>5. CASE StopPolls
  <2>1. pc = "poll" /\ pid # 0
    BY <1>5 DEF StopPolls, ProcessInv, ChildOfStop
  <2>2. CASE child[pid] = "zombie"
    BY <1>5, <2>1, <2>2, Waited DEF StopPolls
  <2>3. CASE child[pid] # "zombie"
    BY <1>5, <2>3, ProcessKept DEF StopPolls
  <2> QED
    BY <2>2, <2>3
<1>6. CASE StopKills
  <2>1. child' = Signalled("KILL") /\ pid' = pid /\ pc = "poll" /\ pc' = "wait"
    BY <1>6 DEF StopKills
  <2>2. child' \in [Children -> States] /\ SignalsOwnChild' /\ NoStrayChild'
    BY <2>1, Signals
  <2> QED
    BY <2>1, <2>2 DEF ProcessInv, ProcessTypes, DescriptorsClosed, ChildOfStop
<1>7. CASE StopReaps
  <2>1. pc = "wait" /\ pid # 0
    BY <1>7 DEF StopReaps, ProcessInv, ChildOfStop
  <2> QED
    BY <1>7, <2>1, Waited DEF StopReaps
<1>8. CASE StopCloses
  BY <1>8 DEF StopCloses, ProcessInv, ProcessTypes, SignalsOwnChild, NoStrayChild, DescriptorsClosed, ChildOfStop
<1>9. ASSUME NEW ch, ChildWrites(ch) PROVE ProcessInv'
  BY <1>9, ProcessKept DEF ChildWrites, process
<1>10. ASSUME NEW c \in Children, ChildExits(c) PROVE ProcessInv'
  <2>1. Alive(c) /\ child' = [child EXCEPT ![c] = "zombie"] /\ UNCHANGED <<pid, fds, pc>>
    BY <1>10 DEF ChildExits
  <2>2. c = pid
    BY <2>1 DEF ProcessInv, NoStrayChild, Alive
  <2>3. child' \in [Children -> States] /\ child'[c] = "zombie" /\ \A d \in Children \ {c} : child'[d] = child[d]
    BY <2>1 DEF ProcessInv, ProcessTypes, States
  <2> QED
    BY <2>1, <2>2, <2>3 DEF ProcessInv, ProcessTypes, SignalsOwnChild, NoStrayChild, DescriptorsClosed, ChildOfStop
<1>11. CASE UNCHANGED vars
  BY <1>11, ProcessKept DEF vars
<1> QED
  BY <1>1, <1>2, <1>3, <1>4, <1>5, <1>6, <1>7, <1>8, <1>9, <1>10, <1>11 DEF Next

(* A signal never reaches a process that was waited for, no child is left  *)
(* behind, and a start never finds descriptors of the run before:          *)
(* exited() and stop() forget a child when they wait for it, and every way *)
(* out of a start, one that throws included, goes through stop().          *)
THEOREM ChildrenCorrect == Spec => []ChildSafety
<1>1. ProcessInv => ChildSafety
  BY DEF ProcessInv, ChildSafety
<1> QED
  BY ProcessInit, ProcessStep, <1>1, PTL DEF Spec

-----------------------------------------------------------------------------
(* Induction over the naturals, from their well-foundedness.                *)
LEMMA Induction ==
  ASSUME NEW S, 0 \in S, \A n \in Nat : n \in S => n + 1 \in S
  PROVE  Nat \subseteq S
<1> DEFINE R == {p \in Nat \X Nat : p[1] < p[2]}
           T == Nat \ S
<1>1. IsWellFoundedOn(R, Nat)
  BY NatLessThanWellFounded DEF OpToRel
<1>2. \A x, y \in Nat : <<y, x>> \notin R => x <= y
  BY DEF R
<1> HIDE DEF R
<1>3. ASSUME T # {} PROVE FALSE
  <2>1. PICK x \in T : \A y \in T : <<y, x>> \notin R
    BY <1>1, <1>3, WFMin
  <2>2. x \in Nat /\ x # 0 /\ x - 1 \in Nat /\ x \notin S
    OBVIOUS
  <2>3. x - 1 \in T
    BY <2>2
  <2>4. <<x - 1, x>> \notin R
    BY <2>1, <2>3
  <2>5. x <= x - 1
    BY <1>2, <2>2, <2>4
  <2> QED
    BY <2>2, <2>5
<1> QED
  BY <1>3

\* A value that is stepped n times.
Stepped(f, b, F, n) == f[0] = b /\ \A k \in 1..n : f[k] = F[<<k, f[k - 1]>>]

LEMMA StepsExist ==
  ASSUME NEW V, NEW b \in V, NEW n \in Nat, NEW F \in [(1..n) \X V -> V]
  PROVE  \E f \in [0..n -> V] : Stepped(f, b, F, n)
<1> DEFINE S == {m \in Nat : m <= n => \E f \in [0..m -> V] : Stepped(f, b, F, m)}
<1>1. 0 \in S
  <2> DEFINE f == [k \in 0..0 |-> b]
  <2>1. f \in [0..0 -> V] /\ Stepped(f, b, F, 0)
    BY DEF Stepped
  <2> QED
    BY <2>1
<1>2. ASSUME NEW m \in Nat, m \in S PROVE m + 1 \in S
  <2> SUFFICES ASSUME m + 1 <= n PROVE \E f \in [0..m + 1 -> V] : Stepped(f, b, F, m + 1)
    OBVIOUS
  <2>1. PICK f \in [0..m -> V] : Stepped(f, b, F, m)
    BY <1>2
  <2> DEFINE g == [k \in 0..m + 1 |-> IF k <= m THEN f[k] ELSE F[<<m + 1, f[m]>>]]
  <2>2. f[m] \in V /\ <<m + 1, f[m]>> \in (1..n) \X V
    OBVIOUS
  <2>3. F[<<m + 1, f[m]>>] \in V
    BY <2>2
  <2>4. g \in [0..m + 1 -> V]
    BY <2>3
  <2>5. (\A k \in 0..m : g[k] = f[k]) /\ g[m + 1] = F[<<m + 1, f[m]>>]
    OBVIOUS
  <2> HIDE DEF g
  <2>6. ASSUME NEW k \in 1..m + 1 PROVE g[k] = F[<<k, g[k - 1]>>]
    <3>1. CASE k = m + 1
      <4>1. g[k - 1] = f[m]
        BY <2>5, <3>1
      <4> QED
        BY <2>5, <3>1, <4>1
    <3>2. CASE k \in 1..m
      <4>1. g[k] = f[k] /\ g[k - 1] = f[k - 1] /\ f[k] = F[<<k, f[k - 1]>>]
        BY <2>1, <2>5, <3>2 DEF Stepped
      <4> QED
        BY <4>1
    <3> QED
      BY <3>1, <3>2
  <2>7. g[0] = b
    BY <2>1, <2>5 DEF Stepped
  <2> QED
    BY <2>4, <2>6, <2>7 DEF Stepped
<1>3. Nat \subseteq S
  BY <1>1, <1>2, Induction
<1> QED
  BY <1>3

-----------------------------------------------------------------------------
(* The forwarded text: line by line.                                        *)
Chars == {"c", "L", "\n"}
Text == Seq(Chars)
Ended(u) == u = <<>> \/ u[Len(u)] = "\n"
OneLine(w) == \A i \in 1..Len(w) - 1 : w[i] # "\n"
IsKept(f, s) ==
  /\ f \in [0..Len(s) -> Text] /\ f[0] = <<>>
  /\ \A k \in 1..Len(s) : f[k] = IF Reported(s, k) THEN f[k - 1] ELSE Append(f[k - 1], s[k])

LEMMA KeptIs ==
  ASSUME NEW s \in Text
  PROVE  \E f : IsKept(f, s) /\ Kept(s) = f[Len(s)]
<1> DEFINE n == Len(s)
           F == [p \in (1..n) \X Text |-> IF Reported(s, p[1]) THEN p[2] ELSE Append(p[2], s[p[1]])]
           Recurs(f) == f = [k \in 0..n |-> IF k = 0 THEN <<>> ELSE IF Reported(s, k) THEN f[k - 1]
                                                                   ELSE Append(f[k - 1], s[k])]
<1>1. n \in Nat /\ <<>> \in Text /\ \A k \in 1..n : s[k] \in Chars
  BY LenProperties, EmptySeq, ElementOfSeq DEF Text
<1>2. \A t \in Text, c \in Chars : Append(t, c) \in Text
  BY AppendProperties DEF Text
<1>3. F \in [(1..n) \X Text -> Text]
  BY <1>1, <1>2
<1>4. \A k \in 1..n, t \in Text : F[<<k, t>>] = IF Reported(s, k) THEN t ELSE Append(t, s[k])
  OBVIOUS
<1> HIDE DEF F, n
<1>5. PICK g \in [0..n -> Text] : Stepped(g, <<>>, F, n)
  BY <1>1, <1>3, StepsExist
<1>6. \A k \in 1..n : g[k] = IF Reported(s, k) THEN g[k - 1] ELSE Append(g[k - 1], s[k])
  <2> TAKE k \in 1..n
  <2>1. g[k - 1] \in Text /\ g[k] = F[<<k, g[k - 1]>>]
    BY <1>1, <1>5 DEF Stepped
  <2> QED
    BY <1>4, <2>1
<1>7. Recurs(g)
  <2>1. \A k \in 0..n : g[k] = IF k = 0 THEN <<>> ELSE IF Reported(s, k) THEN g[k - 1] ELSE Append(g[k - 1], s[k])
    <3> TAKE k \in 0..n
    <3>1. k = 0 \/ (k \in 1..n /\ k # 0)
      BY <1>1
    <3>2. g[0] = <<>>
      BY <1>5 DEF Stepped
    <3>3. CASE k = 0
      BY <3>2, <3>3
    <3>4. CASE k \in 1..n /\ k # 0
      BY <1>6, <3>4
    <3> QED
      BY <3>1, <3>3, <3>4
  <2>2. g = [k \in 0..n |-> g[k]]
    <3>1. g \in [0..n -> Text]
      BY <1>5
    <3> QED
      BY ONLY <3>1
  <2>3. [k \in 0..n |-> g[k]] = [k \in 0..n |-> IF k = 0 THEN <<>> ELSE IF Reported(s, k) THEN g[k - 1]
                                                                           ELSE Append(g[k - 1], s[k])]
    BY ONLY <2>1
  <2> QED
    BY ONLY <2>2, <2>3
<1> DEFINE kept == CHOOSE f : Recurs(f)
<1>8. Recurs(kept)
  BY <1>7
<1>9. Kept(s) = kept[n]
  BY DEF Kept, n
<1> HIDE DEF kept
<1>10. kept[0] = <<>> /\ \A k \in 1..n : kept[k] = IF Reported(s, k) THEN kept[k - 1] ELSE Append(kept[k - 1], s[k])
  <2>1. \A k \in 0..n : kept[k] = IF k = 0 THEN <<>> ELSE IF Reported(s, k) THEN kept[k - 1] ELSE Append(kept[k - 1], s[k])
    BY <1>8
  <2>2. 0 \in 0..n /\ \A k \in 1..n : k \in 0..n /\ k # 0
    BY <1>1
  <2> QED
    BY <2>1, <2>2
<1> DEFINE S == {k \in Nat : k <= n => kept[k] \in Text}
<1>11. 0 \in S
  BY <1>1, <1>10
<1>12. ASSUME NEW k \in Nat, k \in S PROVE k + 1 \in S
  <2> SUFFICES ASSUME k + 1 <= n PROVE kept[k + 1] \in Text
    OBVIOUS
  <2>1. kept[k] \in Text /\ s[k + 1] \in Chars
    BY <1>1, <1>12
  <2>2. kept[k + 1] = IF Reported(s, k + 1) THEN kept[k] ELSE Append(kept[k], s[k + 1])
    BY <1>1, <1>10
  <2> QED
    BY <1>2, <2>1, <2>2
<1>13. \A k \in 0..n : kept[k] \in Text
  <2>1. Nat \subseteq S
    BY <1>11, <1>12, Induction
  <2> QED
    BY <1>1, <2>1
<1>14. kept \in [0..n -> Text]
  BY <1>8, <1>13
<1>15. IsKept(kept, s)
  BY <1>10, <1>14 DEF IsKept, n
<1> QED
  BY <1>9, <1>15 DEF n

\* What comes before the end of a line does not depend on what comes after it.
LEMMA LinesBefore ==
  ASSUME NEW u \in Text, NEW w \in Text, u # <<>>, u[Len(u)] = "\n", NEW k \in 1..Len(u)
  PROVE  LineOf(u \o w, k) = LineOf(u, k) /\ (Reported(u \o w, k) <=> Reported(u, k))
<1> DEFINE s == u \o w
           a == Len(u)
           n == Len(s)
<1>1. a \in Nat \ {0} /\ n \in Nat /\ a <= n /\ \A i \in 1..a : s[i] = u[i]
  BY ConcatProperties, LenProperties, EmptySeq DEF Text
<1>2. s[a] = "\n" /\ u[a] = "\n" /\ k \in 1..a
  BY <1>1
<1> HIDE DEF s, a, n
<1>3. ASSUME NEW j \in 1..n, \A i \in k..(j - 1) : s[i] # "\n" PROVE j \in 1..a
  BY <1>1, <1>2, <1>3
<1>4. LineOf(s, k) \subseteq 1..a
  BY <1>3 DEF LineOf, n
<1>5. LineOf(u, k) \subseteq 1..a
  BY DEF LineOf, a
<1>6. ASSUME NEW j \in 1..a PROVE j \in LineOf(s, k) <=> j \in LineOf(u, k)
  <2>1. /\ (\A i \in k..(j - 1) : s[i] # "\n") <=> (\A i \in k..(j - 1) : u[i] # "\n")
        /\ (\A i \in j..(k - 1) : s[i] # "\n") <=> (\A i \in j..(k - 1) : u[i] # "\n")
    BY <1>1, <1>2
  <2> QED
    BY <2>1, <1>1 DEF LineOf, n, a
<1>7. LineOf(s, k) = LineOf(u, k)
  BY <1>4, <1>5, <1>6
<1>8. s[k] = u[k] /\ \A j \in LineOf(u, k) : s[j] = u[j]
  BY <1>1, <1>2, <1>5
<1>9. Reported(s, k) <=> Reported(u, k)
  BY <1>7, <1>8 DEF Reported
<1> QED
  BY <1>7, <1>9 DEF s

\* A line that follows is reported on as a whole, when it is an LED report.
LEMMA LineAfter ==
  ASSUME NEW u \in Text, NEW w \in Text, Ended(u), OneLine(w), NEW k \in 1..Len(w)
  PROVE  Reported(u \o w, Len(u) + k) <=> isLedStateLine(w)
<1> DEFINE s == u \o w
           a == Len(u)
           b == Len(w)
<1>1. /\ a \in Nat /\ b \in Nat /\ Len(s) = a + b
      /\ \A i \in 1..a : s[i] = u[i]
      /\ \A i \in 1..b : s[a + i] = w[i] /\ w[i] \in Chars
  BY ConcatProperties, LenProperties, ElementOfSeq DEF Text
<1>2. (a = 0 \/ s[a] = "\n") /\ \A i \in 1..b - 1 : s[a + i] # "\n"
  BY <1>1, EmptySeq DEF Ended, OneLine
<1>3. k \in 1..b /\ b # 0
  OBVIOUS
<1> HIDE DEF s, a, b
<1>4. ASSUME NEW j \in LineOf(s, a + k) PROVE j - a \in 1..b
  <2>1. j \in 1..a + b /\ \A i \in j..(a + k - 1) : s[i] # "\n"
    BY <1>1 DEF LineOf
  <2>2. CASE j <= a
    <3>1. a \in j..(a + k - 1) /\ a # 0
      BY <1>1, <1>3, <2>1, <2>2
    <3> QED
      BY <1>2, <2>1, <3>1
  <2> QED
    BY <1>1, <2>1, <2>2
<1>5. ASSUME NEW i \in 1..b PROVE a + i \in LineOf(s, a + k)
  <2>1. ASSUME NEW j \in a + 1..a + b - 1 PROVE s[j] # "\n"
    <3>1. j - a \in 1..b - 1 /\ a + (j - a) = j
      BY <1>1
    <3> QED
      BY <1>2, <3>1
  <2> DEFINE m == a + i
  <2>2. m \in 1..Len(s) /\ (\A j \in (a + k)..(m - 1) : s[j] # "\n") /\ (\A j \in m..((a + k) - 1) : s[j] # "\n")
    BY <1>1, <1>3, <2>1
  <2> HIDE DEF m
  <2>3. m \in LineOf(s, a + k)
    BY <2>2 DEF LineOf
  <2> QED
    BY <2>3 DEF m
<1> DEFINE line == LineOf(s, a + k)
<1>6. \A j : j \in line <=> \E i \in 1..b : j = a + i
  <2>1. ASSUME NEW j \in line PROVE \E i \in 1..b : j = a + i
    <3>1. j \in 1..Len(s)
      BY DEF LineOf
    <3> QED
      BY <1>1, <1>4, <3>1
  <2> QED
    BY <1>5, <2>1
<1>7. Reported(s, a + k) <=> /\ s[a + k] \in {"L", "\n"} /\ \A j \in line : s[j] # "c"
                             /\ \E j \in line : s[j] = "L" /\ \A i \in line \ {j} : s[i] # "L"
  BY DEF Reported
<1> HIDE DEF line
<1>8. ASSUME Reported(s, a + k) PROVE isLedStateLine(w)
  <2>1. PICK j \in line : s[j] = "L" /\ \A i \in line \ {j} : s[i] # "L"
    BY <1>7, <1>8
  <2>2. PICK m \in 1..b : j = a + m
    BY <1>6
  <2>3. w[m] = "L"
    BY <1>1, <2>1, <2>2
  <2>4. ASSUME NEW i \in 1..b, i # m PROVE w[i] = "\n"
    <3>1. a + i \in line \ {j}
      BY <1>1, <1>6, <2>2, <2>4
    <3>2. s[a + i] # "L" /\ s[a + i] # "c"
      BY <1>7, <1>8, <2>1, <3>1
    <3> QED
      BY <1>1, <3>2 DEF Chars
  <2>5. ASSUME NEW i \in 1..b, i # m PROVE i = b
    <3>1. w[i] = "\n"
      BY <2>4, <2>5
    <3>2. i \notin 1..b - 1
      BY <3>1 DEF OneLine, b
    <3> QED
      BY <1>1, <3>2
  <2>6. b = 1 \/ (b = 2 /\ m = 1)
    <3>1. m # 1 => 1 = b
      <4>1. 1 \in 1..b
        BY <1>1, <1>3
      <4> QED
        BY <2>5, <4>1
    <3>2. b >= 3 => FALSE
      <4>1. b >= 3 => (2 # m => 2 = b) /\ (1 # m => 1 = b)
        BY <1>1, <2>5
      <4> QED
        BY <1>1, <2>2, <4>1
    <3>3. b = 2 => m = 1
      BY <3>1, <2>2
    <3> QED
      BY <1>1, <1>3, <3>2, <3>3
  <2>7. CASE b = 1
    <3>1. m = 1 /\ w \in Seq(Chars) /\ Len(w) = 1 /\ w[1] = "L"
      BY <2>2, <2>3, <2>7 DEF b, Text
    <3>2. <<"L">> \in Seq(Chars) /\ Len(<<"L">>) = 1 /\ <<"L">>[1] = "L"
      BY DEF Chars
    <3>3. w = <<"L">>
      BY <3>1, <3>2, SeqEqual
    <3> QED
      BY <3>3 DEF isLedStateLine
  <2>8. CASE b = 2 /\ m = 1
    <3>1. w \in Seq(Chars) /\ Len(w) = 2 /\ w[1] = "L" /\ w[2] = "\n"
      BY <2>3, <2>4, <2>8 DEF b, Text
    <3>2. <<"L", "\n">> \in Seq(Chars) /\ Len(<<"L", "\n">>) = 2 /\ <<"L", "\n">>[1] = "L" /\ <<"L", "\n">>[2] = "\n"
      BY DEF Chars
    <3>3. w = <<"L", "\n">>
      <4>1. \A i \in 1..2 : w[i] = <<"L", "\n">>[i]
        BY <3>1, <3>2
      <4> QED
        BY <3>1, <3>2, <4>1, SeqEqual
    <3> QED
      BY <3>3 DEF isLedStateLine
  <2> QED
    BY <2>6, <2>7, <2>8
<1>9. ASSUME isLedStateLine(w) PROVE Reported(s, a + k)
  <2>1. b \in 1..2 /\ w[1] = "L" /\ (b = 2 => w[2] = "\n")
    <3>1. CASE w = <<"L">>
      BY <3>1 DEF b
    <3>2. CASE w = <<"L", "\n">>
      BY <3>2 DEF b
    <3> QED
      BY <1>9, <3>1, <3>2 DEF isLedStateLine
  <2>2. ASSUME NEW j \in line PROVE (j = a + 1 /\ s[j] = "L") \/ (j = a + 2 /\ s[j] = "\n")
    <3>1. PICK i \in 1..b : j = a + i
      BY <1>6
    <3>2. (i = 1 \/ (i = 2 /\ b = 2)) /\ s[j] = w[i]
      BY <1>1, <2>1, <3>1
    <3> QED
      BY <2>1, <3>1, <3>2
  <2>3. a + 1 \in line /\ s[a + 1] = "L"
    BY <1>1, <1>6, <2>1
  <2>4. a + k \in line
    BY <1>3, <1>6
  <2>5. s[a + k] \in {"L", "\n"} /\ \A j \in line : s[j] # "c"
    BY <2>2, <2>4
  <2>6. \A i \in line \ {a + 1} : s[i] # "L"
    BY <2>2
  <2> QED
    BY <1>7, <2>3, <2>5, <2>6
<1> QED
  BY <1>8, <1>9 DEF s, a

LEMMA AppendedTo ==
  ASSUME NEW u \in Text, NEW v \in Text, NEW ch \in Chars
  PROVE  Append(u \o v, ch) = u \o (v \o <<ch>>) /\ v \o <<ch>> = Append(v, ch) /\ Append(v, ch) \in Text
<1> DEFINE end == <<ch>>
<1>1. end \in Seq(Chars) /\ u \in Seq(Chars) /\ v \in Seq(Chars)
  BY DEF Text
<1>2. Append(v, ch) = v \o end /\ Append(v, ch) \in Seq(Chars)
  BY <1>1, AppendIsConcat, AppendProperties
<1>3. u \o v \in Seq(Chars)
  BY ONLY <1>1, ConcatProperties
<1>4. Append(u \o v, ch) = (u \o v) \o end
  BY ONLY <1>3, ch \in Chars, AppendIsConcat
<1> HIDE DEF end
<1>5. (u \o v) \o end = u \o (v \o end)
  BY ONLY <1>1, ConcatAssociative
<1> QED
  BY <1>2, <1>4, <1>5 DEF end, Text

LEMMA KeptIn == ASSUME NEW s \in Text PROVE Kept(s) \in Text
<1>1. PICK f : IsKept(f, s) /\ Kept(s) = f[Len(s)]
  BY KeptIs
<1>2. Len(s) \in Nat
  BY LenProperties DEF Text
<1> QED
  BY <1>1, <1>2 DEF IsKept

(* What is kept of a text with one more line is what was kept of it, and the *)
(* line unless it is an LED report.                                         *)
LEMMA KeptLine ==
  ASSUME NEW u \in Text, NEW w \in Text, Ended(u), OneLine(w)
  PROVE  Kept(u \o w) = Kept(u) \o forwardLine(w) /\ Kept(u) \in Text
<1> DEFINE s == u \o w
           a == Len(u)
           b == Len(w)
<1>1. /\ a \in Nat /\ b \in Nat /\ s \in Text /\ Len(s) = a + b
      /\ \A i \in 1..a : s[i] = u[i]
      /\ \A i \in 1..b : s[a + i] = w[i] /\ w[i] \in Chars
  BY ConcatProperties, LenProperties, ElementOfSeq DEF Text
<1>2. PICK f : IsKept(f, s) /\ Kept(s) = f[Len(s)]
  BY <1>1, KeptIs
<1>3. PICK g : IsKept(g, u) /\ Kept(u) = g[a]
  BY KeptIs
<1>4. ASSUME NEW k \in 1..a PROVE Reported(s, k) <=> Reported(u, k)
  BY <1>1, LinesBefore, EmptySeq DEF Ended
<1>5. ASSUME NEW k \in 1..b PROVE Reported(s, a + k) <=> isLedStateLine(w)
  BY LineAfter
<1>6. /\ f \in [0..a + b -> Text] /\ f[0] = <<>>
      /\ \A k \in 1..a + b : f[k] = IF Reported(s, k) THEN f[k - 1] ELSE Append(f[k - 1], s[k])
  BY <1>1, <1>2 DEF IsKept
<1>7. /\ g \in [0..a -> Text] /\ g[0] = <<>>
      /\ \A k \in 1..a : g[k] = IF Reported(u, k) THEN g[k - 1] ELSE Append(g[k - 1], u[k])
  BY <1>3 DEF IsKept
<1> HIDE DEF s, a, b
<1> DEFINE S == {k \in Nat : k <= a => f[k] = g[k]}
<1>8. 0 \in S
  BY <1>6, <1>7
<1>9. ASSUME NEW k \in Nat, k \in S PROVE k + 1 \in S
  <2> SUFFICES ASSUME k + 1 <= a PROVE f[k + 1] = g[k + 1]
    OBVIOUS
  <2> DEFINE m == k + 1
  <2>1. f[k] = g[k] /\ m \in 1..a /\ m \in 1..a + b /\ m - 1 = k
    BY <1>1, <1>9
  <2> HIDE DEF m
  <2>2. f[m] = IF Reported(s, m) THEN f[k] ELSE Append(f[k], s[m])
    BY <1>6, <2>1
  <2>3. g[m] = IF Reported(u, m) THEN g[k] ELSE Append(g[k], u[m])
    BY <1>7, <2>1
  <2>4. s[m] = u[m] /\ (Reported(s, m) <=> Reported(u, m))
    BY <1>1, <1>4, <2>1
  <2> QED
    BY <2>1, <2>2, <2>3, <2>4 DEF m
<1>10. f[a] = g[a]
  <2>1. Nat \subseteq S
    BY <1>8, <1>9, Induction
  <2> QED
    BY <1>1, <2>1
<1>11. f[a] \in Text
  BY <1>1, <1>6
<1> DEFINE After(k) == IF isLedStateLine(w) THEN <<>> ELSE SubSeq(w, 1, k)
           Q == {k \in Nat : k <= b => f[a + k] = f[a] \o After(k)}
<1> HIDE DEF After
<1>12. 0 \in Q
  <2>1. SubSeq(w, 1, 0) = <<>> /\ f[a] \o <<>> = f[a]
    BY <1>11, SubSeqEmpty, ConcatEmptySeq DEF Text
  <2>2. After(0) = <<>> /\ a + 0 = a
    BY <1>1, <2>1 DEF After
  <2> QED
    BY <2>1, <2>2
<1>13. ASSUME NEW k \in Nat, k \in Q PROVE k + 1 \in Q
  <2> DEFINE j == k + 1
  <2>0. j \in Nat /\ j = k + 1
    OBVIOUS
  <2> HIDE DEF j
  <2> SUFFICES ASSUME j <= b PROVE f[a + j] = f[a] \o After(j)
    BY <2>0
  <2>1. f[a + k] = f[a] \o After(k) /\ j \in 1..b /\ a + j \in 1..a + b /\ (a + j) - 1 = a + k /\ j - 1 = k
    BY <1>1, <1>13, <2>0
  <2>2. f[a + j] = IF Reported(s, a + j) THEN f[a + k] ELSE Append(f[a + k], s[a + j])
    <3> DEFINE m == a + j
    <3>1. m \in 1..a + b /\ m - 1 = a + k
      BY <2>1
    <3> HIDE DEF m
    <3>2. f[m] = IF Reported(s, m) THEN f[m - 1] ELSE Append(f[m - 1], s[m])
      BY <1>6, <3>1
    <3> QED
      BY <3>1, <3>2 DEF m
  <2>3. s[a + j] = w[j] /\ (Reported(s, a + j) <=> isLedStateLine(w)) /\ w[j] \in Chars
    BY <1>1, <1>5, <2>1
  <2>4. CASE isLedStateLine(w)
    BY <2>1, <2>2, <2>3, <2>4 DEF After
  <2>5. CASE ~isLedStateLine(w)
    <3>1. f[a + j] = Append(f[a] \o SubSeq(w, 1, k), w[j])
      BY <2>1, <2>2, <2>3, <2>5 DEF After
    <3> DEFINE v == SubSeq(w, 1, k)
    <3>2. v \in Seq(Chars)
      <4>1. \A i \in 1..k : w[i] \in Chars
        BY <1>1, <2>1
      <4> QED
        BY <4>1, SubSeqProperties
    <3>3. SubSeq(w, 1, j) = v \o <<w[j]>>
      <4>1. w \in Seq(Chars) /\ 1 \in 1..Len(w) /\ j \in 1..Len(w) /\ j - 1 = k
        BY <1>1, <2>1 DEF b, Text
      <4>2. SubSeq(w, 1, j) = SubSeq(w, 1, j - 1) \o <<w[j]>>
        BY ONLY <4>1, SubSeqRecursiveSecond
      <4> QED
        BY <4>1, <4>2
    <3> HIDE DEF v
    <3>4. f[a] \in Seq(Chars) /\ <<w[j]>> \in Seq(Chars) /\ f[a] \o v \in Seq(Chars)
      BY <1>11, <2>3, <3>2, ConcatProperties DEF Text
    <3>5. Append(f[a] \o v, w[j]) = f[a] \o (v \o <<w[j]>>)
      BY <1>11, <2>3, <3>2, AppendedTo DEF Text
    <3> QED
      BY <2>5, <3>1, <3>3, <3>5 DEF v, After
  <2> QED
    BY <2>4, <2>5
<1>14. f[a + b] = f[a] \o After(b)
  <2>1. Nat \subseteq Q
    BY <1>12, <1>13, Induction
  <2> QED
    BY <1>1, <2>1
<1>15. After(b) = forwardLine(w)
  BY SubSeqFull DEF forwardLine, b, Text, After
<1> QED
  BY <1>1, <1>2, <1>3, <1>10, <1>11, <1>14, <1>15 DEF s

-----------------------------------------------------------------------------
(* The splitter: what has been read is whole lines u, and a line v that has *)
(* not ended; of a line that is too long, part has been printed.            *)
Splitters == [p : Text, l : Text, t : BOOLEAN, o : Text]
NoEnd(v) == \A i \in 1..Len(v) : v[i] # "\n"
CutAt(s, d, u, v) ==
  /\ d = u \o v /\ Ended(u) /\ NoEnd(v)
  /\ ~s.t => s.l = v /\ s.o = Kept(u)
  /\ s.t => s.o \o s.l = Kept(u) \o v /\ Len(v) >= ReadSize
Cut(s, d) == \E u \in Text, v \in Text : CutAt(s, d, u, v)
Sound(s, w) == \E d \in Text : w = d \o s.p /\ Cut(s, d)

LEMMA SplitterFields ==
  ASSUME NEW s \in Splitters
  PROVE  s.p \in Text /\ s.l \in Text /\ s.t \in BOOLEAN /\ s.o \in Text
  BY DEF Splitters

LEMMA Texts ==
  /\ <<>> \in Text /\ Len(<<>>) = 0
  /\ \A v \in Text : Len(v) \in Nat /\ v \o <<>> = v /\ <<>> \o v = v /\ (v # <<>> => Len(v) # 0)
  /\ \A u, v \in Text : u \o v \in Text /\ Len(u \o v) = Len(u) + Len(v)
  BY EmptySeq, LenProperties, ConcatEmptySeq, ConcatProperties DEF Text

LEMMA Joined ==
  ASSUME NEW u \in Text, NEW v \in Text, NEW w \in Text
  PROVE  (u \o v) \o w = u \o (v \o w)
  BY ConcatAssociative DEF Text

IsAppended(u, v, ch) ==
  /\ Append(u \o v, ch) = u \o Append(v, ch) /\ Append(v, ch) \in Text
  /\ Len(Append(v, ch)) = Len(v) + 1 /\ Append(v, ch)[Len(v) + 1] = ch
  /\ \A i \in 1..Len(v) : Append(v, ch)[i] = v[i]

LEMMA AppendedIs == ASSUME NEW u \in Text, NEW v \in Text, NEW ch \in Chars PROVE IsAppended(u, v, ch)
<1>1. Append(u \o v, ch) = u \o Append(v, ch) /\ Append(v, ch) \in Text
  <2> DEFINE end == v \o <<ch>>
  <2>1. Append(u \o v, ch) = u \o end /\ end = Append(v, ch) /\ Append(v, ch) \in Text
    BY AppendedTo
  <2> HIDE DEF end
  <2> QED
    BY ONLY <2>1
<1>2. v \in Seq(Chars)
  BY DEF Text
<1> QED
  BY <1>1, <1>2, AppendProperties DEF IsAppended

LEMMA Appended ==
  ASSUME NEW u \in Text, NEW v \in Text, NEW ch \in Chars
  PROVE  /\ Append(u \o v, ch) = u \o Append(v, ch) /\ Append(v, ch) \in Text
         /\ Len(Append(v, ch)) = Len(v) + 1 /\ Append(v, ch)[Len(v) + 1] = ch
         /\ \A i \in 1..Len(v) : Append(v, ch)[i] = v[i]
<1>1. IsAppended(u, v, ch)
  BY AppendedIs
<1> QED
  BY ONLY <1>1 DEF IsAppended

\* A line of which more than a buffer has come is no LED report.
LEMMA LongLine ==
  ASSUME NEW v \in Text, Len(v) >= 2, NoEnd(v)
  PROVE  ~isLedStateLine(v) /\ ~isLedStateLine(Append(v, "\n"))
<1>1. Len(v) \in Nat /\ v \in Seq(Chars) /\ "\n" \in Chars
  BY Texts DEF Text, Chars
<1>2. Len(Append(v, "\n")) = Len(v) + 1
  BY <1>1, AppendProperties
<1>3. Len(<<"L">>) = 1 /\ Len(<<"L", "\n">>) = 2 /\ <<"L", "\n">>[2] = "\n"
  OBVIOUS
<1>4. v # <<"L">>
  <2>1. ASSUME v = <<"L">> PROVE FALSE
    <3>1. Len(v) = 1
      BY <1>3, <2>1
    <3> QED
      BY <3>1
  <2> QED
    BY <2>1
<1>5. v # <<"L", "\n">>
  <2>1. ASSUME v = <<"L", "\n">> PROVE FALSE
    <3>1. Len(v) = 2 /\ v[2] = "\n"
      BY <1>3, <2>1
    <3> QED
      BY <3>1 DEF NoEnd
  <2> QED
    BY <2>1
<1>6. Append(v, "\n") # <<"L">> /\ Append(v, "\n") # <<"L", "\n">>
  <2> DEFINE end == Append(v, "\n")
  <2>1. Len(end) # 1 /\ Len(end) # 2
    BY <1>1, <1>2
  <2> HIDE DEF end
  <2>2. ASSUME end = <<"L">> \/ end = <<"L", "\n">> PROVE FALSE
    <3>1. Len(end) = 1 \/ Len(end) = 2
      BY <1>3, <2>2
    <3> QED
      BY <2>1, <3>1
  <2> QED
    BY <2>2 DEF end
<1> QED
  BY <1>4, <1>5, <1>6 DEF isLedStateLine

LEMMA CharacterCut ==
  ASSUME NEW s \in Splitters, NEW d \in Text, Cut(s, d), NEW ch \in Chars
  PROVE  /\ Character(s, ch) \in Splitters /\ Character(s, ch).p = s.p
         /\ Cut(Character(s, ch), Append(d, ch))
<1>1. PICK u \in Text, v \in Text : CutAt(s, d, u, v)
  BY DEF Cut
<1> DEFINE line == Append(s.l, ch)
           end == Append(v, ch)
<1>2. s.p \in Text /\ s.l \in Text /\ s.t \in BOOLEAN /\ s.o \in Text
  BY SplitterFields
<1>3. /\ line \in Text /\ end \in Text /\ Append(d, ch) \in Text
      /\ Append(d, ch) = u \o end /\ Append(s.o \o s.l, ch) = s.o \o line
      /\ Len(end) = Len(v) + 1 /\ end[Len(v) + 1] = ch /\ \A i \in 1..Len(v) : end[i] = v[i]
  <2>1. d = u \o v
    BY <1>1 DEF CutAt
  <2>2. Append(u \o v, ch) = u \o end /\ end \in Text /\ Len(end) = Len(v) + 1 /\ end[Len(v) + 1] = ch
        /\ \A i \in 1..Len(v) : end[i] = v[i]
    <3>1. /\ Append(u \o v, ch) = u \o Append(v, ch) /\ Append(v, ch) \in Text
          /\ Len(Append(v, ch)) = Len(v) + 1 /\ Append(v, ch)[Len(v) + 1] = ch
          /\ \A i \in 1..Len(v) : Append(v, ch)[i] = v[i]
      <4>1. IsAppended(u, v, ch)
        BY AppendedIs
      <4> QED
        BY ONLY <4>1 DEF IsAppended
    <3> QED
      BY ONLY <3>1
  <2>3. Append(s.o \o s.l, ch) = s.o \o line /\ line \in Text
    BY <1>2, Appended
  <2>4. Append(d, ch) \in Text
    BY Appended
  <2> QED
    BY <2>1, <2>2, <2>3, <2>4
<1>4. /\ Ended(u) /\ NoEnd(v) /\ (~s.t => s.l = v /\ s.o = Kept(u))
      /\ s.t => s.o \o s.l = Kept(u) \o v /\ Len(v) >= ReadSize
  BY <1>1 DEF CutAt
<1>5. Len(v) \in Nat
  BY Texts
<1>6. ASSUME ch # "\n"
      PROVE  /\ Character(s, ch) \in Splitters /\ Character(s, ch).p = s.p
             /\ Cut(Character(s, ch), Append(d, ch))
  <2> DEFINE r == Character(s, ch)
  <2>1. r = [s EXCEPT !.l = line]
    BY <1>6 DEF Character
  <2>2. r \in Splitters /\ r.p = s.p /\ r.l = line /\ r.t = s.t /\ r.o = s.o
    BY <1>3, <2>1 DEF Splitters
  <2>3. NoEnd(end)
    BY <1>3, <1>4, <1>5, <1>6 DEF NoEnd
  <2>4. s.t => s.o \o line = Kept(u) \o end
    <3>1. Kept(u) \in Text
      BY KeptIn
    <3>2. Append(Kept(u) \o v, ch) = Kept(u) \o end
      BY <3>1, Appended
    <3> QED
      BY <1>3, <1>4, <3>2
  <2> HIDE DEF r, line, end
  <2>5. ~s.t => line = end
    BY <1>4 DEF line, end
  <2>6. s.t => Len(end) >= ReadSize
    BY <1>3, <1>4, <1>5, ProcessAssumption
  <2>7. CutAt(r, Append(d, ch), u, end)
    BY <1>3, <1>4, <2>2, <2>3, <2>4, <2>5, <2>6 DEF CutAt
  <2> QED
    BY <1>3, <2>2, <2>7 DEF Cut, r
<1>7. ASSUME ch = "\n"
      PROVE  /\ Character(s, ch) \in Splitters /\ Character(s, ch).p = s.p
             /\ Cut(Character(s, ch), Append(d, ch))
  <2> DEFINE r == Character(s, ch)
             printed == IF s.t THEN line ELSE forwardLine(line)
             none == <<>>
             no == FALSE
             e == Append(d, ch)
             o == s.o \o printed
  <2>1. r = [s EXCEPT !.l = none, !.t = no, !.o = o]
    BY <1>7 DEF Character
  <2>2. printed \in Text /\ o \in Text /\ none \in Text /\ no \in BOOLEAN /\ ~no
    BY <1>2, <1>3, Texts DEF forwardLine
  <2>3. e \in Text /\ Ended(e) /\ e = e \o none /\ NoEnd(none)
    <3>1. d \in Seq(Chars) /\ ch \in Chars /\ Len(d) \in Nat
      BY Texts DEF Text
    <3>2. Len(e) = Len(d) + 1 /\ e[Len(d) + 1] = ch
      BY <3>1, AppendProperties
    <3> QED
      BY <1>3, <1>7, <3>2, Texts DEF Ended, NoEnd
  <2>4. OneLine(end)
    BY <1>3, <1>4, <1>5 DEF OneLine, NoEnd
  <2>5. Kept(e) = Kept(u) \o forwardLine(end) /\ Kept(u) \in Text
    BY <1>3, <1>4, <2>4, KeptLine
  <2>6. o = Kept(e)
    <3>1. CASE ~s.t
      <4>1. line = end /\ s.o = Kept(u)
        BY <1>4, <3>1
      <4> QED
        BY <2>5, <3>1, <4>1
    <3>2. CASE s.t
      <4>1. forwardLine(end) = end
        <5>1. Len(v) >= 2
          BY <1>4, <1>5, <3>2, ProcessAssumption
        <5> QED
          BY <1>4, <1>7, <5>1, LongLine DEF forwardLine
      <4>2. s.o \o line = Kept(u) \o end
        <5>1. Append(Kept(u) \o v, ch) = Kept(u) \o end
          BY <2>5, Appended
        <5> QED
          BY <1>3, <1>4, <3>2, <5>1
      <4> QED
        BY <2>5, <3>2, <4>1, <4>2
    <3> QED
      BY <3>1, <3>2
  <2> HIDE DEF printed, none, no, o, e, r
  <2>7. r.p = s.p /\ r.l = none /\ r.t = no /\ r.o = o
    BY <2>1 DEF Splitters
  <2>8. r \in Splitters
    BY <2>1, <2>2 DEF Splitters
  <2>9. CutAt(r, e, e, none)
    BY <2>2, <2>3, <2>6, <2>7 DEF CutAt
  <2> QED
    BY <2>2, <2>3, <2>7, <2>8, <2>9 DEF Cut, r, e
<1> QED
  BY <1>6, <1>7

LEMMA HeldCut ==
  ASSUME NEW s \in Splitters, NEW d \in Text, Cut(s, d)
  PROVE  HeldTooLong(s) \in Splitters /\ HeldTooLong(s).p = s.p /\ Cut(HeldTooLong(s), d)
<1>1. CASE ~s.t /\ Len(s.l) < ReadSize
  BY <1>1 DEF HeldTooLong
<1>2. CASE ~(~s.t /\ Len(s.l) < ReadSize)
  <2>1. PICK u \in Text, v \in Text : CutAt(s, d, u, v)
    BY DEF Cut
  <2> DEFINE r == HeldTooLong(s)
             none == <<>>
             yes == TRUE
             o == s.o \o s.l
  <2>2. r = [s EXCEPT !.o = o, !.l = none, !.t = yes]
    BY <1>2 DEF HeldTooLong
  <2>3. s.p \in Text /\ s.l \in Text /\ s.t \in BOOLEAN /\ s.o \in Text
    BY SplitterFields
  <2>4. o \in Text /\ none \in Text /\ yes \in BOOLEAN /\ yes /\ o \o none = o
    BY <2>3, Texts
  <2>5. /\ d = u \o v /\ Ended(u) /\ NoEnd(v) /\ (~s.t => s.l = v /\ s.o = Kept(u))
        /\ s.t => o = Kept(u) \o v /\ Len(v) >= ReadSize
    BY <2>1 DEF CutAt
  <2>6. o = Kept(u) \o v /\ Len(v) >= ReadSize
    <3>1. CASE s.t
      BY <2>5, <3>1
    <3>2. CASE ~s.t
      <4>1. Len(v) \in Nat /\ ReadSize \in Nat /\ s.l = v /\ s.o = Kept(u)
        BY <2>5, <3>2, Texts, ProcessAssumption
      <4>2. ~(Len(v) < ReadSize)
        BY <1>2, <3>2, <4>1
      <4> QED
        BY <4>1, <4>2
    <3> QED
      BY <3>1, <3>2
  <2> HIDE DEF none, yes, o, r
  <2>7. r \in Splitters /\ r.p = s.p /\ r.l = none /\ r.t = yes /\ r.o = o
    BY <2>2, <2>4 DEF Splitters
  <2>8. CutAt(r, d, u, v)
    BY <2>4, <2>5, <2>6, <2>7 DEF CutAt
  <2> QED
    BY <2>7, <2>8 DEF Cut, r
<1> QED
  BY <1>1, <1>2

LEMMA CharacterIn ==
  ASSUME NEW s \in Splitters, NEW ch \in Chars
  PROVE  Character(s, ch) \in Splitters
<1> DEFINE line == Append(s.l, ch)
           o == s.o \o (IF s.t THEN line ELSE forwardLine(line))
           none == <<>>
           no == FALSE
<1>1. s.l \in Text /\ s.o \in Text
  BY SplitterFields
<1>2. line \in Text
  BY <1>1, Appended
<1>3. o \in Text /\ none \in Text /\ no \in BOOLEAN
  BY <1>1, <1>2, Texts DEF forwardLine
<1>4. Character(s, ch) = IF ch # "\n" THEN [s EXCEPT !.l = line] ELSE [s EXCEPT !.l = none, !.t = no, !.o = o]
  BY DEF Character
<1> HIDE DEF line, o, none, no
<1>5. [s EXCEPT !.l = line] \in Splitters /\ [s EXCEPT !.l = none, !.t = no, !.o = o] \in Splitters
  BY <1>2, <1>3 DEF Splitters
<1> QED
  BY <1>4, <1>5

\* The states between the characters of one read.
Reading(f, s, n) ==
  /\ f \in [0..n -> Splitters] /\ f[0] = s
  /\ \A k \in 1..n : f[k] = Character(f[k - 1], s.p[k])

LEMMA CharactersAre ==
  ASSUME NEW s \in Splitters, NEW n \in Nat, n <= Len(s.p)
  PROVE  \E f : Reading(f, s, n) /\ Characters(s, n) = [f[n] EXCEPT !.p = SubSeq(@, n + 1, Len(@))]
<1> DEFINE F == [x \in (1..n) \X Splitters |-> Character(x[2], s.p[x[1]])]
           Recurs(f) == f = [k \in 0..n |-> IF k = 0 THEN s ELSE Character(f[k - 1], s.p[k])]
<1>1. \A k \in 1..n : s.p[k] \in Chars
  <2>1. s.p \in Seq(Chars) /\ Len(s.p) \in Nat
    BY SplitterFields, Texts DEF Text
  <2> QED
    BY <2>1, ElementOfSeq
<1>2. F \in [(1..n) \X Splitters -> Splitters]
  BY <1>1, CharacterIn
<1>3. \A k \in 1..n, x \in Splitters : F[<<k, x>>] = Character(x, s.p[k])
  OBVIOUS
<1> HIDE DEF F
<1>4. PICK g \in [0..n -> Splitters] : Stepped(g, s, F, n)
  BY <1>2, StepsExist
<1>5. \A k \in 0..n : g[k] = IF k = 0 THEN s ELSE Character(g[k - 1], s.p[k])
  <2> TAKE k \in 0..n
  <2>1. k = 0 \/ (k \in 1..n /\ k # 0)
    OBVIOUS
  <2>2. g[0] = s
    BY <1>4 DEF Stepped
  <2>3. CASE k = 0
    BY <2>2, <2>3
  <2>4. CASE k \in 1..n /\ k # 0
    <3>1. g[k - 1] \in Splitters /\ g[k] = F[<<k, g[k - 1]>>]
      BY <1>4, <2>4 DEF Stepped
    <3> QED
      BY <1>3, <2>4, <3>1
  <2> QED
    BY <2>1, <2>3, <2>4
<1>6. Recurs(g)
  <2>1. g \in [0..n -> Splitters]
    BY <1>4
  <2>2. g = [k \in 0..n |-> g[k]]
    BY ONLY <2>1
  <2>3. [k \in 0..n |-> g[k]] = [k \in 0..n |-> IF k = 0 THEN s ELSE Character(g[k - 1], s.p[k])]
    BY ONLY <1>5
  <2> QED
    BY ONLY <2>2, <2>3
<1> DEFINE read == CHOOSE f : Recurs(f)
<1>7. Recurs(read)
  BY <1>6
<1>8. Characters(s, n) = [read[n] EXCEPT !.p = SubSeq(@, n + 1, Len(@))]
  BY DEF Characters
<1> HIDE DEF read
<1>9. read[0] = s /\ \A k \in 1..n : read[k] = Character(read[k - 1], s.p[k])
  <2>1. \A k \in 0..n : read[k] = IF k = 0 THEN s ELSE Character(read[k - 1], s.p[k])
    BY <1>7
  <2>2. 0 \in 0..n /\ \A k \in 1..n : k \in 0..n /\ k # 0
    OBVIOUS
  <2> QED
    BY <2>1, <2>2
<1> DEFINE S == {k \in Nat : k <= n => read[k] \in Splitters}
<1>10. 0 \in S
  BY <1>9
<1>11. ASSUME NEW k \in Nat, k \in S PROVE k + 1 \in S
  <2> DEFINE j == k + 1
  <2>0. j \in Nat /\ j - 1 = k /\ j = k + 1
    OBVIOUS
  <2> HIDE DEF j
  <2> SUFFICES ASSUME j <= n PROVE read[j] \in Splitters
    BY <2>0
  <2>1. read[k] \in Splitters /\ j \in 1..n
    BY <1>11, <2>0
  <2>2. read[j] = Character(read[k], s.p[j])
    BY <1>9, <2>0, <2>1
  <2> QED
    BY <1>1, <2>1, <2>2, CharacterIn
<1>12. \A k \in 0..n : read[k] \in Splitters
  <2>1. Nat \subseteq S
    BY <1>10, <1>11, Induction
  <2> QED
    BY <2>1
<1>13. read \in [0..n -> Splitters]
  BY <1>7, <1>12
<1> QED
  BY <1>8, <1>9, <1>13 DEF Reading

LEMMA CharactersCut ==
  ASSUME NEW s \in Splitters, NEW n \in Nat, n <= Len(s.p), NEW w \in Text, Sound(s, w)
  PROVE  Characters(s, n) \in Splitters /\ Sound(Characters(s, n), w) /\ Len(Characters(s, n).p) = Len(s.p) - n
<1>1. PICK d \in Text : w = d \o s.p /\ Cut(s, d)
  BY DEF Sound
<1>2. PICK f : Reading(f, s, n) /\ Characters(s, n) = [f[n] EXCEPT !.p = SubSeq(@, n + 1, Len(@))]
  BY CharactersAre
<1>3. s.p \in Text /\ s.p \in Seq(Chars) /\ Len(s.p) \in Nat /\ \A k \in 1..Len(s.p) : s.p[k] \in Chars
  <2>1. s.p \in Text /\ s.p \in Seq(Chars) /\ Len(s.p) \in Nat
    BY SplitterFields, Texts DEF Text
  <2> QED
    BY <2>1, ElementOfSeq
<1>4. f \in [0..n -> Splitters] /\ f[0] = s /\ \A k \in 1..n : f[k] = Character(f[k - 1], s.p[k])
  BY <1>2 DEF Reading
<1> DEFINE Taken(k) == SubSeq(s.p, 1, k)
<1>5. Taken(0) = <<>>
  BY SubSeqEmpty
<1>6. ASSUME NEW k \in 0..n PROVE Taken(k) \in Text
  <2>1. \A i \in 1..k : s.p[i] \in Chars
    BY <1>3
  <2> QED
    BY <2>1, SubSeqProperties DEF Text
<1>7. ASSUME NEW k \in 1..n PROVE Taken(k) = Append(Taken(k - 1), s.p[k])
  <2> DEFINE p == s.p
             m == k - 1
  <2>1. p \in Seq(Chars) /\ 1 \in 1..Len(p) /\ k \in 1..Len(p) /\ m \in 0..n /\ k \in 1..n
    BY <1>3
  <2>2. SubSeq(p, 1, k) = SubSeq(p, 1, k - 1) \o <<p[k]>>
    BY ONLY <2>1, SubSeqRecursiveSecond
  <2>3. SubSeq(p, 1, m) \in Seq(Chars) /\ p[k] \in Chars
    BY <1>3, <1>6, <2>1 DEF Text
  <2> DEFINE t == SubSeq(p, 1, m)
             c == p[k]
  <2>4. t \in Seq(Chars) /\ c \in Chars
    BY <2>3
  <2> HIDE DEF t, c
  <2>5. Append(t, c) = t \o <<c>>
    BY ONLY <2>4, AppendIsConcat
  <2> QED
    BY <2>2, <2>5 DEF t, c
<1> HIDE DEF Taken
<1> DEFINE S == {k \in Nat : k <= n => f[k].p = s.p /\ Cut(f[k], d \o Taken(k))}
<1>8. 0 \in S
  <2>1. d \o Taken(0) = d
    BY <1>5, Texts
  <2> QED
    BY <1>1, <1>4, <2>1
<1>9. ASSUME NEW k \in Nat, k \in S PROVE k + 1 \in S
  <2> DEFINE j == k + 1
  <2>0. j \in Nat /\ j - 1 = k /\ j = k + 1
    OBVIOUS
  <2> HIDE DEF j
  <2> SUFFICES ASSUME j <= n PROVE f[j].p = s.p /\ Cut(f[j], d \o Taken(j))
    BY <2>0
  <2>1. f[k].p = s.p /\ Cut(f[k], d \o Taken(k)) /\ j \in 1..n /\ k \in 0..n
    BY <1>9, <2>0
  <2> DEFINE x == f[k]
             c == s.p[j]
             e == d \o Taken(k)
  <2>2. x \in Splitters /\ c \in Chars /\ e \in Text /\ Taken(k) \in Text
    BY <1>3, <1>4, <1>6, <2>1, Texts
  <2>3. f[j] = Character(x, c)
    BY <1>4, <2>0, <2>1
  <2>4. Append(e, c) = d \o Taken(j)
    <3>1. Append(d \o Taken(k), c) = d \o Append(Taken(k), c)
      BY <2>2, Appended
    <3>2. Taken(j) = Append(Taken(k), c)
      BY <1>7, <2>0, <2>1
    <3> QED
      BY <3>1, <3>2
  <2>5. Cut(x, e)
    BY <2>1
  <2> HIDE DEF x, c, e
  <2>6. Character(x, c).p = x.p /\ Cut(Character(x, c), Append(e, c))
    BY <2>2, <2>5, CharacterCut
  <2> QED
    BY <2>1, <2>3, <2>4, <2>6 DEF x
<1>10. f[n].p = s.p /\ Cut(f[n], d \o Taken(n))
  <2>1. Nat \subseteq S
    BY <1>8, <1>9, Induction
  <2> QED
    BY <2>1
<1> DEFINE r == Characters(s, n)
           rest == SubSeq(s.p, n + 1, Len(s.p))
           e == d \o Taken(n)
<1>11. rest \in Text /\ Len(rest) = Len(s.p) - n
  <2>1. \A i \in n + 1..Len(s.p) : s.p[i] \in Chars
    BY <1>3
  <2>2. n + 1 \in Int /\ Len(s.p) \in Int
    BY <1>3
  <2>3. rest \in Seq(Chars) /\ Len(rest) = IF n + 1 <= Len(s.p) THEN Len(s.p) - (n + 1) + 1 ELSE 0
    BY <2>1, <2>2, SubSeqProperties
  <2> QED
    BY <1>3, <2>3 DEF Text
<1>12. f[n] \in Splitters
  BY <1>4
<1>13. r = [f[n] EXCEPT !.p = rest]
  BY <1>2, <1>10
<1>14. e \in Text /\ w = e \o rest
  <2>1. Taken(n) \in Text
    BY <1>6
  <2>2. Taken(n) \o rest = s.p
    <3> DEFINE p == s.p
    <3>1. p \in Seq(Chars) /\ Len(p) \in Nat /\ 1 \in 1..Len(p) + 1 /\ n \in 1 - 1..Len(p) /\ Len(p) \in n..Len(p)
      BY <1>3
    <3> HIDE DEF p
    <3>2. SubSeq(p, 1, n) \o SubSeq(p, n + 1, Len(p)) = SubSeq(p, 1, Len(p))
      BY ONLY <3>1, ConcatAdjacentSubSeq
    <3>3. SubSeq(p, 1, Len(p)) = p
      BY <3>1, SubSeqFull
    <3> QED
      BY <3>2, <3>3 DEF p, Taken
  <2>3. (d \o Taken(n)) \o rest = d \o (Taken(n) \o rest)
    BY <1>11, <2>1, Joined
  <2> QED
    BY <1>1, <2>1, <2>2, <2>3, Texts
<1> HIDE DEF rest, e, r
<1>15. r \in Splitters /\ r.p = rest /\ r.l = f[n].l /\ r.t = f[n].t /\ r.o = f[n].o
  BY <1>11, <1>12, <1>13 DEF Splitters
<1>16. Cut(r, e)
  BY <1>10, <1>15 DEF Cut, CutAt, e
<1> QED
  BY <1>11, <1>14, <1>15, <1>16 DEF Sound, r

LEMMA ReadSound ==
  ASSUME NEW s \in Splitters, NEW w \in Text, Sound(s, w)
  PROVE  /\ Read(s) \in Splitters /\ Sound(Read(s), w)
         /\ Len(Read(s).p) = IF Len(s.p) < ReadSize THEN 0 ELSE Len(s.p) - ReadSize
<1> DEFINE n == IF Len(s.p) < ReadSize THEN Len(s.p) ELSE ReadSize
           r == Characters(s, n)
<1>1. s.p \in Text /\ Len(s.p) \in Nat /\ n \in Nat /\ n <= Len(s.p) /\ ReadSize \in Nat
  BY SplitterFields, Texts, ProcessAssumption
<1>2. Read(s) = IF n = 0 THEN s ELSE HeldTooLong(r)
  BY DEF Read
<1>4. CASE n = 0
  BY <1>1, <1>2, <1>4, ProcessAssumption
<1>5. CASE n # 0
  <2>1. Read(s) = HeldTooLong(r)
    BY <1>2, <1>5
  <2>2. n = IF Len(s.p) < ReadSize THEN Len(s.p) ELSE ReadSize
    OBVIOUS
  <2> HIDE DEF n
  <2>3. r \in Splitters /\ Sound(r, w) /\ Len(r.p) = Len(s.p) - n
    BY <1>1, CharactersCut
  <2> HIDE DEF r
  <2>4. PICK d \in Text : w = d \o r.p /\ Cut(r, d)
    BY <2>3 DEF Sound
  <2>5. HeldTooLong(r) \in Splitters /\ HeldTooLong(r).p = r.p /\ Cut(HeldTooLong(r), d)
    BY <2>3, <2>4, HeldCut
  <2>6. Sound(HeldTooLong(r), w)
    BY <2>4, <2>5 DEF Sound
  <2>7. Len(r.p) = IF Len(s.p) < ReadSize THEN 0 ELSE Len(s.p) - ReadSize
    BY <1>1, <2>2, <2>3
  <2> QED
    BY <2>1, <2>5, <2>6, <2>7
<1> QED
  BY <1>4, <1>5

LEMMA ReadNothing ==
  ASSUME NEW s \in Splitters, s.p = <<>>
  PROVE  Read(s) = s
<1>1. Len(s.p) = 0 /\ 0 < ReadSize
  BY ProcessAssumption
<1> DEFINE n == IF Len(s.p) < ReadSize THEN Len(s.p) ELSE ReadSize
<1>2. n = 0
  BY <1>1
<1>3. Read(s) = IF n = 0 THEN s ELSE HeldTooLong(Characters(s, n))
  BY DEF Read
<1> HIDE DEF n
<1> QED
  BY <1>2, <1>3

LEMMA DrainSound ==
  ASSUME NEW s \in Splitters, NEW w \in Text, Sound(s, w) \/ s.p = <<>>, Len(s.p) <= PipeCapacity
  PROVE  /\ drainOutput(s) \in Splitters /\ drainOutput(s).p = <<>>
         /\ Sound(s, w) => Sound(drainOutput(s), w)
         /\ s.p = <<>> => drainOutput(s) = s
<1> DEFINE n == MaxOutputReadsPerFrame
           V == {x \in Splitters : (s.p # <<>> => Sound(x, w)) /\ (s.p = <<>> => x = s)}
           F == [x \in (1..n) \X V |-> Read(x[2])]
           Recurs(f) == f = [k \in 0..n |-> IF k = 0 THEN s ELSE Read(f[k - 1])]
<1>1. /\ n \in Nat /\ ReadSize \in Nat /\ n * ReadSize \in Nat /\ PipeCapacity \in Nat
      /\ PipeCapacity <= n * ReadSize
  BY ProcessAssumption
<1>2. s \in V
  OBVIOUS
<1>3. ASSUME NEW x \in V
      PROVE  Read(x) \in V /\ Len(Read(x).p) = IF Len(x.p) < ReadSize THEN 0 ELSE Len(x.p) - ReadSize
  <2>1. x \in Splitters /\ (s.p # <<>> => Sound(x, w)) /\ (s.p = <<>> => x = s)
    OBVIOUS
  <2>2. CASE s.p = <<>>
    <3>1. Read(x) = x /\ x.p = <<>> /\ Len(x.p) = 0
      BY <2>1, <2>2, ReadNothing
    <3> QED
      BY <3>1, ProcessAssumption
  <2>3. CASE s.p # <<>>
    <3>1. /\ Read(x) \in Splitters /\ Sound(Read(x), w)
          /\ Len(Read(x).p) = IF Len(x.p) < ReadSize THEN 0 ELSE Len(x.p) - ReadSize
      BY <2>1, <2>3, ReadSound
    <3> QED
      BY <2>3, <3>1
  <2> QED
    BY <2>2, <2>3
<1>4. \A x \in V : /\ x \in Splitters /\ (s.p # <<>> => Sound(x, w)) /\ (s.p = <<>> => x = s)
                   /\ Len(Read(x).p) = IF Len(x.p) < ReadSize THEN 0 ELSE Len(x.p) - ReadSize
  BY <1>3
<1> HIDE DEF n, V
<1>5. F \in [(1..n) \X V -> V]
  BY <1>3
<1>6. \A k \in 1..n, x \in V : F[<<k, x>>] = Read(x)
  OBVIOUS
<1> HIDE DEF F
<1>7. PICK g \in [0..n -> V] : Stepped(g, s, F, n)
  BY <1>1, <1>2, <1>5, StepsExist
<1>8. \A k \in 0..n : g[k] = IF k = 0 THEN s ELSE Read(g[k - 1])
  <2> TAKE k \in 0..n
  <2>1. k = 0 \/ (k \in 1..n /\ k # 0)
    BY <1>1
  <2>2. g[0] = s
    BY <1>7 DEF Stepped
  <2>3. CASE k = 0
    BY <2>2, <2>3
  <2>4. CASE k \in 1..n /\ k # 0
    <3>1. g[k - 1] \in V /\ g[k] = F[<<k, g[k - 1]>>]
      BY <1>1, <1>7, <2>4 DEF Stepped
    <3> QED
      BY <1>6, <2>4, <3>1
  <2> QED
    BY <2>1, <2>3, <2>4
<1>9. Recurs(g)
  <2>1. g \in [0..n -> V]
    BY <1>7
  <2>2. g = [k \in 0..n |-> g[k]]
    BY ONLY <2>1
  <2>3. [k \in 0..n |-> g[k]] = [k \in 0..n |-> IF k = 0 THEN s ELSE Read(g[k - 1])]
    BY ONLY <1>8
  <2> QED
    BY ONLY <2>2, <2>3
<1> DEFINE reads == CHOOSE f : Recurs(f)
<1>10. Recurs(reads)
  BY <1>9
<1>11. drainOutput(s) = reads[n]
  BY DEF drainOutput, n
<1> HIDE DEF reads
<1>12. reads[0] = s /\ \A k \in 1..n : reads[k] = Read(reads[k - 1])
  <2>1. \A k \in 0..n : reads[k] = IF k = 0 THEN s ELSE Read(reads[k - 1])
    BY <1>10
  <2>2. 0 \in 0..n /\ \A k \in 1..n : k \in 0..n /\ k # 0
    BY <1>1
  <2> QED
    BY <2>1, <2>2
<1>13. \A k \in Nat : (k + 1) * ReadSize = k * ReadSize + ReadSize /\ k * ReadSize \in Nat
  BY <1>1
<1> DEFINE after == [k \in Nat |-> k * ReadSize]
<1>14. /\ after[0] = 0 /\ after[n] \in Nat /\ PipeCapacity <= after[n]
       /\ \A k \in Nat : after[k + 1] = after[k] + ReadSize /\ after[k] \in Nat
  BY <1>1, <1>13
<1> HIDE DEF after
<1> DEFINE S == {k \in Nat : k <= n => reads[k] \in V /\ (Len(reads[k].p) = 0 \/ Len(reads[k].p) + after[k] = Len(s.p))}
<1>15. s.p \in Text /\ Len(s.p) \in Nat
  BY SplitterFields, Texts
<1>16. 0 \in S
  BY <1>2, <1>12, <1>14, <1>15, SMTT(40)
<1>17. ASSUME NEW k \in Nat, k \in S PROVE k + 1 \in S
  <2> DEFINE j == k + 1
  <2>0. j \in Nat /\ j - 1 = k /\ j = k + 1
    OBVIOUS
  <2>00. after[j] = after[k] + ReadSize /\ after[k] \in Nat
    BY <1>14
  <2> HIDE DEF j
  <2> SUFFICES ASSUME j <= n PROVE reads[j] \in V /\ (Len(reads[j].p) = 0 \/ Len(reads[j].p) + after[j] = Len(s.p))
    BY <2>0
  <2>1. /\ reads[k] \in V /\ (Len(reads[k].p) = 0 \/ Len(reads[k].p) + after[k] = Len(s.p))
        /\ j \in 1..n
    BY <1>1, <1>17, <2>0
  <2>2. reads[j] = Read(reads[k])
    BY <1>12, <2>0, <2>1
  <2>3. reads[j] \in V
    BY <1>3, <2>1, <2>2
  <2>4. Len(reads[j].p) = IF Len(reads[k].p) < ReadSize THEN 0 ELSE Len(reads[k].p) - ReadSize
    BY <1>4, <2>1, <2>2
  <2>5. Len(reads[k].p) \in Nat
    BY <1>4, <2>1, SplitterFields, Texts
  <2> QED
    <3> DEFINE a == Len(reads[j].p)
               b == Len(reads[k].p)
               c == Len(s.p)
               x == after[k]
               y == after[j]
    <3>1. /\ a = (IF b < ReadSize THEN 0 ELSE b - ReadSize) /\ b \in Nat /\ c \in Nat /\ x \in Nat /\ y = x + ReadSize
          /\ (b = 0 \/ b + x = c) /\ ReadSize \in Nat
      BY <1>1, <1>15, <2>00, <2>1, <2>4, <2>5
    <3> HIDE DEF a, b, c, x, y
    <3>2. a = 0 \/ a + y = c
      BY ONLY <3>1
    <3> QED
      BY <2>3, <3>2 DEF a, c, y
<1>18. reads[n] \in V /\ (Len(reads[n].p) = 0 \/ Len(reads[n].p) + after[n] = Len(s.p))
  <2>1. Nat \subseteq S
    BY <1>16, <1>17, Induction
  <2> QED
    BY <1>1, <2>1
<1>19. reads[n] \in Splitters /\ (s.p # <<>> => Sound(reads[n], w)) /\ (s.p = <<>> => reads[n] = s)
  BY <1>4, <1>18
<1>20. reads[n].p \in Text /\ Len(reads[n].p) \in Nat
  BY <1>19, SplitterFields, Texts
<1>21. Len(reads[n].p) = 0
  <2> DEFINE a == Len(reads[n].p)
             c == Len(s.p)
             y == after[n]
  <2>1. a \in Nat /\ c \in Nat /\ y \in Nat /\ PipeCapacity \in Nat /\ PipeCapacity <= y /\ c <= PipeCapacity
    BY <1>1, <1>14, <1>15, <1>20
  <2>2. a = 0 \/ a + y = c
    BY <1>18
  <2> HIDE DEF a, c, y
  <2>3. a = 0
    BY ONLY <2>1, <2>2
  <2> QED
    BY <2>3 DEF a
<1>22. reads[n].p = <<>>
  BY <1>20, <1>21, Texts
<1> QED
  BY <1>11, <1>19, <1>22

-----------------------------------------------------------------------------
(* The invariant of the output.  At rest nothing is left: what has been     *)
(* printed is then what is kept of all that was written.                    *)
Rested == pipe = <<>> /\ outputLine = <<>> /\ ~outputPassthrough /\ forwarded = Kept(written)
OutputInv ==
  /\ fds \subseteq Fds /\ polls \in 0..ShutdownPollCount
  /\ Splitter \in Splitters /\ written \in Text /\ Len(pipe) <= PipeCapacity
  /\ Rested \/ Sound(Splitter, written)
  /\ (pc = "idle" /\ pid = 0) \/ pc = "failed" => Rested
  /\ pid # 0 => Sound(Splitter, written)
ConsoleInv == ProcessInv /\ OutputInv

LEMMA EmptySound ==
  ASSUME NEW s \in Splitters, s.p = <<>>, s.l = <<>>, ~s.t, s.o = <<>>
  PROVE  Sound(s, <<>>) /\ Kept(<<>>) = <<>>
<1>1. <<>> \in Text /\ Len(<<>>) = 0 /\ <<>> \o <<>> = <<>>
  BY Texts
<1>2. Kept(<<>>) = <<>>
  <2> DEFINE none == <<>>
  <2>1. PICK f : IsKept(f, none) /\ Kept(none) = f[Len(none)]
    BY <1>1, KeptIs
  <2> QED
    BY <1>1, <2>1 DEF IsKept
<1>3. CutAt(s, <<>>, <<>>, <<>>)
  BY <1>1, <1>2 DEF CutAt, Ended, NoEnd
<1> QED
  BY <1>1, <1>2, <1>3 DEF Sound, Cut

\* The splitter of a child that starts.
Started == [p |-> <<>>, l |-> <<>>, t |-> FALSE, o |-> <<>>]

LEMMA StartSound == Started \in Splitters /\ Sound(Started, <<>>) /\ Kept(<<>>) = <<>> /\ <<>> \in Text /\ Len(<<>>) = 0
<1>1. <<>> \in Text /\ Len(<<>>) = 0
  BY Texts
<1>2. Started \in Splitters
  BY <1>1 DEF Started, Splitters
<1>3. Started.p = <<>> /\ Started.l = <<>> /\ ~Started.t /\ Started.o = <<>>
  BY DEF Started
<1> QED
  BY <1>1, <1>2, <1>3, EmptySound

LEMMA ConsoleInit == Init => ConsoleInv
<1> SUFFICES ASSUME Init PROVE OutputInv
  BY ProcessInit DEF ConsoleInv
<1>1. /\ fds = {} /\ polls = 0 /\ pipe = <<>> /\ outputLine = <<>> /\ outputPassthrough = FALSE
      /\ written = <<>> /\ forwarded = <<>>
  BY DEF Init
<1>2. Splitter = Started
  BY <1>1 DEF Splitter, Started
<1>3. Sound(Splitter, written)
  BY <1>1, <1>2, StartSound
<1> QED
  BY <1>1, <1>2, <1>3, StartSound, ProcessAssumption DEF OutputInv, Rested

\* The output is read: drainOutput, from its splitter.
LEMMA Drained ==
  ASSUME OutputInv, Splits(drainOutput(Splitter)), UNCHANGED written
  PROVE  /\ Splitter' \in Splitters /\ written' \in Text /\ Len(pipe') <= PipeCapacity
         /\ Sound(Splitter, written) => Sound(Splitter, written)'
         /\ Rested => Rested'
<1> DEFINE s == Splitter
           r == drainOutput(Splitter)
<1>1. s \in Splitters /\ written \in Text /\ Len(s.p) <= PipeCapacity /\ (Sound(s, written) \/ s.p = <<>>)
  BY DEF OutputInv, Splitter, Rested
<1>2. r \in Splitters /\ (Sound(s, written) => Sound(r, written)) /\ r.p = <<>> /\ (s.p = <<>> => r = s)
  BY <1>1, DrainSound
<1>3. pipe' = r.p /\ outputLine' = r.l /\ outputPassthrough' = r.t /\ forwarded' = r.o
  BY DEF Splits
<1>4. Splitter' = r
  <2>1. Splitter' = [p |-> r.p, l |-> r.l, t |-> r.t, o |-> r.o]
    BY <1>3 DEF Splitter
  <2> HIDE DEF r
  <2>2. r = [p |-> r.p, l |-> r.l, t |-> r.t, o |-> r.o]
    BY <1>2 DEF Splitters
  <2> QED
    BY <2>1, <2>2
<1>5. Sound(Splitter, written) => Sound(Splitter, written)'
  BY <1>2, <1>4
<1>6. Len(<<>>) = 0 /\ PipeCapacity \in Nat
  BY ProcessAssumption
<1>7. s.p = pipe /\ s.l = outputLine /\ s.t = outputPassthrough /\ s.o = forwarded
  BY DEF Splitter
<1> HIDE DEF r, s
<1>8. Rested => Rested'
  BY <1>2, <1>3, <1>7 DEF Rested
<1> QED
  BY <1>1, <1>2, <1>3, <1>4, <1>5, <1>6, <1>8 DEF r

LEMMA OutputKept ==
  ASSUME OutputInv, UNCHANGED output
  PROVE  /\ Splitter' \in Splitters /\ written' \in Text /\ Len(pipe') <= PipeCapacity
         /\ Sound(Splitter, written) => Sound(Splitter, written)'
         /\ Rested => Rested'
<1>1. UNCHANGED <<pipe, outputLine, outputPassthrough, written, forwarded>>
  BY DEF output
<1>2. Splitter' = Splitter
  BY <1>1 DEF Splitter
<1> QED
  BY <1>1, <1>2 DEF OutputInv, Rested

(* The child writes one character more.                                     *)
LEMMA WrittenSound ==
  ASSUME OutputInv, NEW ch \in Chars, ChildWrites(ch)
  PROVE  Splitter' \in Splitters /\ written' \in Text /\ Sound(Splitter, written)' /\ Len(pipe') <= PipeCapacity
<1>1. /\ pipe' = Append(pipe, ch) /\ written' = Append(written, ch) /\ Len(pipe) < PipeCapacity
      /\ outputLine' = outputLine /\ outputPassthrough' = outputPassthrough /\ forwarded' = forwarded
  BY DEF ChildWrites
<1> DEFINE s == Splitter
           r == [p |-> pipe', l |-> s.l, t |-> s.t, o |-> s.o]
<1>2. /\ s \in Splitters /\ s.p = pipe /\ s.l = outputLine /\ s.t = outputPassthrough /\ s.o = forwarded
      /\ written \in Text
  BY DEF OutputInv, Splitter
<1>3. Splitter' = r
  BY <1>1, <1>2 DEF Splitter
<1>4. pipe \in Text /\ s.l \in Text /\ s.t \in BOOLEAN /\ s.o \in Text
  BY <1>2, SplitterFields
<1>5. Append(pipe, ch) \in Text /\ Append(written, ch) \in Text /\ Len(Append(pipe, ch)) = Len(pipe) + 1
  BY <1>2, <1>4, Appended
<1>6. pipe' \in Text /\ written' \in Text /\ Len(pipe') <= PipeCapacity
  BY <1>1, <1>4, <1>5, Texts, ProcessAssumption
<1>7. PICK d \in Text : written = d \o pipe /\ Cut(s, d)
  <2>1. Sound(s, written)
    BY DEF OutputInv, ChildWrites
  <2> QED
    BY <1>2, <2>1 DEF Sound
<1>8. written' = d \o pipe'
  <2>1. Append(d \o pipe, ch) = d \o Append(pipe, ch)
    BY <1>4, Appended
  <2> QED
    BY <1>1, <1>7, <2>1
<1> HIDE DEF s
<1>9. r \in Splitters /\ r.p = pipe' /\ r.l = s.l /\ r.t = s.t /\ r.o = s.o
  BY <1>4, <1>6 DEF Splitters
<1> HIDE DEF r
<1>10. Cut(r, d)
  BY <1>7, <1>9 DEF Cut, CutAt
<1>11. Sound(r, written')
  BY <1>8, <1>9, <1>10 DEF Sound
<1>12. Sound(Splitter, written)'
  BY <1>3, <1>11
<1> QED
  BY <1>3, <1>6, <1>9, <1>12

(* stop() closes the output: the line that has not ended is printed too.    *)
LEMMA ClosedSound ==
  ASSUME OutputInv, StopCloses
  PROVE  Splitter' \in Splitters /\ written' \in Text /\ Len(pipe') <= PipeCapacity /\ Rested'
<1> DEFINE s == drainOutput(Splitter)
           last == IF s.t THEN s.l ELSE forwardLine(s.l)
           none == <<>>
           no == FALSE
           o == s.o \o last
           r == [p |-> none, l |-> none, t |-> no, o |-> o]
<1>1. pipe' = s.p /\ outputLine' = none /\ outputPassthrough' = no /\ forwarded' = o /\ written' = written
  BY DEF StopCloses
<1>2. /\ written \in Text /\ s \in Splitters /\ s.p = none
      /\ Sound(Splitter, written) => Sound(s, written)
      /\ Rested => s = Splitter
  <2> DEFINE q == Splitter
  <2>1. /\ q \in Splitters /\ written \in Text /\ Len(q.p) <= PipeCapacity /\ (Sound(q, written) \/ q.p = <<>>)
        /\ Rested => q.p = <<>>
    BY DEF OutputInv, Splitter, Rested
  <2> QED
    BY <2>1, DrainSound
<1>3. Splitter' = r
  BY <1>1, <1>2 DEF Splitter
<1>4. Rested => ~s.t /\ s.l = none /\ s.o = Kept(written)
  BY <1>2 DEF Rested, Splitter
<1> HIDE DEF s
<1>5. s.l \in Text /\ s.t \in BOOLEAN /\ s.o \in Text /\ none \in Text /\ no \in BOOLEAN /\ ~no /\ Len(none) = 0
  BY <1>2, SplitterFields, Texts
<1>6. last \in Text /\ o \in Text
  BY <1>5, Texts DEF forwardLine
<1>7. ASSUME Sound(Splitter, written) PROVE o = Kept(written)
  <2>1. PICK d \in Text : written = d \o s.p /\ Cut(s, d)
    BY <1>2, <1>7 DEF Sound
  <2>2. written = d
    BY <1>2, <2>1, Texts
  <2>3. PICK u \in Text, v \in Text : CutAt(s, d, u, v)
    BY <2>1 DEF Cut
  <2>4. /\ d = u \o v /\ Ended(u) /\ NoEnd(v) /\ (~s.t => s.l = v /\ s.o = Kept(u))
        /\ s.t => s.o \o s.l = Kept(u) \o v /\ Len(v) >= ReadSize
    BY <2>3 DEF CutAt
  <2>5. OneLine(v)
    BY <2>4, Texts DEF OneLine, NoEnd
  <2>6. Kept(d) = Kept(u) \o forwardLine(v)
    BY <2>4, <2>5, KeptLine
  <2>7. o = Kept(d)
    <3>1. CASE ~s.t
      BY <2>4, <2>6, <3>1
    <3>2. CASE s.t
      <4>1. Len(v) >= 2
        BY <2>4, <3>2, Texts, ProcessAssumption
      <4>2. forwardLine(v) = v
        BY <2>4, <4>1, LongLine DEF forwardLine
      <4> QED
        BY <2>4, <2>6, <3>2, <4>2
    <3> QED
      BY <3>1, <3>2
  <2> QED
    BY <2>2, <2>7
<1>8. ASSUME Rested PROVE o = Kept(written)
  <2>1. last = none
    BY <1>4, <1>8 DEF forwardLine
  <2>2. o = s.o
    BY <1>5, <2>1, Texts
  <2> QED
    BY <1>4, <1>8, <2>2
<1>9. o = Kept(written)
  <2>1. Sound(Splitter, written) \/ Rested
    BY DEF OutputInv
  <2> QED
    BY <1>7, <1>8, <2>1
<1> HIDE DEF last, o, none, no
<1>10. r \in Splitters
  BY <1>5, <1>6 DEF Splitters
<1>11. Len(pipe') <= PipeCapacity
  BY <1>1, <1>2, <1>5, ProcessAssumption
<1>12. Rested'
  BY <1>1, <1>2, <1>5, <1>9 DEF Rested, none
<1> QED
  BY <1>1, <1>2, <1>3, <1>10, <1>11, <1>12

\* A step that is not a start, a character more or the last look at the output.
LEMMA Carried ==
  ASSUME OutputInv, fds' \subseteq Fds, polls' \in 0..ShutdownPollCount,
         Splitter' \in Splitters /\ written' \in Text /\ Len(pipe') <= PipeCapacity,
         Sound(Splitter, written) => Sound(Splitter, written)', Rested => Rested',
         (pc' = "idle" /\ pid' = 0) \/ pc' = "failed" => (pc = "idle" /\ pid = 0) \/ pc = "failed",
         pid' # 0 => pid # 0
  PROVE  OutputInv'
  BY DEF OutputInv

LEMMA ConsoleStep == ConsoleInv /\ [Next]_vars => ConsoleInv'
<1> SUFFICES ASSUME ConsoleInv, [Next]_vars PROVE OutputInv'
  BY ProcessStep DEF ConsoleInv
<1> USE DEF ConsoleInv
<1>0. fds \subseteq Fds /\ polls \in 0..ShutdownPollCount /\ OutputInv /\ ProcessInv /\ ShutdownPollCount \in Nat \ {0}
  BY ProcessAssumption DEF OutputInv
<1>1. CASE Start
  <2>1. /\ pc = "idle" /\ pid = 0 /\ fds' = fds \cup {"recording0", "console1", "output0"} /\ polls' = polls
        /\ pipe' = <<>> /\ written' = <<>> /\ forwarded' = <<>>
        /\ outputLine' = outputLine /\ outputPassthrough' = outputPassthrough /\ pc' = pc
    BY <1>1 DEF Start, Open
  <2>2. Rested /\ outputPassthrough \in BOOLEAN
    BY <1>0, <2>1, SplitterFields DEF OutputInv, Splitter
  <2>3. outputLine' = <<>> /\ outputPassthrough' = FALSE
    BY <2>1, <2>2 DEF Rested
  <2>4. Splitter' = Started
    BY <2>1, <2>3 DEF Splitter, Started
  <2>5. Sound(Splitter, written)' /\ Rested'
    BY <2>1, <2>3, <2>4, StartSound DEF Rested
  <2>6. fds' \subseteq Fds
    BY <1>0, <2>1 DEF Fds
  <2> QED
    BY <1>0, <2>1, <2>4, <2>5, <2>6, StartSound, ProcessAssumption DEF OutputInv
<1>2. ASSUME NEW opened \in {{}, {"recording0", "recording1"}, Fds}, StartFails(opened) PROVE OutputInv'
  <2>1. /\ pc = "idle" /\ pid = 0 /\ fds' = fds \cup opened /\ pc' = "failed" /\ pid' = pid /\ polls' = polls
        /\ UNCHANGED output
    BY <1>2 DEF StartFails, Open
  <2>2. fds' \subseteq Fds
    BY <1>0, <2>1 DEF Fds
  <2> QED
    BY <1>0, <2>1, <2>2, OutputKept, Carried
<1>3. CASE Exited
  <2>1. /\ pc = "idle" /\ Splits(drainOutput(Splitter)) /\ written' = written /\ fds' = fds /\ polls' = polls
        /\ (pc' = "stop" /\ pid' = 0) \/ (pc' = pc /\ pid' = pid)
    BY <1>3 DEF Exited
  <2>2. pid' # 0 => pid # 0
    BY <2>1
  <2> QED
    BY <1>0, <2>1, <2>2, Drained, Carried
<1>4. CASE StopBegins
  <2>1. /\ fds' = fds \ {"console0", "console1"} /\ polls' = 0 /\ pc' \in {"poll", "close"} /\ pid' = pid /\ UNCHANGED output
    BY <1>4 DEF StopBegins
  <2>2. fds' \subseteq Fds /\ polls' \in 0..ShutdownPollCount
    BY <1>0, <2>1
  <2> QED
    BY <1>0, <2>1, <2>2, OutputKept, Carried
<1>5. CASE StopPolls
  <2>1. /\ pc = "poll" /\ polls < ShutdownPollCount /\ Splits(drainOutput(Splitter)) /\ written' = written /\ fds' = fds
        /\ \/ pc' = "close" /\ pid' = 0 /\ polls' = polls
           \/ pc' = pc /\ pid' = pid /\ polls' = polls + 1
    BY <1>5 DEF StopPolls
  <2>2. polls' \in 0..ShutdownPollCount
    BY <1>0, <2>1
  <2> QED
    BY <1>0, <2>1, <2>2, Drained, Carried
<1>6. CASE StopKills
  <2>1. pc = "poll" /\ pc' = "wait" /\ pid' = pid /\ fds' = fds /\ polls' = polls /\ UNCHANGED output
    BY <1>6 DEF StopKills
  <2> QED
    BY <1>0, <2>1, OutputKept, Carried
<1>7. CASE StopReaps
  <2>1. pc = "wait" /\ pc' = "close" /\ pid' = 0 /\ fds' = fds /\ polls' = polls /\ UNCHANGED output
    BY <1>7 DEF StopReaps
  <2> QED
    BY <1>0, <2>1, OutputKept, Carried
<1>8. CASE StopCloses
  <2>1. pc = "close" /\ pc' = "idle" /\ fds' = {} /\ pid' = pid /\ polls' = polls
    BY <1>8 DEF StopCloses
  <2>2. pid = 0
    BY <1>0, <2>1 DEF ProcessInv, ChildOfStop
  <2>3. Splitter' \in Splitters /\ written' \in Text /\ Len(pipe') <= PipeCapacity /\ Rested'
    BY <1>0, <1>8, ClosedSound
  <2> QED
    BY <1>0, <2>1, <2>2, <2>3 DEF OutputInv
<1>9. ASSUME NEW ch \in {"c", "L", "\n"}, ChildWrites(ch) PROVE OutputInv'
  <2>1. pid # 0 /\ UNCHANGED <<pid, pc, fds, polls>>
    BY <1>9 DEF ChildWrites, process
  <2>2. pc # "failed"
    BY <1>0, <2>1 DEF ProcessInv, ChildOfStop
  <2>3. ch \in Chars
    BY DEF Chars
  <2>4. Splitter' \in Splitters /\ written' \in Text /\ Sound(Splitter, written)' /\ Len(pipe') <= PipeCapacity
    BY <1>0, <1>9, <2>3, WrittenSound
  <2> QED
    BY <1>0, <2>1, <2>2, <2>4 DEF OutputInv
<1>10. ASSUME NEW c \in Children, ChildExits(c) PROVE OutputInv'
  <2>1. UNCHANGED <<pid, fds, pc, polls>> /\ UNCHANGED output
    BY <1>10 DEF ChildExits
  <2> QED
    BY <1>0, <2>1, OutputKept, Carried
<1>11. CASE UNCHANGED vars
  <2>1. UNCHANGED <<pid, fds, pc, polls>> /\ UNCHANGED output
    BY <1>11 DEF vars, output
  <2> QED
    BY <1>0, <2>1, OutputKept, Carried
<1> QED
  BY <1>1, <1>2, <1>3, <1>4, <1>5, <1>6, <1>7, <1>8, <1>9, <1>10, <1>11 DEF Next

(* When the child's output is closed, all it wrote has been printed once    *)
(* and in order, except the LED reports, however it was cut by reads, by    *)
(* the pipe and by lines that are too long: what has been read is whole     *)
(* lines and the beginning of one, of which a part is printed only when it  *)
(* is too long to be a report, and stop() reads the pipe to its end.        *)
THEOREM OutputCorrect == Spec => []OutputForwarded
<1>1. ConsoleInv => OutputForwarded
  BY DEF ConsoleInv, OutputInv, Rested, OutputForwarded
<1> QED
  BY ConsoleInit, ConsoleStep, <1>1, PTL DEF Spec

(* The variables keep to their types; the polls of a stop are counted no    *)
(* further than ShutdownPollCount.                                          *)
THEOREM TypesCorrect == Spec => []TypeOK
<1>1. ConsoleInv => TypeOK
  <2> SUFFICES ASSUME ConsoleInv PROVE TypeOK
    OBVIOUS
  <2>1. /\ pid \in 0..MaxChildren /\ child \in [Children -> States]
        /\ pc \in {"idle", "failed", "stop", "poll", "wait", "close"}
        /\ fds \subseteq Fds /\ polls \in 0..ShutdownPollCount
    BY DEF ConsoleInv, ProcessInv, ProcessTypes, OutputInv
  <2>2. written \in Text /\ Splitter \in Splitters
    BY DEF ConsoleInv, OutputInv
  <2>3. pipe \in Text /\ outputLine \in Text /\ outputPassthrough \in BOOLEAN /\ forwarded \in Text
    BY <2>2, SplitterFields DEF Splitter
  <2> QED
    BY <2>1, <2>2, <2>3 DEF TypeOK, States, Text, Chars
<1> QED
  BY ConsoleInit, ConsoleStep, <1>1, PTL DEF Spec
=============================================================================
