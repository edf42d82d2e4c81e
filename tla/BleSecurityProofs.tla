------------------------- MODULE BleSecurityProofs -------------------------
(***************************************************************************)
(* Theorems about the keys of the software link: what its two ends know of *)
(* the encryption and of the bond, and that no request of a live link is   *)
(* refused, for every number of sockets, links and requests.               *)
(***************************************************************************)
EXTENDS BleLinkProofs

-----------------------------------------------------------------------------
(* The inductive invariant.                                                *)

(* The peer waits for the answer to its Encrypt.                           *)
Exchanging == smp \in {"Encrypting", "Restoring"}

Answers(q) == {i \in 1..Len(q) : q[i].kind = "Encryption"}
Asks(q, g) == {i \in 1..Len(q) : q[i].kind = "Encrypt" /\ q[i].gen = g}
Refuses(q, g) == \E i \in 1..Len(q) : q[i].kind = "Rejected" /\ q[i].gen = g
Mentions(q, g) == \E i \in 1..Len(q) : q[i].gen = g
Announces(q) == \E i \in 1..Len(q) : q[i].kind = "Connected"

(* One answer at most is on its way, and only to a peer that waits for it; *)
(* if it confirms a new key, the guest has no other one.                   *)
AnswerInv ==
  pSock # 0 /\ generation # 0 =>
    \A i \in Answers(toPeer[pSock]) :
      /\ Exchanging
      /\ \A j \in Answers(toPeer[pSock]) : i = j
      /\ smp = "Encrypting" /\ toPeer[pSock][i].val = 0 => guestBond \in {0, generation}

(* The peer has not come to the controller's link yet, which is still as   *)
(* it was opened.                                                          *)
Unheard == generation \notin {0, conn} \/ Announces(toPeer[pSock])

UnheardInv ==
  pSock # 0 /\ conn # 0 /\ Unheard =>
    cKey = 0 /\ ~cEncrypted /\ ~Refuses(toPeer[pSock], conn) /\ ~Mentions(toCtl[pSock], conn)

Shared == pSock # 0 /\ conn # 0 /\ generation = conn

(* An Encrypt that the controller has still to read is the only one, it    *)
(* finds the link without key and unencrypted, and carries the key that    *)
(* the peer waits for.                                                     *)
AskInv ==
  Shared =>
    \A i \in Asks(toCtl[pSock], conn) :
      /\ cKey = 0 /\ ~cEncrypted /\ Exchanging /\ Answers(toPeer[pSock]) = {}
      /\ \A j \in Asks(toCtl[pSock], conn) : i = j
      /\ smp = "Encrypting" => toCtl[pSock][i].val = conn

(* On a link both ends have, the peer's state is that of the controller,   *)
(* or an answer that says so is on its way.                                *)
SharedInv ==
  Shared =>
    /\ ~Refuses(toPeer[pSock], conn)
    /\ \A i \in Answers(toPeer[pSock]) : cEncrypted = (toPeer[pSock][i].val = 0)
    /\ cKey # 0 => Exchanging /\ Answers(toPeer[pSock]) = {} /\ (smp = "Encrypting" => cKey = conn)
    /\ smp \in {"Idle", "Pairing"} => ~cEncrypted
    /\ smp = "Encrypted" => cEncrypted

(* Every key under discussion is the one the peer's bond has, if any.      *)
BondInv ==
  /\ BondsMatch
  /\ cKey # 0 => bond \in {0, cKey}
  /\ conn # 0 /\ cSock # 0 => \A i \in Asks(toCtl[cSock], conn) : bond \in {0, toCtl[cSock][i].val}

(* A Connect is about no link, so that its refusal is not either.          *)
ConnectInv == \A s \in Sockets : \A i \in 1..Len(toCtl[s]) : toCtl[s][i].kind = "Connect" => toCtl[s][i].gen = 0

KeysInv == AnswerInv /\ UnheardInv /\ AskInv /\ SharedInv /\ BondInv /\ ConnectInv

-----------------------------------------------------------------------------
(* What the stories of BleLinkProofs say of the peer's socket.             *)

LEMMA Places ==
  ASSUME LinkInv
  PROVE  /\ LinkTypes /\ PeerInv /\ CtlInv /\ WireInv /\ nextGeneration \in Nat
         /\ (pSock # 0 => pSock \in Sockets /\ pSock = acceptedSockets
                          /\ toPeer[pSock] \in Seq(PeerMsg) /\ toCtl[pSock] \in Seq(CtlMsgs))
         /\ (conn # 0 => conn = nextGeneration /\ opened = acceptedSockets /\ cSock \in {0, opened}
                         /\ (pSock # 0 => pSock = opened))
         /\ cSock \in Sockets \cup {0} /\ pSock \in Sockets \cup {0}
         /\ conn \in Nat /\ generation \in Nat
<1>1. /\ LinkTypes /\ PeerInv /\ CtlInv /\ WireInv /\ nextGeneration \in Nat
      /\ cSock \in Sockets \cup {0} /\ pSock \in Sockets \cup {0}
      /\ opened \in 0..MaxSockets /\ acceptedSockets \in 0..opened
  BY Numbers DEF LinkInv
<1>2. cSock \in {0, opened} /\ pSock \in {0, acceptedSockets}
  BY <1>1 DEF LinkTypes, SocketTypes
<1>3. conn \in Nat /\ generation \in Nat
  BY <1>1, KeyFacts DEF LinkTypes, CtlTypes, PeerTypes
<1>4. ASSUME pSock # 0
      PROVE  toPeer[pSock] \in Seq(PeerMsg) /\ toCtl[pSock] \in Seq(CtlMsgs)
  BY <1>1, <1>4 DEF LinkTypes, QueueTypes
<1>5. ASSUME conn # 0 PROVE conn = nextGeneration /\ opened = acceptedSockets
  BY <1>1, <1>5, Bounds DEF CtlInv, WireInv
<1> QED BY <1>1, <1>2, <1>3, <1>4, <1>5

(* The peer's link is the one it was told of; what it reads next is older  *)
(* than the controller's, or its.                                          *)
LEMMA Heard ==
  ASSUME LinkInv, pSock # 0
  PROVE  /\ generation <= nextGeneration
         /\ \A i \in 1..Len(toPeer[pSock]) : toPeer[pSock][i].gen <= nextGeneration
         /\ \A i \in 1..Len(toPeer[pSock]) : toPeer[pSock][i].kind = "Connected" => toPeer[pSock][i].gen > generation
         /\ conn # 0 /\ Unheard => generation # conn
<1> DEFINE q == toPeer[pSock]
<1>1. /\ pSock \in Sockets /\ q \in Seq(PeerMsg) /\ nextGeneration \in Nat /\ generation \in Nat
      /\ (conn # 0 => conn = nextGeneration)
  BY Places
<1>2. PICK told, data : SocketStory(pSock, told, data) /\ LinkStart(told)
  BY <1>1 DEF LinkInv, SocketInv
<1>3. Tale(q, nextGeneration, told, data)
  BY <1>2 DEF SocketStory
<1>4. /\ told \in 0..nextGeneration
      /\ \A i \in 1..Len(q) : q[i].gen <= nextGeneration
      /\ \A i \in 1..Len(q) : q[i].kind = "Connected" => q[i].gen > told
  BY <1>1, <1>3, TaleFacts
<1>5. generation # 0 => told = generation
  BY <1>2 DEF LinkStart
<1>6. generation <= nextGeneration
  BY <1>1, <1>4, <1>5
<1>7. \A i \in 1..Len(q) : q[i].gen \in Nat
  <2>1. \A i \in 1..Len(q) : q[i] \in PeerMsg
    BY <1>1
  <2> QED BY <2>1, Bounds DEF PeerMsg, PeerMsgs
<1>8. \A i \in 1..Len(q) : q[i].kind = "Connected" => q[i].gen > generation
  BY <1>1, <1>4, <1>5, <1>7
<1>9. ASSUME conn # 0, Unheard PROVE generation # conn
  <2>1. ASSUME NEW i \in 1..Len(q), q[i].kind = "Connected" PROVE generation # conn
    BY <1>1, <1>4, <1>7, <1>8, <1>9, <2>1
  <2> QED BY <1>9, <2>1 DEF Unheard, Announces
<1> QED BY <1>4, <1>6, <1>8, <1>9

(* A Connected that the peer reads is the end of what it knew: no answer   *)
(* comes behind it, and no other link behind the controller's.             *)
LEMMA HeardNext ==
  ASSUME LinkInv, pSock # 0, toPeer[pSock] # <<>>, Head(toPeer[pSock]).kind = "Connected"
  PROVE  /\ Answers(Tail(toPeer[pSock])) = {}
         /\ generation = 0 /\ Head(toPeer[pSock]).gen # 0
         /\ Head(toPeer[pSock]).gen = nextGeneration => ~Announces(Tail(toPeer[pSock]))
<1> DEFINE q == toPeer[pSock]
           m == Head(q)
           t == Tail(q)
<1>1. pSock \in Sockets /\ q \in Seq(PeerMsg) /\ q # <<>> /\ nextGeneration \in Nat /\ t \in Seq(PeerMsg)
      /\ m.kind = "Connected"
  <2>1. pSock \in Sockets /\ q \in Seq(PeerMsg) /\ q # <<>> /\ nextGeneration \in Nat
    BY Places
  <2> QED BY <2>1
<1>2. PICK told, data : SocketStory(pSock, told, data) /\ LinkStart(told)
  BY <1>1 DEF LinkInv, SocketInv
<1>3. Tale(q, nextGeneration, told, data)
  BY <1>2 DEF SocketStory
<1>4. PICK c, y : Moves(told, data, m, c, y) /\ Tale(t, nextGeneration, c, y)
  BY <1>1, <1>3, TakeTale
<1>5. told = 0 /\ c = m.gen /\ c # 0
  BY <1>1, <1>4 DEF Moves
<1>6. /\ \A i \in 1..Len(q) : q[i].kind = "Encryption" => told # 0
      /\ \A i \in 1..Len(t) : t[i].kind = "Connected" => t[i].gen > c
      /\ \A i \in 1..Len(t) : t[i].gen <= nextGeneration
  BY <1>1, <1>3, <1>4, TaleFacts, ZenonT(40)
<1>7. \A i \in 1..Len(t) : i + 1 \in 1..Len(q) /\ t[i] = q[i + 1]
  BY <1>1
<1>8. Answers(t) = {}
  BY <1>5, <1>6, <1>7 DEF Answers
<1>9. \A i \in 1..Len(t) : t[i].gen \in Nat
  <2>1. \A i \in 1..Len(t) : t[i] \in PeerMsg
    BY <1>1
  <2> QED BY <2>1, Bounds DEF PeerMsg, PeerMsgs
<1>10. m.gen = nextGeneration => ~Announces(t)
  <2>1. ASSUME m.gen = nextGeneration, NEW i \in 1..Len(t), t[i].kind = "Connected" PROVE FALSE
    <3>1. t[i].gen > nextGeneration /\ t[i].gen <= nextGeneration /\ t[i].gen \in Nat
      BY <1>5, <1>6, <1>9, <2>1
    <3> QED BY ONLY <1>1, <3>1
  <2> QED BY <2>1 DEF Announces
<1>11. generation = 0
  BY <1>2, <1>5 DEF LinkStart
<1> QED BY <1>5, <1>8, <1>10, <1>11

-----------------------------------------------------------------------------
(* Steps of the peer.                                                      *)

(* What the peer has still to read is what it had, without the first k.    *)
Rest(r, q, k) == \A i \in 1..Len(r) : i + k \in 1..Len(q) /\ r[i] = q[i + k]

LEMMA RestOf ==
  ASSUME NEW q, NEW k \in {0, 1}, NEW r, Rest(r, q, k)
  PROVE  /\ \A i \in Answers(r) : i \in Int /\ i + k \in Answers(q) /\ r[i].val = q[i + k].val
         /\ \A g : Refuses(r, g) => Refuses(q, g)
         /\ \A g : Mentions(r, g) => Mentions(q, g)
         /\ Announces(r) => Announces(q)
         /\ \A g : \A i \in Asks(r, g) : i \in Int /\ i + k \in Asks(q, g) /\ r[i].val = q[i + k].val
<1>1. \A i \in 1..Len(r) : i + k \in 1..Len(q) /\ r[i] = q[i + k] /\ i \in Int
  BY DEF Rest
<1>2. \A i \in Answers(r) : i \in Int /\ i + k \in Answers(q) /\ r[i].val = q[i + k].val
  BY <1>1 DEF Answers
<1>3. \A g : Refuses(r, g) => Refuses(q, g)
  BY <1>1 DEF Refuses
<1>4. \A g : Mentions(r, g) => Mentions(q, g)
  BY <1>1 DEF Mentions
<1>5. Announces(r) => Announces(q)
  BY <1>1 DEF Announces
<1>6. \A g : \A i \in Asks(r, g) : i \in Int /\ i + k \in Asks(q, g) /\ r[i].val = q[i + k].val
  BY <1>1 DEF Asks
<1> QED BY <1>2, <1>3, <1>4, <1>5, <1>6

LEMMA RestOfSame == ASSUME NEW M, NEW q \in Seq(M) PROVE Rest(q, q, 0)
BY DEF Rest

LEMMA RestOfTail == ASSUME NEW M, NEW q \in Seq(M), q # <<>> PROVE Rest(Tail(q), q, 1)
BY DEF Rest

(* What the peer says of keys, and no message that does.                   *)
Silent(M) == \A m \in M : m.kind # "Encrypt"

(* A step of the peer, in which it reads m or nothing: it leaves the link, *)
(* or keeps it as it is, or asks for a pairing, or for encryption with its *)
(* result; it greets a new link; it learns that the guest has lost its     *)
(* bond, or that the link is encrypted.                                    *)
LeavesLink(M) == generation' = 0 /\ bond' = bond /\ Silent(M)

Keeps(M) == generation' = generation /\ smp' = smp /\ bond' = bond /\ Silent(M)

Pairs(M) == generation' = generation /\ smp = "Idle" /\ smp' = "Pairing" /\ bond' = bond /\ Silent(M)

AsksEncryption(M) ==
  /\ generation' = generation /\ generation # 0 /\ smp = "Pairing" /\ smp' = "Encrypting" /\ bond' = bond
  /\ M = {Msg("Encrypt", generation, generation)}

Greets(m, M) ==
  /\ m.kind = "Connected" /\ generation' = m.gen /\ bond' = bond
  /\ \/ smp' = "Restoring" /\ M = {Msg("Encrypt", m.gen, bond)}
     \/ smp' = "Idle" /\ Silent(M)

LosesBond(m, M) ==
  /\ m.kind = "Encryption" /\ m.val = 6 /\ generation' = generation /\ generation # 0
  /\ smp = "Restoring" /\ smp' = "Pairing" /\ bond' = 0 /\ Silent(M)

TurnsOn(m, M) ==
  /\ m.kind = "Encryption" /\ m.val = 0 /\ generation' = generation /\ generation # 0
  /\ Exchanging /\ smp' = "Encrypted" /\ Silent(M)
  /\ bond' = IF smp = "Encrypting" THEN generation ELSE bond

(* The first three need no message.                                        *)
Quietly(M) == LeavesLink(M) \/ Keeps(M) \/ Pairs(M)

Turns(m, M) == Quietly(M) \/ AsksEncryption(M) \/ Greets(m, M) \/ LosesBond(m, M) \/ TurnsOn(m, M)

(* What the peer says at once is about its link, and as types allow.       *)
Speech(M) == Said(M) /\ M \in SUBSET CtlMsgs /\ \A m \in M : m.kind = "Connect" => m.gen = 0

LEMMA SpeechOfNothing ==
  ASSUME LinkTypes, UNCHANGED <<toCtl, pSock>> \/ PeerSends(<<>>)
  PROVE  Speech({}) /\ Silent({})
<1>1. Said({})
  BY SaidNothing
<1> QED BY <1>1 DEF Speech, Silent

LEMMA SpeechOfOne ==
  ASSUME LinkTypes, NEW k \in CtlKinds, NEW g \in Keys, NEW v \in Keys, PeerSends(<<Msg(k, g, v)>>),
         k = "Connect" => g = 0
  PROVE  Speech({Msg(k, g, v)}) /\ (k # "Encrypt" => Silent({Msg(k, g, v)}))
<1>1. Msg(k, g, v) \in CtlMsgs
  BY CtlMsgType
<1>2. Said({Msg(k, g, v)})
  BY <1>1, SaidOne
<1>3. Msg(k, g, v).kind = k /\ Msg(k, g, v).gen = g
  BY DEF Msg
<1> QED BY <1>1, <1>2, <1>3 DEF Speech, Silent

LEMMA SpeechOfEnd ==
  ASSUME LinkTypes, UNCHANGED toCtl, pSock' = 0
  PROVE  Speech({}) /\ Silent({})
<1>1. Said({})
  BY DEF Said
<1> QED BY <1>1 DEF Speech, Silent

LEMMA PeerNumbers ==
  ASSUME LinkTypes
  PROVE  generation \in Keys /\ bond \in Keys /\ 0 \in Keys
BY KeyFacts DEF LinkTypes, PeerTypes

(* disconnect, Fails and clearLink leave the link.                         *)
LEMMA DropsQuietly ==
  ASSUME LinkTypes, PeerInv, disconnect, bond' = bond
  PROVE  \E M : Speech(M) /\ LeavesLink(M)
<1>1. generation' = 0
  BY DisconnectedSession DEF NoSession
<1>2. CASE closing
  <2>1. UNCHANGED <<toCtl, pSock>>
    BY <1>2, Disconnects
  <2>2. Speech({}) /\ Silent({})
    BY <2>1, SpeechOfNothing
  <2> QED BY <1>1, <2>2 DEF LeavesLink
<1>3. CASE ~closing /\ generation = 0
  <2>1. PeerSends(<<>>)
    BY <1>3, Disconnects
  <2>2. Speech({}) /\ Silent({})
    BY <2>1, SpeechOfNothing
  <2> QED BY <1>1, <2>2 DEF LeavesLink
<1>4. CASE ~closing /\ generation # 0
  <2>1. PeerSends(<<Msg("Disconnect", generation, 0)>>)
    BY <1>4, Disconnects
  <2>2. Speech({Msg("Disconnect", generation, 0)}) /\ Silent({Msg("Disconnect", generation, 0)})
    BY <2>1, PeerNumbers, SpeechOfOne DEF CtlKinds
  <2> QED BY <1>1, <2>2 DEF LeavesLink
<1> QED BY <1>2, <1>3, <1>4

LEMMA FailsQuietly ==
  ASSUME LinkTypes, PeerInv, Fails
  PROVE  \E M : Speech(M) /\ LeavesLink(M)
BY DropsQuietly DEF Fails

LEMMA StaysQuietly ==
  ASSUME LinkTypes, UNCHANGED <<toCtl, pSock, generation, smp, bond>>
  PROVE  \E M : Speech(M) /\ Keeps(M)
<1>1. Speech({}) /\ Silent({})
  BY SpeechOfNothing
<1> QED BY <1>1 DEF Keeps

LEMMA SendsNextQuietly ==
  ASSUME LinkTypes, NEW left, sendNext(left)
  PROVE  \E M : Speech(M) /\ Silent(M)
<1>1. CASE PeerSends(<<>>)
  BY <1>1, SpeechOfNothing
<1>2. CASE PeerSends(<<Msg("Att", generation, 0)>>)
  BY <1>2, PeerNumbers, SpeechOfOne DEF CtlKinds
<1> QED BY <1>1, <1>2 DEF sendNext

(* A security request is answered by a pairing, if nothing is under way:   *)
(* with a bond it is.                                                      *)
LEMMA StartsQuietly ==
  ASSUME LinkTypes, PeerInv, start, generation # 0, UNCHANGED <<generation, bond>>
  PROVE  \E M : Speech(M) /\ Quietly(M)
<1>1. CASE UNCHANGED <<toCtl, pSock, smp>>
  BY <1>1, StaysQuietly DEF Quietly
<1>2. CASE smp = "Idle" /\ bond = 0 /\ pair
  <2>1. smp' = "Pairing" /\ PeerSends(<<Msg("Smp", generation, 0)>>)
    BY <1>2 DEF pair
  <2>2. Speech({Msg("Smp", generation, 0)}) /\ Silent({Msg("Smp", generation, 0)})
    BY <2>1, PeerNumbers, SpeechOfOne DEF CtlKinds
  <2> QED BY <1>2, <2>1, <2>2 DEF Quietly, Pairs
<1>3. smp = "Idle" => bond = 0
  BY DEF PeerInv, SecurityInv
<1> QED BY <1>1, <1>2, <1>3 DEF start

Turned(m) == \E M : Speech(M) /\ Turns(m, M)

LEMMA QuietTurn ==
  ASSUME NEW m, \E M : Speech(M) /\ (LeavesLink(M) \/ Keeps(M) \/ Quietly(M))
  PROVE  Turned(m)
BY DEF Turned, Turns, Quietly

LEMMA AttTurn ==
  ASSUME LinkTypes, PeerInv, NEW m, receiveAtt(m), generation # 0
  PROVE  Turned(m)
<1>1. CASE Fails
  BY <1>1, FailsQuietly, QuietTurn
<1>2. CASE start /\ UNCHANGED <<generation, bond>>
  BY <1>2, StartsQuietly, QuietTurn
<1>3. CASE (\E left : sendNext(left)) /\ UNCHANGED <<generation, smp, bond>>
  <2>1. PICK M : Speech(M) /\ Silent(M)
    BY <1>3, SendsNextQuietly
  <2> QED BY <1>3, <2>1, QuietTurn DEF Keeps
<1> QED BY <1>1, <1>2, <1>3 DEF receiveAtt, discoverNext

LEMMA SmpTurn ==
  ASSUME LinkTypes, PeerInv, NEW m \in PeerMsg, receiveSmp(m), generation # 0, m.gen = generation
  PROVE  Turned(m)
<1>1. CASE Fails
  BY <1>1, FailsQuietly, QuietTurn
<1>2. CASE start /\ UNCHANGED <<generation, bond>>
  BY <1>2, StartsQuietly, QuietTurn
<1>3. CASE m.kind = "Smp" /\ smp = "Pairing" /\ smp' = "Encrypting" /\ requestEncryption(generation, m.val)
           /\ UNCHANGED <<generation, bond>>
  <2>1. m.val = generation
    BY <1>3 DEF PeerMsg
  <2>2. PeerSends(<<Msg("Encrypt", generation, generation)>>)
    BY <1>3, <2>1 DEF requestEncryption
  <2>3. Speech({Msg("Encrypt", generation, generation)})
    BY <2>2, PeerNumbers, SpeechOfOne DEF CtlKinds
  <2> QED BY <1>3, <2>3 DEF Turned, Turns, AsksEncryption
<1> QED BY <1>1, <1>2, <1>3 DEF receiveSmp

LEMMA EncryptionTurn ==
  ASSUME LinkTypes, PeerInv, NEW m, encryptionChanged(m), generation # 0
  PROVE  Turned(m)
<1>1. CASE Fails
  BY <1>1, FailsQuietly, QuietTurn
<1>2. CASE m.kind = "Encryption" /\ m.val = 6 /\ smp = "Restoring" /\ bond' = 0 /\ pair /\ UNCHANGED generation
  <2>1. smp' = "Pairing" /\ PeerSends(<<Msg("Smp", generation, 0)>>)
    BY <1>2 DEF pair
  <2>2. Speech({Msg("Smp", generation, 0)}) /\ Silent({Msg("Smp", generation, 0)})
    BY <2>1, PeerNumbers, SpeechOfOne DEF CtlKinds
  <2> QED BY <1>2, <2>1, <2>2 DEF Turned, Turns, LosesBond
<1>3. CASE /\ m.kind = "Encryption" /\ m.val = 0 /\ smp \in {"Encrypting", "Restoring"}
           /\ bond' = IF smp = "Encrypting" THEN generation ELSE bond
           /\ smp' = "Encrypted" /\ UNCHANGED generation
           /\ UNCHANGED <<toCtl, pSock>> \/ sendNext(requests)
  <2>1. PICK M : Speech(M) /\ Silent(M)
    BY <1>3, SendsNextQuietly, SpeechOfNothing
  <2> QED BY <1>3, <2>1 DEF Turned, Turns, TurnsOn, Exchanging
<1> QED BY <1>1, <1>2, <1>3 DEF encryptionChanged

LEMMA ConnectedTurn ==
  ASSUME LinkTypes, PeerInv, NEW m \in PeerMsg, receiveConnected(m), generation = 0
  PROVE  Turned(m)
<1>0. m.gen \in Keys /\ smp = "Idle"
  BY DEF PeerMsg, PeerMsgs, Keys, PeerInv, SessionInv
<1>1. CASE PeerSends(<<Msg("Disconnect", m.gen, 0)>>) /\ UNCHANGED <<session, bond>>
  <2>1. Speech({Msg("Disconnect", m.gen, 0)}) /\ Silent({Msg("Disconnect", m.gen, 0)})
    BY <1>0, <1>1, PeerNumbers, SpeechOfOne DEF CtlKinds
  <2> QED BY <1>1, <2>1, QuietTurn DEF Keeps, session, attention
<1>2. CASE m.kind = "Connected" /\ generation' = m.gen /\ bond # 0 /\ smp' = "Restoring" /\ bond' = bond
           /\ requestEncryption(m.gen, bond)
  <2>1. Speech({Msg("Encrypt", m.gen, bond)})
    BY <1>0, <1>2, PeerNumbers, SpeechOfOne DEF CtlKinds, requestEncryption
  <2> QED BY <1>2, <2>1 DEF Turned, Turns, Greets
<1>3. CASE m.kind = "Connected" /\ generation' = m.gen /\ bond = 0 /\ smp' = smp /\ bond' = bond
           /\ PeerSends(<<Msg("Att", m.gen, 0)>>)
  <2>1. Speech({Msg("Att", m.gen, 0)}) /\ Silent({Msg("Att", m.gen, 0)})
    BY <1>0, <1>3, PeerNumbers, SpeechOfOne DEF CtlKinds
  <2> QED BY <1>0, <1>3, <2>1 DEF Turned, Turns, Greets
<1> QED BY <1>1, <1>2, <1>3 DEF receiveConnected

(* The handlers of receive().                                              *)
LEMMA ReceiveTurn ==
  ASSUME LinkTypes, PeerInv, NEW m \in PeerMsg, receive(m), Welcome(m)
  PROVE  Turned(m)
<1>1. CASE disconnect /\ bond' = bond
  BY <1>1, DropsQuietly, QuietTurn
<1>2. CASE UNCHANGED <<toCtl, pSock, session, bond>>
  BY <1>2, StaysQuietly, QuietTurn DEF session, attention
<1>3. CASE clearLink /\ UNCHANGED <<toCtl, pSock, bond>>
  <2>1. Speech({}) /\ Silent({}) /\ generation' = 0
    BY <1>3, SpeechOfNothing DEF clearLink
  <2> QED BY <1>3, <2>1, QuietTurn DEF LeavesLink
<1>4. CASE receiveCatalog(m) \/ advertisement(m) \/ receiveRejected(m)
  BY <1>1, <1>2, <1>4 DEF receiveCatalog, advertisement, receiveRejected, Fails
<1>5. CASE receiveReset(m)
  BY <1>3, <1>5 DEF receiveReset
<1>6. CASE receiveConnected(m)
  BY <1>6, ConnectedTurn DEF Welcome, receiveConnected
<1>7. CASE CurrentLink(m) /\ receiveAtt(m)
  BY <1>7, AttTurn DEF CurrentLink
<1>8. CASE CurrentLink(m) /\ receiveSmp(m)
  BY <1>8, SmpTurn DEF CurrentLink
<1>9. CASE CurrentLink(m) /\ encryptionChanged(m)
  BY <1>9, EncryptionTurn DEF CurrentLink
<1> QED BY <1>2, <1>3, <1>4, <1>5, <1>6, <1>7, <1>8, <1>9 DEF receive

(* The other steps of the peer read nothing; one of them takes a socket.   *)
LEMMA QuietSteps ==
  ASSUME LinkTypes, PeerInv, PeerStep, ~PollReceives, ~PollAccepts
  PROVE  \E M : Speech(M) /\ Quietly(M)
<1>1. CASE disconnect /\ bond' = bond
  BY <1>1, DropsQuietly DEF Quietly
<1>2. CASE UNCHANGED <<toCtl, pSock, generation, smp, bond>>
  BY <1>2, StaysQuietly DEF Quietly
<1>3. CASE clearLink /\ UNCHANGED <<toCtl, bond>> /\ pSock' = 0
  <2>1. Speech({}) /\ Silent({}) /\ generation' = 0
    BY <1>3, SpeechOfEnd DEF clearLink
  <2> QED BY <1>3, <2>1 DEF Quietly, LeavesLink
<1>4. CASE UNCHANGED <<toCtl, generation, smp, bond>> /\ pSock' = 0
  <2>1. Speech({}) /\ Silent({})
    BY <1>4, SpeechOfEnd
  <2> QED BY <1>4, <2>1 DEF Quietly, Keeps
<1>5. CASE connect /\ UNCHANGED <<generation, smp, bond>>
  <2>1. Speech({Msg("Connect", 0, 0)}) /\ Silent({Msg("Connect", 0, 0)})
    BY <1>5, PeerNumbers, SpeechOfOne DEF CtlKinds, connect
  <2> QED BY <1>5, <2>1 DEF Quietly, Keeps
<1>6. CASE (\E left : sendNext(left)) /\ UNCHANGED <<generation, smp, bond>>
  <2>1. PICK M : Speech(M) /\ Silent(M)
    BY <1>6, SendsNextQuietly
  <2> QED BY <1>6, <2>1 DEF Quietly, Keeps
<1>7. CASE PollEnds
  BY <1>2, <1>5, <1>7 DEF PollEnds, attention
<1>8. CASE PollTimesOut
  BY <1>1, <1>3, <1>8 DEF PollTimesOut, Fails
<1>9. CASE SetEnabled
  BY <1>1, <1>2, <1>9 DEF SetEnabled, session, attention
<1>10. CASE PeerReset
  BY <1>3, <1>10 DEF PeerReset
<1>11. CASE startSession
  BY <1>2, <1>11 DEF startSession, attention
<1>12. CASE ClientDisconnects
  BY <1>1, <1>12 DEF ClientDisconnects
<1>13. CASE request
  BY <1>2, <1>6, <1>13 DEF request
<1>14. CASE PollFindsEnd
  BY <1>4, <1>14 DEF PollFindsEnd, session, attention
<1> QED BY <1>7, <1>8, <1>9, <1>10, <1>11, <1>12, <1>13, <1>14 DEF PeerStep

-----------------------------------------------------------------------------
(* The peer's steps keep the invariant.                                    *)

(* What the invariant says of a message the peer reads that matters.       *)
News(m, r) ==
  /\ m.kind = "Encryption" /\ generation # 0 =>
       /\ Answers(r) = {}
       /\ smp = "Encrypting" /\ m.val = 0 => guestBond \in {0, generation}
       /\ conn # 0 /\ generation = conn => cEncrypted = (m.val = 0) /\ cKey = 0 /\ Asks(toCtl[pSock], conn) = {}
  /\ m.kind = "Connected" =>
       /\ Answers(r) = {} /\ generation = 0 /\ m.gen # 0
       /\ conn # 0 => cKey = 0 /\ ~cEncrypted /\ ~Refuses(toPeer[pSock], conn) /\ ~Mentions(toCtl[pSock], conn)

LEMMA ReadsNews ==
  ASSUME LinkInv, KeysInv, pSock # 0, toPeer[pSock] # <<>>
  PROVE  News(Head(toPeer[pSock]), Tail(toPeer[pSock])) /\ Rest(Tail(toPeer[pSock]), toPeer[pSock], 1)
<1> DEFINE q == toPeer[pSock]
           m == Head(q)
           r == Tail(q)
<1>1. q \in Seq(PeerMsg) /\ q # <<>>
  BY Places
<1>2. Rest(r, q, 1) /\ m = q[1] /\ 1 \in 1..Len(q)
  BY <1>1, RestOfTail
<1>3. ASSUME m.kind = "Encryption", generation # 0
      PROVE  /\ Answers(r) = {}
             /\ smp = "Encrypting" /\ m.val = 0 => guestBond \in {0, generation}
             /\ conn # 0 /\ generation = conn => cEncrypted = (m.val = 0) /\ cKey = 0 /\ Asks(toCtl[pSock], conn) = {}
  <2>1. 1 \in Answers(q)
    BY <1>2, <1>3 DEF Answers
  <2>2. \A j \in Answers(q) : 1 = j
    BY <1>3, <2>1 DEF KeysInv, AnswerInv
  <2>3. smp = "Encrypting" /\ m.val = 0 => guestBond \in {0, generation}
    BY <1>2, <1>3, <2>1 DEF KeysInv, AnswerInv
  <2>4. ASSUME NEW i \in Answers(r) PROVE FALSE
    <3>1. i \in 1..Len(r) /\ i + 1 \in Answers(q)
      BY <1>2, RestOf DEF Answers
    <3>2. i + 1 = 1
      BY <2>2, <3>1
    <3> QED BY <3>1, <3>2
  <2>5. ASSUME conn # 0, generation = conn
        PROVE  cEncrypted = (m.val = 0) /\ cKey = 0 /\ Asks(toCtl[pSock], conn) = {}
    <3>1. Shared
      BY <2>5 DEF Shared
    <3>2. cEncrypted = (m.val = 0)
      BY <1>2, <2>1, <3>1 DEF KeysInv, SharedInv
    <3>3. Answers(q) # {}
      BY <2>1
    <3>4. cKey = 0
      BY <3>1, <3>3 DEF KeysInv, SharedInv
    <3>5. Asks(toCtl[pSock], conn) = {}
      BY <3>1, <3>3 DEF KeysInv, AskInv
    <3> QED BY <3>2, <3>4, <3>5
  <2> QED BY <2>3, <2>4, <2>5
<1>4. ASSUME m.kind = "Connected"
      PROVE  /\ Answers(r) = {} /\ generation = 0 /\ m.gen # 0
             /\ conn # 0 => cKey = 0 /\ ~cEncrypted /\ ~Refuses(q, conn) /\ ~Mentions(toCtl[pSock], conn)
  <2>1. Answers(r) = {} /\ generation = 0 /\ m.gen # 0
    BY <1>1, <1>4, HeardNext
  <2>2. Unheard
    BY <1>2, <1>4 DEF Unheard, Announces
  <2> QED BY <2>1, <2>2 DEF KeysInv, UnheardInv
<1>5. News(m, r)
  BY <1>3, <1>4 DEF News
<1> QED BY <1>2, <1>5

(* Requests for encryption in the queue after the peer has spoken.         *)
LEMMA SaidAsks ==
  ASSUME NEW M, Said(M), NEW s \in Sockets, NEW g, NEW i \in Asks(toCtl'[s], g)
  PROVE  \/ i \in Asks(toCtl[s], g) /\ toCtl'[s][i] = toCtl[s][i]
         \/ /\ s = pSock /\ i = Len(toCtl[s]) + 1 /\ toCtl'[s][i] \in M
            /\ toCtl'[s][i].kind = "Encrypt" /\ toCtl'[s][i].gen = g
<1>1. i \in 1..Len(toCtl'[s]) /\ toCtl'[s][i].kind = "Encrypt" /\ toCtl'[s][i].gen = g
  BY DEF Asks
<1>2. \/ i \in 1..Len(toCtl[s]) /\ toCtl'[s][i] = toCtl[s][i]
      \/ s = pSock /\ i = Len(toCtl[s]) + 1 /\ toCtl'[s][i] \in M
  BY <1>1 DEF Said
<1> QED BY <1>1, <1>2 DEF Asks

LEMMA SilentAsks ==
  ASSUME NEW M, Said(M), Silent(M), NEW s \in Sockets, NEW g, NEW i \in Asks(toCtl'[s], g)
  PROVE  i \in Asks(toCtl[s], g) /\ toCtl'[s][i] = toCtl[s][i]
BY SaidAsks DEF Silent

(* A step of a peer that keeps its socket, reading m or nothing.           *)
Step(m, M, k) ==
  /\ pSock # 0 /\ pSock' = pSock /\ UNCHANGED <<wire, controller>>
  /\ Speech(M) /\ k \in {0, 1} /\ Rest(toPeer'[pSock], toPeer[pSock], k)
  /\ Quietly(M) \/ (Turns(m, M) /\ News(m, toPeer'[pSock]))

LEMMA AnswerGoesOn ==
  ASSUME LinkInv, KeysInv, NEW m, NEW M, NEW k, Step(m, M, k)
  PROVE  AnswerInv'
<1> DEFINE q == toPeer[pSock]
           r == toPeer'[pSock]
<1>1. /\ pSock # 0 /\ pSock' = pSock /\ guestBond' = guestBond /\ k \in {0, 1} /\ Rest(r, q, k)
      /\ Quietly(M) \/ (Turns(m, M) /\ News(m, r))
  BY DEF Step, controller, guest
<1>2. \A i \in Answers(r) : i \in Int /\ i + k \in Answers(q) /\ r[i].val = q[i + k].val
  BY <1>1, RestOf
<1> SUFFICES ASSUME generation' # 0, NEW i \in Answers(r)
             PROVE  /\ Exchanging'
                    /\ \A j \in Answers(r) : i = j
                    /\ smp' = "Encrypting" /\ r[i].val = 0 => guestBond' \in {0, generation'}
  BY <1>1 DEF AnswerInv
<1>3. generation # 0 => Exchanging
  BY <1>1, <1>2 DEF KeysInv, AnswerInv
<1>4. CASE Keeps(M)
  <2>1. generation' = generation /\ smp' = smp /\ Exchanging' = Exchanging
    BY <1>4 DEF Keeps, Exchanging
  <2>2. \A j \in Answers(r) : i = j
    <3>1. ASSUME NEW j \in Answers(r) PROVE i = j
      <4>1. i + k \in Answers(q) /\ j + k \in Answers(q) /\ i \in Int /\ j \in Int /\ k \in Int
        BY <1>1, <1>2
      <4>2. i + k = j + k
        BY <1>1, <2>1, <4>1 DEF KeysInv, AnswerInv
      <4> QED BY <4>1, <4>2
    <3> QED BY <3>1
  <2>3. smp = "Encrypting" /\ r[i].val = 0 => guestBond \in {0, generation}
    BY <1>1, <1>2, <2>1 DEF KeysInv, AnswerInv
  <2> QED BY <1>1, <1>3, <2>1, <2>2, <2>3
<1>5. CASE Pairs(M) \/ AsksEncryption(M)
  BY <1>3, <1>5 DEF Pairs, AsksEncryption, Exchanging
<1>6. CASE News(m, r) /\ (Greets(m, M) \/ LosesBond(m, M) \/ TurnsOn(m, M))
  BY <1>6 DEF News, Greets, LosesBond, TurnsOn
<1>7. ~LeavesLink(M)
  BY DEF LeavesLink
<1> QED BY <1>1, <1>4, <1>5, <1>6, <1>7 DEF Turns, Quietly

LEMMA AskGoesOn ==
  ASSUME LinkInv, KeysInv, NEW m, NEW M, NEW k, Step(m, M, k)
  PROVE  AskInv'
<1> DEFINE q == toPeer[pSock]
           r == toPeer'[pSock]
           c == toCtl[pSock]
           d == toCtl'[pSock]
<1>1. /\ pSock # 0 /\ pSock' = pSock /\ pSock \in Sockets
      /\ conn' = conn /\ cKey' = cKey /\ cEncrypted' = cEncrypted
      /\ Speech(M) /\ Said(M) /\ (Quietly(M) \/ (Turns(m, M) /\ News(m, r)))
  BY Places DEF Step, controller, security, Speech
<1>2. Answers(q) = {} => Answers(r) = {}
  BY RestOf DEF Step
<1> SUFFICES ASSUME conn # 0, generation' = conn, NEW i \in Asks(d, conn)
             PROVE  /\ cKey = 0 /\ ~cEncrypted /\ Exchanging' /\ Answers(r) = {}
                    /\ \A j \in Asks(d, conn) : i = j
                    /\ smp' = "Encrypting" => d[i].val = conn
  BY <1>1 DEF AskInv, Shared
<1>3. ASSUME Silent(M)
      PROVE  \A j \in Asks(d, conn) : j \in Asks(c, conn) /\ d[j] = c[j]
  BY <1>1, <1>3, SilentAsks
<1>4. CASE Keeps(M)
  <2>1. Shared /\ smp' = smp /\ Exchanging' = Exchanging
    BY <1>1, <1>4 DEF Keeps, Shared, Exchanging
  <2>2. \A j \in Asks(d, conn) : j \in Asks(c, conn) /\ d[j] = c[j]
    BY <1>3, <1>4 DEF Keeps
  <2>3. /\ cKey = 0 /\ ~cEncrypted /\ Exchanging /\ Answers(q) = {}
        /\ \A j \in Asks(c, conn) : i = j
        /\ smp = "Encrypting" => c[i].val = conn
    BY <2>1, <2>2 DEF KeysInv, AskInv
  <2> QED BY <1>2, <2>1, <2>2, <2>3
<1>5. CASE Pairs(M)
  <2>1. Shared /\ i \in Asks(c, conn) /\ ~Exchanging
    BY <1>1, <1>3, <1>5 DEF Pairs, Shared, Exchanging
  <2> QED BY <2>1 DEF KeysInv, AskInv
<1>6. CASE AsksEncryption(M)
  <2>1. Shared /\ ~Exchanging /\ smp = "Pairing" /\ smp' = "Encrypting" /\ M = {Msg("Encrypt", conn, conn)}
        /\ generation # 0
    BY <1>1, <1>6 DEF AsksEncryption, Shared, Exchanging
  <2>2. Asks(c, conn) = {}
    BY <2>1 DEF KeysInv, AskInv
  <2>3. \A j \in Asks(d, conn) : j = Len(c) + 1 /\ d[j] = Msg("Encrypt", conn, conn)
    BY <1>1, <2>1, <2>2, SaidAsks
  <2>4. cKey = 0 /\ ~cEncrypted
    BY <2>1 DEF KeysInv, SharedInv
  <2>5. Answers(q) = {}
    BY <1>1, <2>1 DEF KeysInv, AnswerInv
  <2>6. d[i].val = conn
    BY <2>3 DEF Msg
  <2>7. Exchanging'
    BY <2>1 DEF Exchanging
  <2> QED BY <1>2, <2>3, <2>4, <2>5, <2>6, <2>7
<1>7. CASE News(m, r) /\ Greets(m, M)
  <2>1. Answers(r) = {} /\ cKey = 0 /\ ~cEncrypted /\ ~Mentions(c, conn)
    BY <1>7 DEF News, Greets
  <2>2. Asks(c, conn) = {}
    BY <2>1 DEF Asks, Mentions
  <2>3. smp' = "Restoring" /\ M = {Msg("Encrypt", m.gen, bond)}
    BY <1>3, <1>7, <2>2 DEF Greets
  <2>4. \A j \in Asks(d, conn) : j = Len(c) + 1
    BY <1>1, <2>2, SaidAsks, SMTT(40)
  <2>5. Exchanging' /\ smp' # "Encrypting"
    BY <2>3 DEF Exchanging
  <2> QED BY <2>1, <2>4, <2>5
<1>8. CASE News(m, r) /\ (LosesBond(m, M) \/ TurnsOn(m, M))
  <2>1. Silent(M) /\ generation = conn /\ m.kind = "Encryption"
    BY <1>8 DEF LosesBond, TurnsOn
  <2>2. Asks(c, conn) = {}
    BY <1>8, <2>1 DEF News
  <2> QED BY <1>3, <2>1, <2>2
<1>9. ~LeavesLink(M)
  BY DEF LeavesLink
<1> QED BY <1>1, <1>4, <1>5, <1>6, <1>7, <1>8, <1>9 DEF Turns, Quietly

LEMMA SharedGoesOn ==
  ASSUME LinkInv, KeysInv, NEW m, NEW M, NEW k, Step(m, M, k)
  PROVE  SharedInv'
<1> DEFINE q == toPeer[pSock]
           r == toPeer'[pSock]
<1>1. /\ pSock # 0 /\ pSock' = pSock /\ conn' = conn /\ cKey' = cKey /\ cEncrypted' = cEncrypted
      /\ k \in {0, 1} /\ Rest(r, q, k) /\ (Quietly(M) \/ (Turns(m, M) /\ News(m, r)))
  BY DEF Step, controller, security
<1>2. /\ \A i \in Answers(r) : i + k \in Answers(q) /\ r[i].val = q[i + k].val
      /\ Refuses(r, conn) => Refuses(q, conn)
  BY <1>1, RestOf
<1> SUFFICES ASSUME conn # 0, generation' = conn
             PROVE  /\ ~Refuses(r, conn)
                    /\ \A i \in Answers(r) : cEncrypted = (r[i].val = 0)
                    /\ cKey # 0 => Exchanging' /\ Answers(r) = {} /\ (smp' = "Encrypting" => cKey = conn)
                    /\ smp' \in {"Idle", "Pairing"} => ~cEncrypted
                    /\ smp' = "Encrypted" => cEncrypted
  BY <1>1 DEF SharedInv, Shared
<1>3. ASSUME Shared
      PROVE  /\ ~Refuses(r, conn)
             /\ \A i \in Answers(r) : cEncrypted = (r[i].val = 0)
             /\ cKey # 0 => Exchanging /\ Answers(r) = {} /\ (smp = "Encrypting" => cKey = conn)
             /\ smp \in {"Idle", "Pairing"} => ~cEncrypted
             /\ smp = "Encrypted" => cEncrypted
  <2>1. /\ ~Refuses(q, conn)
        /\ \A i \in Answers(q) : cEncrypted = (q[i].val = 0)
        /\ cKey # 0 => Exchanging /\ Answers(q) = {} /\ (smp = "Encrypting" => cKey = conn)
        /\ smp \in {"Idle", "Pairing"} => ~cEncrypted
        /\ smp = "Encrypted" => cEncrypted
    BY <1>3 DEF KeysInv, SharedInv
  <2>2. \A i \in Answers(r) : cEncrypted = (r[i].val = 0)
    BY <1>2, <2>1
  <2>3. Answers(q) = {} => Answers(r) = {}
    BY <1>2
  <2> QED BY <1>2, <2>1, <2>2, <2>3
<1>4. CASE Keeps(M)
  BY <1>1, <1>3, <1>4 DEF Keeps, Shared, Exchanging
<1>5. CASE Pairs(M)
  BY <1>1, <1>3, <1>5 DEF Pairs, Shared, Exchanging
<1>6. CASE AsksEncryption(M)
  BY <1>1, <1>3, <1>6 DEF AsksEncryption, Shared, Exchanging
<1>7. CASE News(m, r) /\ Greets(m, M)
  <2>1. Answers(r) = {} /\ cKey = 0 /\ ~cEncrypted /\ ~Refuses(q, conn)
    BY <1>7 DEF News, Greets
  <2>2. smp' # "Encrypted"
    BY <1>7 DEF Greets
  <2> QED BY <1>2, <2>1, <2>2
<1>8. CASE News(m, r) /\ LosesBond(m, M)
  <2>1. Shared /\ Answers(r) = {} /\ cKey = 0 /\ smp' = "Pairing"
    BY <1>1, <1>8 DEF News, LosesBond, Shared
  <2>2. m.val = 6 /\ m.kind = "Encryption" /\ generation = conn
    BY <1>8 DEF LosesBond
  <2>3. generation # 0 /\ m.val # 0
    BY <1>8, <2>2 DEF LosesBond
  <2>4. cEncrypted = (m.val = 0)
    BY <1>8, <2>2, <2>3 DEF News
  <2>5. ~cEncrypted
    BY ONLY <2>3, <2>4
  <2> QED BY <1>3, <2>1, <2>5
<1>9. CASE News(m, r) /\ TurnsOn(m, M)
  <2>1. Shared /\ Answers(r) = {} /\ cKey = 0 /\ smp' = "Encrypted"
    BY <1>1, <1>9 DEF News, TurnsOn, Shared
  <2>2. m.val = 0 /\ m.kind = "Encryption" /\ generation = conn
    BY <1>9 DEF TurnsOn
  <2>3. cEncrypted
    BY <1>9, <2>2 DEF News
  <2> QED BY <1>3, <2>1, <2>3
<1>10. ~LeavesLink(M)
  BY DEF LeavesLink
<1> QED BY <1>1, <1>4, <1>5, <1>6, <1>7, <1>8, <1>9, <1>10 DEF Turns, Quietly

(* The keys, whether the peer keeps its socket or not.                     *)
SpeechHeard(M) ==
  /\ conn' = conn /\ cKey' = cKey /\ cSock' = cSock /\ guestBond' = guestBond /\ Said(M)
  /\ cSock \in Sockets \cup {0} /\ pSock \in Sockets
  /\ (conn # 0 => cSock \in {0, pSock})
  /\ \A x \in M : x.kind = "Connect" => x.gen = 0
  /\ (conn = 0 => cKey = 0)

LEMMA SpeechHolds ==
  ASSUME LinkInv, pSock # 0, UNCHANGED <<wire, controller>>, NEW M, Speech(M)
  PROVE  SpeechHeard(M)
<1>1. cSock \in Sockets \cup {0} /\ pSock \in Sockets /\ CtlInv /\ (conn # 0 => cSock \in {0, opened} /\ pSock = opened)
  BY Places
<1> QED BY <1>1 DEF controller, security, guest, Speech, CtlInv, SpeechHeard

(* A peer that keeps its bond or gives it up, and asks for encryption with *)
(* no other key.                                                           *)
LEMMA BondKept ==
  ASSUME KeysInv, NEW M, SpeechHeard(M), bond' \in {0, bond},
         \A x \in M : x.kind = "Encrypt" => bond' \in {0, x.val}
  PROVE  BondInv'
<1>1. /\ conn' = conn /\ cKey' = cKey /\ cSock' = cSock /\ guestBond' = guestBond /\ Said(M)
      /\ cSock \in Sockets \cup {0}
  BY DEF SpeechHeard
<1>2. /\ BondsMatch /\ (cKey # 0 => bond \in {0, cKey})
      /\ (conn # 0 /\ cSock # 0 => \A i \in Asks(toCtl[cSock], conn) : bond \in {0, toCtl[cSock][i].val})
  BY DEF KeysInv, BondInv
<1>3. BondsMatch'
  BY <1>1, <1>2 DEF BondsMatch
<1>4. cKey' # 0 => bond' \in {0, cKey'}
  BY <1>1, <1>2
<1>5. ASSUME conn # 0, cSock # 0, NEW i \in Asks(toCtl'[cSock], conn)
      PROVE  bond' \in {0, toCtl'[cSock][i].val}
  <2>0. cSock \in Sockets
    BY <1>1, <1>5
  <2>1. CASE i \in Asks(toCtl[cSock], conn) /\ toCtl'[cSock][i] = toCtl[cSock][i]
    <3>1. bond \in {0, toCtl[cSock][i].val}
      BY <1>2, <1>5, <2>1
    <3> QED BY <2>1, <3>1
  <2>2. CASE toCtl'[cSock][i] \in M /\ toCtl'[cSock][i].kind = "Encrypt"
    BY <2>2
  <2> QED BY <1>1, <1>5, <2>0, <2>1, <2>2, SaidAsks
<1> QED BY <1>1, <1>3, <1>4, <1>5 DEF BondInv

LEMMA BondGoesOn ==
  ASSUME LinkInv, KeysInv, pSock # 0, UNCHANGED <<wire, controller>>, NEW m, NEW M, NEW r, Speech(M),
         Quietly(M) \/ (Turns(m, M) /\ News(m, r))
  PROVE  BondInv' /\ ConnectInv'
<1>0. SpeechHeard(M)
  BY SpeechHolds
<1>1. /\ conn' = conn /\ cKey' = cKey /\ cSock' = cSock /\ guestBond' = guestBond /\ Said(M)
      /\ cSock \in Sockets \cup {0} /\ pSock \in Sockets
      /\ (conn # 0 => cSock \in {0, pSock})
      /\ \A x \in M : x.kind = "Connect" => x.gen = 0
      /\ (conn = 0 => cKey = 0)
  BY <1>0 DEF SpeechHeard
<1>2. ConnectInv'
  BY <1>1 DEF KeysInv, ConnectInv, Said
<1> SUFFICES BondInv'
  BY <1>2
<1>5. CASE Quietly(M)
  <2>1. bond' \in {0, bond} /\ \A x \in M : x.kind = "Encrypt" => bond' \in {0, x.val}
    BY <1>5 DEF Quietly, LeavesLink, Keeps, Pairs, Silent
  <2> QED BY <1>0, <2>1, BondKept
<1>6. CASE AsksEncryption(M)
  <2>0. PeerInv /\ smp = "Pairing" /\ bond' = bond
    BY <1>6, Places DEF AsksEncryption
  <2>1. bond = 0
    BY <2>0 DEF PeerInv, SecurityInv
  <2>2. bond' \in {0, bond} /\ \A x \in M : x.kind = "Encrypt" => bond' \in {0, x.val}
    BY <2>0, <2>1
  <2> QED BY <1>0, <2>2, BondKept
<1>7. CASE Greets(m, M)
  <2>1. bond' = bond /\ (M = {Msg("Encrypt", m.gen, bond)} \/ Silent(M))
    BY <1>7 DEF Greets
  <2>2. bond' \in {0, bond} /\ \A x \in M : x.kind = "Encrypt" => bond' \in {0, x.val}
    BY <2>1 DEF Silent, Msg
  <2> QED BY <1>0, <2>2, BondKept
<1>8. CASE LosesBond(m, M)
  <2>1. bond' \in {0, bond} /\ \A x \in M : x.kind = "Encrypt" => bond' \in {0, x.val}
    BY <1>8 DEF LosesBond
  <2> QED BY <1>0, <2>1, BondKept
<1>9. CASE News(m, r) /\ TurnsOn(m, M)
  <2>1. CASE bond' = bond
    <3>1. bond' \in {0, bond} /\ \A x \in M : x.kind = "Encrypt" => bond' \in {0, x.val}
      BY <1>9, <2>1 DEF TurnsOn, Silent
    <3> QED BY <1>0, <3>1, BondKept
  <2>2. CASE smp = "Encrypting" /\ bond' = generation
    <3>1. guestBond \in {0, generation}
      BY <1>9, <2>2 DEF News, TurnsOn
    <3>2. BondsMatch'
      BY <1>1, <2>2, <3>1 DEF BondsMatch
    <3>3. conn # 0 => cKey = 0 /\ Asks(toCtl[pSock], conn) = {}
      <4>1. ASSUME conn # 0, generation # conn PROVE cKey = 0 /\ Asks(toCtl[pSock], conn) = {}
        <5>1. Unheard
          BY <1>9, <4>1 DEF TurnsOn, Unheard
        <5>2. cKey = 0 /\ ~Mentions(toCtl[pSock], conn)
          BY <4>1, <5>1 DEF KeysInv, UnheardInv
        <5> QED BY <5>2 DEF Mentions, Asks
      <4>2. ASSUME conn # 0, generation = conn PROVE cKey = 0 /\ Asks(toCtl[pSock], conn) = {}
        BY <1>9, <4>2 DEF News, TurnsOn
      <4> QED BY <4>1, <4>2
    <3>4. Silent(M)
      BY <1>9 DEF TurnsOn
    <3>5. ASSUME conn # 0, cSock # 0, NEW i \in Asks(toCtl'[cSock], conn) PROVE FALSE
      BY <1>1, <3>3, <3>4, <3>5, SilentAsks
    <3>6. cKey' = 0
      BY <1>1, <3>3
    <3> QED BY <1>1, <3>2, <3>5, <3>6 DEF BondInv
  <2> QED BY <1>9, <2>1, <2>2 DEF TurnsOn
<1> QED BY <1>5, <1>6, <1>7, <1>8, <1>9 DEF Turns

(* What the peer says of a link that it has not come to.                   *)
LEMMA UnheardGoesOn ==
  ASSUME LinkInv, KeysInv, pSock # 0, pSock' = pSock, UNCHANGED <<wire, controller>>,
         NEW told, NEW c, NEW M, Tells(told, c, M), LinkStart(told),
         NEW k \in {0, 1}, Rest(toPeer'[pSock], toPeer[pSock], k),
         conn # 0 /\ Announces(toPeer[pSock]) => told # conn,
         conn # 0 /\ Announces(toPeer'[pSock]) => c # conn,
         generation' \in {0, generation} \/ Announces(toPeer[pSock])
  PROVE  UnheardInv'
<1>1. conn' = conn /\ cKey' = cKey /\ cEncrypted' = cEncrypted /\ pSock \in Sockets
  BY Places DEF controller, security
<1> SUFFICES ASSUME conn # 0, generation' \notin {0, conn} \/ Announces(toPeer'[pSock])
             PROVE  cKey = 0 /\ ~cEncrypted /\ ~Refuses(toPeer'[pSock], conn) /\ ~Mentions(toCtl'[pSock], conn)
  BY <1>1 DEF UnheardInv, Unheard
<1>2. Announces(toPeer'[pSock]) => Announces(toPeer[pSock])
  BY RestOf
<1>3. generation # 0 => told = generation
  BY DEF LinkStart
<1>4. generation' # 0 => generation' = c
  BY DEF Tells
<1>5. c # conn
  BY <1>4
<1>6. Unheard /\ told # conn
  <2>1. CASE Announces(toPeer[pSock])
    BY <2>1 DEF Unheard
  <2>2. CASE ~Announces(toPeer[pSock])
    <3>1. generation' = generation /\ generation \notin {0, conn}
      BY <1>2, <2>2
    <3> QED BY <1>3, <3>1 DEF Unheard
  <2> QED BY <2>1, <2>2
<1>7. cKey = 0 /\ ~cEncrypted /\ ~Refuses(toPeer[pSock], conn) /\ ~Mentions(toCtl[pSock], conn)
  BY <1>6 DEF KeysInv, UnheardInv
<1>8. ~Refuses(toPeer'[pSock], conn)
  BY <1>7, RestOf
<1>9. ASSUME NEW i \in 1..Len(toCtl'[pSock]), toCtl'[pSock][i].gen = conn PROVE FALSE
  <2>1. \A x \in M : x.gen # conn
    BY <1>5, <1>6 DEF Tells
  <2>2. ~(i \in 1..Len(toCtl[pSock]) /\ toCtl'[pSock][i] = toCtl[pSock][i])
    BY <1>7, <1>9 DEF Mentions
  <2>3. toCtl'[pSock][i] \in M
    BY <1>1, <2>2 DEF Tells, Said
  <2> QED BY <1>9, <2>1, <2>3
<1> QED BY <1>7, <1>8, <1>9 DEF Mentions

(* The facts of a story that UnheardGoesOn asks for.                       *)
LEMMA AnnouncedLater ==
  ASSUME NEW q \in Seq(PeerMsg), NEW last \in Nat, NEW told, NEW data, Tale(q, last, told, data), Announces(q)
  PROVE  told # last
<1>1. PICK i \in 1..Len(q) : q[i].kind = "Connected"
  BY DEF Announces
<1>2. q[i].gen > told /\ q[i].gen <= last /\ told \in 0..last
  BY <1>1, TaleFacts
<1>3. q[i].gen \in Nat
  <2>1. q[i] \in PeerMsg
    OBVIOUS
  <2> QED BY <2>1, Bounds DEF PeerMsg, PeerMsgs
<1> QED BY <1>2, <1>3


LEMMA UnheardReads ==
  ASSUME LinkInv, KeysInv, PollReceives, pSock' = pSock, Turned(Head(toPeer[pSock]))
  PROVE  UnheardInv'
<1> DEFINE q == toPeer[pSock]
           m == Head(q)
           r == toPeer'[pSock]
<1>0. /\ pSock # 0 /\ UNCHANGED <<wire, controller>> /\ receive(m) /\ nextGeneration' = nextGeneration
      /\ conn' = conn
  BY DEF PollReceives, controller, radio
<1>1. /\ q \in Seq(PeerMsg) /\ q # <<>> /\ pSock \in Sockets /\ nextGeneration \in Nat
      /\ (conn # 0 => conn = nextGeneration)
  BY <1>0, Places DEF PollReceives
<1>2. r = Tail(q) /\ Tail(q) \in Seq(PeerMsg) /\ m \in PeerMsg
  <2>1. toPeer \in [Sockets -> Seq(PeerMsg)]
    BY DEF LinkInv, LinkTypes, QueueTypes
  <2> QED BY <1>1, <2>1 DEF PollReceives
<1>3. Rest(r, q, 1) /\ 1 \in 1..Len(q) /\ m = q[1]
  BY <1>1, <1>2, RestOfTail
<1>4. PICK told, data, c, y : ReadsOn(told, data, c, y)
  BY ReadsTold
<1>5. /\ LinkStart(told) /\ DataStart(data) /\ Moves(told, data, m, c, y)
      /\ SocketStory(pSock, told, data)
      /\ \A s \in Sockets : s = pSock => SocketStory(s, c, y)'
  BY <1>4 DEF ReadsOn
<1>6. Outcome(told, c, y)
  <2>1. Handles
    BY ReadsHandles
  <2>2. generation # 0 => told = generation
    BY <1>5 DEF LinkStart
  <2> QED BY <1>0, <1>2, <1>5, <2>1, <2>2, ReceiveOutcome
<1>7. PICK M : Tells(told, c, M)
  BY <1>6 DEF Outcome
<1>8. conn # 0 /\ Announces(q) => told # conn
  <2>1. Tale(q, nextGeneration, told, data)
    BY <1>5 DEF SocketStory
  <2> QED BY <1>1, <2>1, AnnouncedLater
<1>9. conn # 0 /\ Announces(r) => c # conn
  <2>1. PICK s \in Sockets : s = pSock
    BY <1>1
  <2>2. SocketStory(s, c, y)'
    BY <1>5, <2>1
  <2>3. Tale(toPeer'[s], nextGeneration', c, y)
    BY <2>2 DEF SocketStory
  <2>4. Tale(r, nextGeneration, c, y)
    BY <1>0, <2>1, <2>3
  <2> QED BY <1>1, <1>2, <2>4, AnnouncedLater
<1>10. generation' \in {0, generation} \/ Announces(q)
  <2>1. PICK N : Turns(m, N)
    BY DEF Turned
  <2>2. generation' \in {0, generation} \/ m.kind = "Connected"
    BY <2>1 DEF Turns, Quietly, LeavesLink, Keeps, Pairs, AsksEncryption, Greets, LosesBond, TurnsOn
  <2> QED BY <1>3, <2>2 DEF Announces
<1>11. 1 \in {0, 1}
  OBVIOUS
<1> QED BY <1>0, <1>3, <1>5, <1>7, <1>8, <1>9, <1>10, <1>11, UnheardGoesOn

(* A step that reads nothing.                                              *)
LEMMA UnheardStays ==
  ASSUME LinkInv, KeysInv, UNCHANGED <<wire, toPeer, controller>>, pSock # 0, pSock' = pSock,
         generation' \in {0, generation},
         \A told, data : (generation # 0 => told = generation) /\ DataStart(data) => Outcome(told, told, data)
  PROVE  UnheardInv'
<1> DEFINE q == toPeer[pSock]
<1>1. /\ q \in Seq(PeerMsg) /\ pSock \in Sockets /\ nextGeneration \in Nat
      /\ (conn # 0 => conn = nextGeneration)
  BY Places
<1>2. PICK told, data : SocketStory(pSock, told, data) /\ LinkStart(told) /\ DataStart(data)
  BY <1>1 DEF LinkInv, SocketInv
<1>3. Outcome(told, told, data)
  <2>1. generation # 0 => told = generation
    BY <1>2 DEF LinkStart
  <2> QED BY <1>2, <2>1
<1>4. PICK M : Tells(told, told, M)
  BY <1>3 DEF Outcome
<1>5. conn # 0 /\ Announces(q) => told # conn
  <2>1. Tale(q, nextGeneration, told, data)
    BY <1>2 DEF SocketStory
  <2> QED BY <1>1, <2>1, AnnouncedLater
<1>6. toPeer'[pSock] = q /\ 0 \in {0, 1}
  OBVIOUS
<1>7. Rest(toPeer'[pSock], q, 0)
  BY <1>1, <1>6, RestOfSame
<1>8. conn # 0 /\ Announces(toPeer'[pSock]) => told # conn
  BY <1>5, <1>6
<1>9. UNCHANGED <<wire, controller>>
  OBVIOUS
<1>10. generation' \in {0, generation} \/ Announces(q)
  OBVIOUS
<1> QED BY <1>2, <1>4, <1>5, <1>6, <1>7, <1>8, <1>9, <1>10, UnheardGoesOn

(* Without a socket the peer knows nothing of the controller.              *)
LinkKeys == AnswerInv /\ UnheardInv /\ AskInv /\ SharedInv

LEMMA NoSocketKeys == ASSUME pSock' = 0 PROVE LinkKeys'
BY DEF LinkKeys, AnswerInv, UnheardInv, AskInv, SharedInv, Shared

(* What is not touched stays.                                              *)
LEMMA BondStays ==
  ASSUME LinkInv, KeysInv, UNCHANGED controller, bond' = bond,
         \A s \in Sockets : \A i \in 1..Len(toCtl'[s]) : i \in 1..Len(toCtl[s]) /\ toCtl'[s][i] = toCtl[s][i]
  PROVE  BondInv' /\ ConnectInv'
<1>1. /\ conn' = conn /\ cKey' = cKey /\ cSock' = cSock /\ guestBond' = guestBond
      /\ cSock \in Sockets \cup {0}
  BY Places DEF controller, security, guest
<1>2. ConnectInv'
  BY DEF KeysInv, ConnectInv
<1>3. BondsMatch' /\ (cKey' # 0 => bond' \in {0, cKey'})
  BY <1>1 DEF KeysInv, BondInv, BondsMatch
<1>4. ASSUME conn # 0, cSock # 0, NEW i \in Asks(toCtl'[cSock], conn)
      PROVE  bond' \in {0, toCtl'[cSock][i].val}
  <2>1. i \in Asks(toCtl[cSock], conn) /\ toCtl'[cSock][i] = toCtl[cSock][i]
    BY <1>1, <1>4 DEF Asks
  <2>2. bond \in {0, toCtl[cSock][i].val}
    BY <1>4, <2>1 DEF KeysInv, BondInv
  <2> QED BY <2>1, <2>2
<1> QED BY <1>1, <1>2, <1>3, <1>4 DEF BondInv

LEMMA StepGoesOn ==
  ASSUME LinkInv, KeysInv, NEW m, NEW M, NEW k, Step(m, M, k), UnheardInv'
  PROVE  KeysInv'
<1>1. AnswerInv' /\ AskInv' /\ SharedInv'
  BY AnswerGoesOn, AskGoesOn, SharedGoesOn
<1>2. /\ pSock # 0 /\ UNCHANGED <<wire, controller>> /\ Speech(M)
      /\ Quietly(M) \/ (Turns(m, M) /\ News(m, toPeer'[pSock]))
  BY DEF Step
<1>3. BondInv' /\ ConnectInv'
  BY <1>2, BondGoesOn
<1> QED BY <1>1, <1>3 DEF KeysInv

LEMMA PollReceivesKeys == ASSUME LinkInv, KeysInv, PollReceives PROVE KeysInv'
<1> DEFINE q == toPeer[pSock]
           m == Head(q)
<1>0. pSock # 0 /\ q # <<>> /\ UNCHANGED <<wire, controller>> /\ receive(m) /\ LinkTypes /\ PeerInv
  BY DEF PollReceives, LinkInv
<1>1. q \in Seq(PeerMsg) /\ pSock \in Sockets
  BY <1>0, Places
<1>2. toPeer'[pSock] = Tail(q) /\ m \in PeerMsg
  <2>1. toPeer \in [Sockets -> Seq(PeerMsg)]
    BY <1>0 DEF LinkTypes, QueueTypes
  <2> QED BY <1>0, <1>1, <2>1 DEF PollReceives
<1>3. Turned(m)
  <2>1. Welcome(m)
    BY ReadsWelcome
  <2> QED BY <1>0, <1>2, <2>1, ReceiveTurn
<1>4. PICK M : Speech(M) /\ Turns(m, M)
  BY <1>3 DEF Turned
<1>5. News(m, toPeer'[pSock]) /\ Rest(toPeer'[pSock], q, 1)
  BY <1>0, <1>2, ReadsNews
<1>6. pSock' \in {0, pSock}
  BY <1>4 DEF Speech, Said
<1>7. CASE pSock' = 0
  <2>1. Quietly(M) \/ (Turns(m, M) /\ News(m, toPeer'[pSock]))
    BY <1>4, <1>5
  <2>2. BondInv' /\ ConnectInv'
    BY <1>0, <1>4, <2>1, BondGoesOn
  <2> QED BY <1>7, <2>2, NoSocketKeys DEF KeysInv, LinkKeys
<1>8. CASE pSock' = pSock
  <2>1. UnheardInv'
    BY <1>3, <1>8, UnheardReads
  <2>2. Step(m, M, 1)
    BY <1>0, <1>4, <1>5, <1>8 DEF Step
  <2> QED BY <2>1, <2>2, StepGoesOn
<1> QED BY <1>6, <1>7, <1>8

LEMMA PollAcceptsKeys == ASSUME LinkInv, KeysInv, PollAccepts PROVE KeysInv'
<1>1. /\ UNCHANGED <<opened, toCtl, controller>> /\ bond' = bond /\ pSock = 0 /\ conn' = conn
      /\ (pSock' = 0 \/ acceptedSockets < opened)
  BY DEF PollAccepts, controller
<1>2. LinkTypes /\ PeerInv /\ toCtl \in [Sockets -> Seq(CtlMsgs)] /\ WireInv /\ opened \in Nat /\ acceptedSockets \in Nat
  BY Numbers, Bounds DEF LinkInv, LinkTypes, QueueTypes
<1>3. BondInv' /\ ConnectInv'
  BY <1>1, BondStays
<1>4. generation' = 0
  BY <1>2 DEF PollAccepts, clearLink, PeerInv, SessionInv, session
<1>5. CASE pSock' = 0
  BY <1>3, <1>5, NoSocketKeys DEF KeysInv, LinkKeys
<1>6. CASE acceptedSockets < opened
  <2>1. conn' = 0
    BY <1>1, <1>2, <1>6 DEF WireInv
  <2>2. LinkKeys'
    BY <1>4, <2>1 DEF LinkKeys, AnswerInv, UnheardInv, AskInv, SharedInv, Shared
  <2> QED BY <1>3, <2>2 DEF KeysInv, LinkKeys
<1> QED BY <1>1, <1>5, <1>6

(* What the peer makes of a step in which it reads nothing.                *)
LEMMA QuietWire ==
  ASSUME LinkInv, PeerStep, ~PollReceives, ~PollAccepts
  PROVE  /\ UNCHANGED <<wire, controller>>
         /\ pSock' # 0 => UNCHANGED toPeer
         /\ pSock' # 0 =>
              \A told, data : (generation # 0 => told = generation) /\ DataStart(data) => Outcome(told, told, data)
<1>0. LinkTypes /\ PeerInv
  BY DEF LinkInv
<1>1. UNCHANGED <<wire, controller>>
  BY DEF PeerStep, PollFindsEnd, PollEnds, PollTimesOut, SetEnabled, PeerReset, startSession, ClientDisconnects, request
<1>2. ASSUME pSock' # 0
      PROVE  /\ UNCHANGED toPeer
             /\ \/ PollEnds
                \/ disconnect /\ catalog' = catalog
                \/ Fails
                \/ startSession
                \/ request
                \/ UNCHANGED <<toCtl, pSock, session, closes, catalog>>
  BY <1>2 DEF PeerStep, PollFindsEnd, PollEnds, PollTimesOut, SetEnabled, PeerReset, startSession, ClientDisconnects,
              request, publication
<1>3. ASSUME pSock' # 0, NEW told, NEW data, generation # 0 => told = generation, DataStart(data)
      PROVE  Outcome(told, told, data)
  BY <1>0, <1>2, <1>3, QuietOutcomes
<1> QED BY <1>1, <1>2, <1>3

LEMMA QuietKeys == ASSUME LinkInv, KeysInv, PeerStep, ~PollReceives, ~PollAccepts PROVE KeysInv'
<1>0. LinkTypes /\ PeerInv /\ UNCHANGED <<wire, controller>>
  BY QuietWire DEF LinkInv
<1>1. PICK M : Speech(M) /\ Quietly(M)
  BY <1>0, QuietSteps
<1>2. pSock' \in {0, pSock} /\ Said(M) /\ bond' = bond /\ generation' \in {0, generation}
  BY <1>1 DEF Speech, Said, Quietly, LeavesLink, Keeps, Pairs
<1>3. CASE pSock = 0
  <2>1. \A s \in Sockets : \A i \in 1..Len(toCtl'[s]) : i \in 1..Len(toCtl[s]) /\ toCtl'[s][i] = toCtl[s][i]
    BY <1>2, <1>3 DEF Said, Sockets
  <2>2. BondInv' /\ ConnectInv'
    BY <1>0, <1>2, <2>1, BondStays
  <2>3. pSock' = 0
    BY <1>2, <1>3
  <2> QED BY <2>2, <2>3, NoSocketKeys DEF KeysInv, LinkKeys
<1>4. CASE pSock # 0 /\ pSock' = 0
  <2>1. Quietly(M) \/ (Turns(0, M) /\ News(0, <<>>))
    BY <1>1
  <2>2. BondInv' /\ ConnectInv'
    BY <1>0, <1>1, <1>4, <2>1, BondGoesOn
  <2> QED BY <1>4, <2>2, NoSocketKeys DEF KeysInv, LinkKeys
<1>5. CASE pSock # 0 /\ pSock' = pSock
  <2>1. UNCHANGED toPeer
        /\ \A told, data : (generation # 0 => told = generation) /\ DataStart(data) => Outcome(told, told, data)
    BY <1>5, QuietWire
  <2>2. UnheardInv'
    BY <1>0, <1>2, <1>5, <2>1, UnheardStays
  <2>3. toPeer[pSock] \in Seq(PeerMsg) /\ toPeer'[pSock] = toPeer[pSock]
    BY <1>5, <2>1, Places
  <2>4. Rest(toPeer'[pSock], toPeer[pSock], 0)
    BY <2>3, RestOfSame
  <2>5. Step(0, M, 0)
    BY <1>0, <1>1, <1>5, <2>4 DEF Step
  <2> QED BY <2>2, <2>5, StepGoesOn
<1> QED BY <1>2, <1>3, <1>4, <1>5

LEMMA PeerStepKeys == ASSUME LinkInv, KeysInv, PeerStep PROVE KeysInv'
BY PollReceivesKeys, PollAcceptsKeys, QuietKeys

-----------------------------------------------------------------------------
(* Steps of the controller.                                                *)

PeerStays == UNCHANGED <<pSock, generation, smp, bond>>

(* What the controller's step adds to what the peer has to read, of the    *)
(* messages it sends: at the end of the queue, and only of its own socket. *)
Adds(msgs) ==
  pSock # 0 =>
    \A i \in 1..Len(toPeer'[pSock]) :
      \/ i \in 1..Len(toPeer[pSock]) /\ toPeer'[pSock][i] = toPeer[pSock][i]
      \/ \E j \in 1..Len(msgs) : i = Len(toPeer[pSock]) + j /\ toPeer'[pSock][i] = msgs[j]

AddsNo(msgs, kinds) == \A j \in 1..Len(msgs) : msgs[j].kind \notin kinds

LEMMA CtlAdds ==
  ASSUME LinkTypes, NEW msgs \in Seq(PeerMsg), CtlSends(msgs)
  PROVE  Adds(msgs)
<1> SUFFICES ASSUME pSock # 0, NEW i \in 1..Len(toPeer'[pSock])
             PROVE  \/ i \in 1..Len(toPeer[pSock]) /\ toPeer'[pSock][i] = toPeer[pSock][i]
                    \/ \E j \in 1..Len(msgs) : i = Len(toPeer[pSock]) + j /\ toPeer'[pSock][i] = msgs[j]
  BY DEF Adds
<1> DEFINE q == toPeer[pSock]
<1>1. toPeer \in [Sockets -> Seq(PeerMsg)] /\ pSock \in Sockets
  BY Numbers DEF LinkTypes, QueueTypes
<1>2. /\ Sent(toPeer, cSock, PeerHears, msgs, <<toPeer', cSock'>>)
      /\ (pSock # cSock => toPeer'[pSock] = q)
  BY <1>1, CtlSent
<1>3. q \in Seq(PeerMsg) /\ Len(q) \in Nat /\ Len(msgs) \in Nat
  BY <1>1
<1>4. /\ Len(q \o msgs) = Len(q) + Len(msgs)
      /\ \A j \in 1..Len(q) + Len(msgs) : (q \o msgs)[j] = IF j <= Len(q) THEN q[j] ELSE msgs[j - Len(q)]
  BY <1>3, ConcatProperties
<1>5. ASSUME i \in 1..Len(q) + Len(msgs), toPeer'[pSock][i] = (q \o msgs)[i]
      PROVE  \/ i \in 1..Len(q) /\ toPeer'[pSock][i] = q[i]
             \/ \E j \in 1..Len(msgs) : i = Len(q) + j /\ toPeer'[pSock][i] = msgs[j]
  <2>1. CASE i <= Len(q)
    BY <1>3, <1>4, <1>5, <2>1
  <2>2. CASE ~(i <= Len(q))
    <3>1. i - Len(q) \in 1..Len(msgs) /\ i = Len(q) + (i - Len(q))
      BY <1>3, <1>5, <2>2
    <3>2. toPeer'[pSock][i] = msgs[i - Len(q)]
      BY <1>4, <1>5, <2>2
    <3> QED BY <3>1, <3>2
  <2> QED BY <2>1, <2>2
<1>6. CASE toPeer'[pSock] = q
  BY <1>6
<1>7. CASE pSock = cSock /\ toPeer' = [toPeer EXCEPT ![cSock] = toPeer[cSock] \o msgs]
  <2>1. toPeer'[pSock] = q \o msgs
    BY <1>1, <1>7
  <2> QED BY <1>4, <1>5, <2>1
<1>8. CASE pSock = cSock /\ \E p : CutShort(toPeer[cSock] \o msgs, p) /\ toPeer' = [toPeer EXCEPT ![cSock] = p]
  <2>1. PICK n \in 0..Len(q \o msgs) : toPeer' = [toPeer EXCEPT ![cSock] = SubSeq(q \o msgs, 1, n)]
    BY <1>8 DEF CutShort
  <2>2. toPeer'[pSock] = SubSeq(q \o msgs, 1, n)
    BY <1>1, <1>8, <2>1
  <2>3. q \o msgs \in Seq(PeerMsg)
    BY <1>3, ConcatProperties
  <2>4. Len(toPeer'[pSock]) = n /\ \A j \in 1..n : toPeer'[pSock][j] = (q \o msgs)[j]
    BY <2>2, <2>3
  <2>5. i \in 1..Len(q) + Len(msgs) /\ toPeer'[pSock][i] = (q \o msgs)[i]
    BY <1>3, <1>4, <2>4
  <2> QED BY <1>5, <2>5
<1> QED BY <1>2, <1>6, <1>7, <1>8 DEF Sent

LEMMA AddsNothing == ASSUME toPeer' = toPeer PROVE Adds(<<>>)
BY DEF Adds

(* What the peer knew, where it learns no answer.                          *)
LEMMA NoAnswer ==
  ASSUME KeysInv, PeerStays, guestBond' \in {0, guestBond}, NEW msgs, Adds(msgs), AddsNo(msgs, {"Encryption"})
  PROVE  /\ AnswerInv'
         /\ pSock # 0 =>
              \A i \in Answers(toPeer'[pSock]) : i \in Answers(toPeer[pSock]) /\ toPeer'[pSock][i] = toPeer[pSock][i]
<1>1. ASSUME pSock # 0, NEW i \in Answers(toPeer'[pSock])
      PROVE  i \in Answers(toPeer[pSock]) /\ toPeer'[pSock][i] = toPeer[pSock][i]
  BY <1>1 DEF Answers, Adds, AddsNo
<1>2. AnswerInv'
  <2> SUFFICES ASSUME pSock # 0, generation # 0, NEW i \in Answers(toPeer'[pSock])
               PROVE  /\ Exchanging
                      /\ \A j \in Answers(toPeer'[pSock]) : i = j
                      /\ smp = "Encrypting" /\ toPeer'[pSock][i].val = 0 => guestBond' \in {0, generation}
    BY DEF AnswerInv, PeerStays, Exchanging
  <2>1. /\ Exchanging
        /\ \A j \in Answers(toPeer[pSock]) : i = j
        /\ smp = "Encrypting" /\ toPeer[pSock][i].val = 0 => guestBond \in {0, generation}
    BY <1>1 DEF KeysInv, AnswerInv
  <2>2. \A j \in Answers(toPeer'[pSock]) : i = j
    BY <1>1, <2>1
  <2>3. toPeer'[pSock][i] = toPeer[pSock][i]
    BY <1>1
  <2> QED BY <2>1, <2>2, <2>3
<1> QED BY <1>1, <1>2

(* The controller's steps add nothing to its own queues.                   *)
CtlRest == \A s \in Sockets : Rest(toCtl'[s], toCtl[s], 0) \/ Rest(toCtl'[s], toCtl[s], 1)

LEMMA CtlRests == ASSUME LinkInv, CtlStep PROVE CtlRest
<1>0. toCtl \in [Sockets -> Seq(CtlMsgs)]
  BY DEF LinkInv, LinkTypes, QueueTypes
<1>1. ASSUME NEW s \in Sockets, toCtl'[s] = toCtl[s] PROVE Rest(toCtl'[s], toCtl[s], 0)
  BY <1>0, <1>1, RestOfSame
<1>2. CASE CtlOpen
  BY <1>1, <1>2 DEF CtlOpen, CtlRest
<1>3. CASE ~CtlOpen
  <2> SUFFICES ASSUME NEW s \in Sockets PROVE Rest(toCtl'[s], toCtl[s], 0) \/ Rest(toCtl'[s], toCtl[s], 1)
    BY DEF CtlRest
  <2>1. toCtl'[s] = toCtl[s] \/ toCtl'[s] = <<>> \/ (toCtl[s] # <<>> /\ toCtl'[s] = Tail(toCtl[s]))
    BY <1>3, CtlLeavesSockets
  <2>2. CASE toCtl'[s] = <<>>
    BY <2>2 DEF Rest
  <2>3. CASE toCtl[s] # <<>> /\ toCtl'[s] = Tail(toCtl[s])
    <3>1. toCtl[s] \in Seq(CtlMsgs) /\ toCtl[s] # <<>>
      BY <1>0, <2>3
    <3>2. Rest(Tail(toCtl[s]), toCtl[s], 1)
      BY <3>1, RestOfTail
    <3> QED BY <2>3, <3>2
  <2> QED BY <1>1, <2>1, <2>2, <2>3
<1> QED BY <1>2, <1>3

LEMMA ConnectsGoOn == ASSUME KeysInv, CtlRest PROVE ConnectInv'
<1> SUFFICES ASSUME NEW s \in Sockets, NEW i \in 1..Len(toCtl'[s]), toCtl'[s][i].kind = "Connect"
             PROVE  toCtl'[s][i].gen = 0
  BY DEF ConnectInv, Sockets
<1>1. PICK k \in {0, 1} : i + k \in 1..Len(toCtl[s]) /\ toCtl'[s][i] = toCtl[s][i + k]
  BY DEF CtlRest, Rest
<1> QED BY <1>1 DEF KeysInv, ConnectInv

(* What the controller has still to read of its link.                      *)
LEMMA AsksGoOn ==
  ASSUME CtlRest, NEW s \in Sockets, NEW g
  PROVE  \E k \in {0, 1} : \A i \in Asks(toCtl'[s], g) :
           i \in Int /\ i + k \in Asks(toCtl[s], g) /\ toCtl'[s][i].val = toCtl[s][i + k].val
<1>1. PICK k \in {0, 1} : Rest(toCtl'[s], toCtl[s], k)
  BY DEF CtlRest
<1> QED BY <1>1, RestOf

LEMMA AsksKeepBond ==
  ASSUME KeysInv, CtlRest, UNCHANGED <<conn, bond>>, cSock' \in {0, cSock}, cSock \in Sockets \cup {0},
         conn' # 0, cSock' # 0
  PROVE  \A i \in Asks(toCtl'[cSock], conn) : bond \in {0, toCtl'[cSock][i].val}
<1>1. cSock \in Sockets
  OBVIOUS
<1>2. PICK k \in {0, 1} : \A i \in Asks(toCtl'[cSock], conn) :
        i + k \in Asks(toCtl[cSock], conn) /\ toCtl'[cSock][i].val = toCtl[cSock][i + k].val
  BY <1>1, AsksGoOn
<1>3. \A i \in Asks(toCtl[cSock], conn) : bond \in {0, toCtl[cSock][i].val}
  BY <1>1 DEF KeysInv, BondInv
<1> QED BY <1>2, <1>3

(* The controller has no link.                                             *)
LEMMA LinkEnds ==
  ASSUME KeysInv, CtlInv', CtlRest, PeerStays, guestBond' \in {0, guestBond}, conn' = 0,
         NEW msgs, Adds(msgs), AddsNo(msgs, {"Encryption"})
  PROVE  KeysInv'
<1>1. AnswerInv'
  BY NoAnswer
<1>2. UnheardInv' /\ AskInv' /\ SharedInv'
  BY DEF UnheardInv, AskInv, SharedInv, Shared
<1>3. cKey' = 0
  BY DEF CtlInv
<1>4. BondsMatch'
  BY DEF KeysInv, BondInv, BondsMatch, PeerStays
<1>5. BondInv'
  BY <1>3, <1>4 DEF BondInv
<1>6. ConnectInv'
  BY ConnectsGoOn
<1> QED BY <1>1, <1>2, <1>5, <1>6 DEF KeysInv

(* The controller keeps its link, and tells the peer no news of it.        *)
LEMMA LinkKept ==
  ASSUME LinkInv, KeysInv, CtlRest, PeerStays, UNCHANGED <<conn, cKey, cEncrypted, guestBond>>, conn # 0,
         cSock' \in {0, cSock}, NEW msgs, Adds(msgs), AddsNo(msgs, {"Encryption", "Connected"}),
         \A j \in 1..Len(msgs) : msgs[j].kind = "Rejected" /\ msgs[j].gen = conn /\ pSock # 0 => ~Shared /\ ~Unheard
  PROVE  KeysInv'
<1>1. AddsNo(msgs, {"Encryption"})
  BY DEF AddsNo
<1>2. /\ AnswerInv'
      /\ pSock # 0 =>
           \A i \in Answers(toPeer'[pSock]) : i \in Answers(toPeer[pSock]) /\ toPeer'[pSock][i] = toPeer[pSock][i]
  BY <1>1, NoAnswer
<1>3. pSock # 0 => pSock \in Sockets
  BY Places
<1>4. ASSUME pSock # 0, Announces(toPeer'[pSock]) PROVE Announces(toPeer[pSock])
  <2>1. PICK i \in 1..Len(toPeer'[pSock]) : toPeer'[pSock][i].kind = "Connected"
    BY <1>4 DEF Announces
  <2>2. ASSUME NEW j \in 1..Len(msgs), toPeer'[pSock][i] = msgs[j] PROVE FALSE
    BY <2>1, <2>2 DEF AddsNo
  <2>3. i \in 1..Len(toPeer[pSock]) /\ toPeer'[pSock][i] = toPeer[pSock][i]
    BY <1>4, <2>2 DEF Adds
  <2> QED BY <2>1, <2>3 DEF Announces
<1>5. ASSUME pSock # 0, Shared \/ Unheard, Refuses(toPeer'[pSock], conn) PROVE Refuses(toPeer[pSock], conn)
  <2>1. PICK i \in 1..Len(toPeer'[pSock]) : toPeer'[pSock][i].kind = "Rejected" /\ toPeer'[pSock][i].gen = conn
    BY <1>5 DEF Refuses
  <2>2. ASSUME NEW j \in 1..Len(msgs), toPeer'[pSock][i] = msgs[j] PROVE FALSE
    BY <1>5, <2>1, <2>2
  <2>3. i \in 1..Len(toPeer[pSock]) /\ toPeer'[pSock][i] = toPeer[pSock][i]
    BY <1>5, <2>2 DEF Adds
  <2> QED BY <2>1, <2>3 DEF Refuses
<1>6. ASSUME pSock # 0, Mentions(toCtl'[pSock], conn) PROVE Mentions(toCtl[pSock], conn)
  <2>1. PICK k \in {0, 1} : Rest(toCtl'[pSock], toCtl[pSock], k)
    BY <1>3, <1>6 DEF CtlRest
  <2> QED BY <1>6, <2>1, RestOf
<1>7. UnheardInv'
  <2> SUFFICES ASSUME pSock # 0, generation \notin {0, conn} \/ Announces(toPeer'[pSock])
               PROVE  cKey = 0 /\ ~cEncrypted /\ ~Refuses(toPeer'[pSock], conn) /\ ~Mentions(toCtl'[pSock], conn)
    BY DEF UnheardInv, Unheard, PeerStays
  <2>1. Unheard
    BY <1>4 DEF Unheard
  <2>2. cKey = 0 /\ ~cEncrypted /\ ~Refuses(toPeer[pSock], conn) /\ ~Mentions(toCtl[pSock], conn)
    BY <2>1 DEF KeysInv, UnheardInv
  <2> QED BY <1>5, <1>6, <2>1, <2>2
<1>8. AskInv'
  <2> SUFFICES ASSUME Shared, NEW i \in Asks(toCtl'[pSock], conn)
               PROVE  /\ cKey = 0 /\ ~cEncrypted /\ Exchanging /\ Answers(toPeer'[pSock]) = {}
                      /\ \A j \in Asks(toCtl'[pSock], conn) : i = j
                      /\ smp = "Encrypting" => toCtl'[pSock][i].val = conn
    BY DEF AskInv, Shared, PeerStays, Exchanging
  <2>1. pSock # 0 /\ pSock \in Sockets
    BY <1>3 DEF Shared
  <2>2. PICK k \in {0, 1} : \A j \in Asks(toCtl'[pSock], conn) :
          j \in Int /\ j + k \in Asks(toCtl[pSock], conn) /\ toCtl'[pSock][j].val = toCtl[pSock][j + k].val
    BY <2>1, AsksGoOn
  <2>3. /\ cKey = 0 /\ ~cEncrypted /\ Exchanging /\ Answers(toPeer[pSock]) = {}
        /\ \A j \in Asks(toCtl[pSock], conn) : i + k = j
        /\ smp = "Encrypting" => toCtl[pSock][i + k].val = conn
    BY <2>2 DEF KeysInv, AskInv
  <2>4. Answers(toPeer'[pSock]) = {}
    BY <1>2, <2>1, <2>3
  <2>5. ASSUME NEW j \in Asks(toCtl'[pSock], conn) PROVE i = j
    <3>1. i + k = j + k /\ i \in Int /\ j \in Int /\ k \in Int
      BY <2>2, <2>3
    <3> QED BY ONLY <3>1
  <2> QED BY <2>2, <2>3, <2>4, <2>5
<1>9. SharedInv'
  <2> SUFFICES ASSUME Shared
               PROVE  /\ ~Refuses(toPeer'[pSock], conn)
                      /\ \A i \in Answers(toPeer'[pSock]) : cEncrypted = (toPeer'[pSock][i].val = 0)
                      /\ cKey # 0 => Exchanging /\ Answers(toPeer'[pSock]) = {} /\ (smp = "Encrypting" => cKey = conn)
                      /\ smp \in {"Idle", "Pairing"} => ~cEncrypted
                      /\ smp = "Encrypted" => cEncrypted
    BY DEF SharedInv, Shared, PeerStays, Exchanging
  <2>1. pSock # 0
    BY DEF Shared
  <2>2. /\ ~Refuses(toPeer[pSock], conn)
        /\ \A i \in Answers(toPeer[pSock]) : cEncrypted = (toPeer[pSock][i].val = 0)
        /\ cKey # 0 => Exchanging /\ Answers(toPeer[pSock]) = {} /\ (smp = "Encrypting" => cKey = conn)
        /\ smp \in {"Idle", "Pairing"} => ~cEncrypted
        /\ smp = "Encrypted" => cEncrypted
    BY DEF KeysInv, SharedInv
  <2>3. ~Refuses(toPeer'[pSock], conn)
    BY <1>5, <2>1, <2>2
  <2>4. \A i \in Answers(toPeer'[pSock]) : cEncrypted = (toPeer'[pSock][i].val = 0)
    BY <1>2, <2>1, <2>2
  <2>5. Answers(toPeer[pSock]) = {} => Answers(toPeer'[pSock]) = {}
    BY <1>2, <2>1
  <2> QED BY <2>2, <2>3, <2>4, <2>5
<1>10. BondInv'
  <2>1. cSock \in Sockets \cup {0}
    BY Places
  <2>2. ASSUME cSock' # 0 PROVE \A i \in Asks(toCtl'[cSock], conn) : bond \in {0, toCtl'[cSock][i].val}
    <3>1. UNCHANGED <<conn, bond>> /\ conn' # 0
      BY DEF PeerStays
    <3> QED BY <2>1, <2>2, <3>1, AsksKeepBond
  <2>3. cSock' # 0 => cSock' = cSock
    OBVIOUS
  <2>4. BondsMatch' /\ (cKey' # 0 => bond' \in {0, cKey'})
    BY DEF KeysInv, BondInv, BondsMatch, PeerStays
  <2> QED BY <2>2, <2>3, <2>4 DEF BondInv, PeerStays
<1>11. ConnectInv'
  BY ConnectsGoOn
<1> QED BY <1>2, <1>7, <1>8, <1>9, <1>10, <1>11 DEF KeysInv

(* The controller accepts a connection: no message of it is on its way.    *)
LEMMA LinkOpens ==
  ASSUME LinkInv, KeysInv, CtlRest, PeerStays, UNCHANGED guestBond, conn' = nextGeneration + 1,
         cKey' = 0, ~cEncrypted', cSock' \in {0, cSock}, NEW msgs, Adds(msgs), AddsNo(msgs, {"Encryption", "Rejected"})
  PROVE  KeysInv'
<1>0. /\ nextGeneration \in Nat /\ generation \in Nat /\ WireInv /\ cSock \in Sockets \cup {0}
      /\ toCtl \in [Sockets -> Seq(CtlMsgs)] /\ (pSock # 0 => pSock \in Sockets)
  BY Places DEF LinkInv, LinkTypes, QueueTypes
<1>1. AnswerInv'
  <2>1. AddsNo(msgs, {"Encryption"})
    BY DEF AddsNo
  <2> QED BY <2>1, NoAnswer
<1>2. ASSUME NEW s \in Sockets PROVE ~Mentions(toCtl'[s], conn')
  <2> SUFFICES ASSUME NEW i \in 1..Len(toCtl'[s]), toCtl'[s][i].gen = conn' PROVE FALSE
    BY DEF Mentions
  <2>1. PICK k \in {0, 1} : i + k \in 1..Len(toCtl[s]) /\ toCtl'[s][i] = toCtl[s][i + k]
    BY DEF CtlRest, Rest
  <2>2. toCtl[s][i + k].gen <= nextGeneration
    BY <1>0, <2>1 DEF WireInv
  <2>3. toCtl[s][i + k].gen = nextGeneration + 1
    BY <2>1
  <2> QED BY ONLY <1>0, <2>2, <2>3
<1>3. ASSUME pSock # 0 PROVE generation # conn' /\ ~Refuses(toPeer'[pSock], conn')
  <2>1. generation <= nextGeneration /\ \A i \in 1..Len(toPeer[pSock]) : toPeer[pSock][i].gen <= nextGeneration
    BY <1>3, Heard
  <2>2. generation # conn'
    BY <1>0, <2>1
  <2> SUFFICES ASSUME NEW i \in 1..Len(toPeer'[pSock]),
                      toPeer'[pSock][i].kind = "Rejected", toPeer'[pSock][i].gen = conn'
               PROVE  FALSE
    BY <2>2 DEF Refuses
  <2>3. i \in 1..Len(toPeer[pSock]) /\ toPeer'[pSock][i] = toPeer[pSock][i]
    BY <1>3 DEF Adds, AddsNo
  <2>4. toPeer[pSock][i].gen <= nextGeneration /\ toPeer[pSock][i].gen = nextGeneration + 1
    BY <2>1, <2>3
  <2> QED BY ONLY <1>0, <2>4
<1>4. UnheardInv'
  BY <1>0, <1>2, <1>3 DEF UnheardInv, PeerStays
<1>5. ~Shared'
  BY <1>3 DEF Shared, PeerStays
<1>6. AskInv' /\ SharedInv'
  BY <1>5 DEF AskInv, SharedInv
<1>7. BondInv'
  <2>1. BondsMatch'
    BY DEF KeysInv, BondInv, BondsMatch, PeerStays
  <2>2. ASSUME cSock' # 0 PROVE Asks(toCtl'[cSock'], conn') = {}
    <3>1. cSock' \in Sockets
      BY <1>0, <2>2
    <3> QED BY <1>2, <3>1 DEF Asks, Mentions
  <2> QED BY <2>1, <2>2 DEF BondInv
<1>8. ConnectInv'
  BY ConnectsGoOn
<1> QED BY <1>1, <1>4, <1>6, <1>7, <1>8 DEF KeysInv

(* What the controller reads on a link comes from the peer's socket, if it *)
(* still has one.                                                          *)
LEMMA CtlReads ==
  ASSUME LinkInv, CtlReceive
  PROVE  /\ cSock \in Sockets /\ toCtl[cSock] \in Seq(CtlMsgs) /\ toCtl[cSock] # <<>>
         /\ Head(toCtl[cSock]) \in CtlMsgs /\ Head(toCtl[cSock]) = toCtl[cSock][1] /\ 1 \in 1..Len(toCtl[cSock])
         /\ toCtl'[cSock] = Tail(toCtl[cSock]) /\ Rest(toCtl'[cSock], toCtl[cSock], 1)
         /\ (conn # 0 /\ pSock # 0 => pSock = cSock)
<1>1. cSock # 0 /\ toCtl[cSock] # <<>> /\ toCtl' = [toCtl EXCEPT ![cSock] = Tail(toCtl[cSock])]
  BY DEF CtlReceive
<1>2. toCtl \in [Sockets -> Seq(CtlMsgs)] /\ cSock \in Sockets /\ (conn # 0 => cSock \in {0, opened})
      /\ (conn # 0 /\ pSock # 0 => pSock = opened)
  BY <1>1, Places DEF LinkInv, LinkTypes, QueueTypes
<1>3. toCtl[cSock] \in Seq(CtlMsgs)
  BY <1>2
<1>4. Rest(Tail(toCtl[cSock]), toCtl[cSock], 1)
  BY <1>1, <1>3, RestOfTail
<1>5. Head(toCtl[cSock]) \in CtlMsgs /\ Head(toCtl[cSock]) = toCtl[cSock][1] /\ 1 \in 1..Len(toCtl[cSock])
  BY <1>1, <1>3
<1> QED BY <1>1, <1>2, <1>3, <1>4, <1>5

(* A request for encryption that the controller accepts.                   *)
LEMMA EncryptKeys ==
  ASSUME LinkInv, KeysInv, CtlRest, PeerStays, CtlReceive, Head(toCtl[cSock]).kind = "Encrypt",
         conn # 0, Head(toCtl[cSock]).gen = conn, cKey = 0, ~cEncrypted, cKey' = Head(toCtl[cSock]).val,
         UNCHANGED <<toPeer, cSock, conn, cEncrypted, guestBond>>
  PROVE  KeysInv'
<1> DEFINE q == toCtl[cSock]
           r == toCtl'[cSock]
           m == Head(q)
<1>1. /\ cSock \in Sockets /\ m = q[1] /\ 1 \in 1..Len(q) /\ Rest(r, q, 1)
      /\ (pSock # 0 => pSock = cSock)
  BY CtlReads
<1>2. 1 \in Asks(q, conn) /\ Mentions(q, conn)
  BY <1>1 DEF Asks, Mentions
<1>3. ASSUME pSock # 0 PROVE ~Unheard
  BY <1>1, <1>2, <1>3 DEF KeysInv, UnheardInv
<1>4. ASSUME Shared
      PROVE  /\ Exchanging /\ Answers(toPeer[pSock]) = {} /\ (smp = "Encrypting" => cKey' = conn)
             /\ Asks(r, conn) = {}
  <2>1. pSock = cSock
    BY <1>1, <1>4 DEF Shared
  <2>2. /\ Exchanging /\ Answers(toPeer[pSock]) = {}
        /\ \A j \in Asks(q, conn) : 1 = j
        /\ smp = "Encrypting" => q[1].val = conn
    BY <1>2, <1>4, <2>1 DEF KeysInv, AskInv
  <2>3. ASSUME NEW i \in Asks(r, conn) PROVE FALSE
    <3>1. i \in 1..Len(r)
      BY <2>3 DEF Asks
    <3>2. 1 \in {0, 1}
      OBVIOUS
    <3>3. i + 1 \in Asks(q, conn)
      BY <1>1, <2>3, <3>2, RestOf
    <3>4. 1 = i + 1
      BY <2>2, <3>3
    <3> QED BY ONLY <3>1, <3>4
  <2> QED BY <1>1, <2>2, <2>3
<1>5. AnswerInv'
  BY DEF KeysInv, AnswerInv, PeerStays, Exchanging
<1>6. UnheardInv'
  BY <1>3 DEF UnheardInv, Unheard, PeerStays
<1>7. AskInv'
  BY <1>1, <1>4 DEF AskInv, Shared, PeerStays
<1>8. SharedInv'
  <2> SUFFICES ASSUME Shared
               PROVE  /\ ~Refuses(toPeer[pSock], conn)
                      /\ \A i \in Answers(toPeer[pSock]) : cEncrypted = (toPeer[pSock][i].val = 0)
                      /\ cKey' # 0 => Exchanging /\ Answers(toPeer[pSock]) = {} /\ (smp = "Encrypting" => cKey' = conn)
                      /\ smp \in {"Idle", "Pairing"} => ~cEncrypted
                      /\ smp = "Encrypted" => cEncrypted
    BY DEF SharedInv, Shared, PeerStays, Exchanging
  <2>1. ~Refuses(toPeer[pSock], conn)
    BY DEF KeysInv, SharedInv
  <2>2. Exchanging /\ Answers(toPeer[pSock]) = {} /\ (smp = "Encrypting" => cKey' = conn)
    BY <1>4
  <2> QED BY <2>1, <2>2 DEF Exchanging
<1>9. BondInv'
  <2>1. BondsMatch'
    BY DEF KeysInv, BondInv, BondsMatch, PeerStays
  <2>2. \A i \in Asks(q, conn) : bond \in {0, q[i].val}
    BY <1>1 DEF KeysInv, BondInv, Sockets
  <2>3. bond \in {0, cKey'}
    BY <1>1, <1>2, <2>2
  <2>4. \A i \in Asks(r, conn) : bond \in {0, r[i].val}
    <3>1. \A i \in Asks(r, conn) : i + 1 \in Asks(q, conn) /\ r[i].val = q[i + 1].val
      BY <1>1, RestOf
    <3> QED BY <2>2, <3>1
  <2> QED BY <2>1, <2>3, <2>4 DEF BondInv, PeerStays
<1>10. ConnectInv'
  BY ConnectsGoOn
<1> QED BY <1>5, <1>6, <1>7, <1>8, <1>9, <1>10 DEF KeysInv

(* The guest answers: the peer is waiting for it.                          *)
LEMMA GuestAnswersKeys == ASSUME LinkInv, KeysInv, CtlRest, PeerStays, GuestAnswersKey PROVE KeysInv'
<1> DEFINE status == IF GuestKey = 0 THEN 6 ELSE IF GuestKey = cKey THEN 0 ELSE 5
           m == Msg("Encryption", conn, status)
           q == toPeer[pSock]
           r == toPeer'[pSock]
<1>0. /\ cKey # 0 /\ CtlSends(<<m>>) /\ cEncrypted' = (status = 0) /\ cKey' = 0
      /\ guestBond' = IF status = 0 THEN cKey ELSE guestBond
      /\ UNCHANGED <<toCtl, conn>>
  BY DEF GuestAnswersKey
<1>1. /\ LinkTypes /\ conn # 0 /\ conn \in Keys /\ cSock \in Sockets \cup {0}
      /\ (pSock # 0 => pSock \in Sockets /\ q \in Seq(PeerMsg) /\ Len(q) \in Nat)
  <2>1. LinkTypes /\ CtlInv /\ cSock \in Sockets \cup {0} /\ (pSock # 0 => pSock \in Sockets /\ q \in Seq(PeerMsg))
    BY Places
  <2>2. conn \in Keys
    BY <2>1, KeyFacts DEF LinkTypes, CtlTypes
  <2> QED BY <1>0, <2>1, <2>2 DEF CtlInv
<1>2. m.kind = "Encryption" /\ m.gen = conn /\ m.val = status /\ status \in {0, 5, 6}
  BY DEF Msg
<1>3. m \in PeerMsg
  <2>1. status \in Keys \cup Images \cup {5, 6}
    BY <1>2, KeyFacts
  <2> QED BY <1>1, <2>1, PeerMsgType DEF PeerKinds
<1>4. Adds(<<m>>)
  <2>1. <<m>> \in Seq(PeerMsg)
    BY <1>3
  <2> QED BY <1>0, <1>1, <2>1, CtlAdds
<1>5. ASSUME pSock # 0, NEW i \in 1..Len(r)
      PROVE  (i \in 1..Len(q) /\ r[i] = q[i]) \/ (i = Len(q) + 1 /\ r[i] = m)
  BY <1>4, <1>5 DEF Adds
<1>6. ASSUME pSock # 0 PROVE generation \in {0, conn} /\ ~Announces(q)
  <2>1. ~Unheard
    BY <1>0, <1>1, <1>6 DEF KeysInv, UnheardInv
  <2> QED BY <2>1 DEF Unheard
<1>7. ASSUME pSock # 0, generation = conn
      PROVE  /\ Exchanging /\ Answers(q) = {} /\ (smp = "Encrypting" => cKey = conn) /\ ~Refuses(q, conn)
             /\ Asks(toCtl[pSock], conn) = {}
             /\ \A i \in Answers(r) : i = Len(q) + 1 /\ r[i] = m
  <2>1. Shared
    BY <1>1, <1>7 DEF Shared
  <2>2. Exchanging /\ Answers(q) = {} /\ (smp = "Encrypting" => cKey = conn) /\ ~Refuses(q, conn)
    BY <1>0, <2>1 DEF KeysInv, SharedInv
  <2>3. Asks(toCtl[pSock], conn) = {}
    BY <1>0, <2>1 DEF KeysInv, AskInv
  <2>4. ASSUME NEW i \in Answers(r) PROVE i = Len(q) + 1 /\ r[i] = m
    BY <1>5, <1>7, <2>2, <2>4 DEF Answers
  <2> QED BY <2>2, <2>3, <2>4
<1>8. AnswerInv'
  <2> SUFFICES ASSUME pSock # 0, generation # 0, NEW i \in Answers(r)
               PROVE  /\ Exchanging
                      /\ \A j \in Answers(r) : i = j
                      /\ smp = "Encrypting" /\ r[i].val = 0 => guestBond' \in {0, generation}
    BY DEF AnswerInv, PeerStays, Exchanging
  <2>1. generation = conn
    BY <1>6
  <2>2. Exchanging /\ (\A j \in Answers(r) : i = j) /\ r[i] = m /\ (smp = "Encrypting" => cKey = conn)
    BY <1>7, <2>1
  <2>3. ASSUME smp = "Encrypting", r[i].val = 0 PROVE guestBond' = generation
    <3>1. status = 0 /\ cKey = generation
      BY <1>2, <2>1, <2>2, <2>3
    <3> QED BY <1>0, <3>1
  <2> QED BY <2>2, <2>3
<1>9. UnheardInv'
  <2>1. ASSUME pSock # 0, NEW i \in 1..Len(r), r[i].kind = "Connected" PROVE FALSE
    BY <1>2, <1>5, <1>6, <2>1 DEF Announces
  <2>2. pSock # 0 => ~Unheard'
    BY <1>0, <1>6, <2>1 DEF Unheard, Announces, PeerStays
  <2> QED BY <2>2 DEF UnheardInv, PeerStays
<1>10. AskInv'
  BY <1>0, <1>7 DEF AskInv, Shared, PeerStays
<1>11. SharedInv'
  <2> SUFFICES ASSUME pSock # 0, generation = conn
               PROVE  /\ ~Refuses(r, conn)
                      /\ \A i \in Answers(r) : cEncrypted' = (r[i].val = 0)
                      /\ cKey' # 0 => Exchanging /\ Answers(r) = {} /\ (smp = "Encrypting" => cKey' = conn)
                      /\ smp \in {"Idle", "Pairing"} => ~cEncrypted'
                      /\ smp = "Encrypted" => cEncrypted'
    BY <1>0 DEF SharedInv, Shared, PeerStays, Exchanging
  <2>1. ~Refuses(r, conn)
    <3> SUFFICES ASSUME NEW i \in 1..Len(r), r[i].kind = "Rejected", r[i].gen = conn PROVE FALSE
      BY DEF Refuses
    <3> QED BY <1>2, <1>5, <1>7 DEF Refuses
  <2>2. \A i \in Answers(r) : cEncrypted' = (r[i].val = 0)
    BY <1>0, <1>2, <1>7
  <2>3. Exchanging
    BY <1>7
  <2> QED BY <1>0, <2>1, <2>2, <2>3 DEF Exchanging
<1>12. BondInv'
  <2>1. bond \in {0, cKey} /\ BondsMatch
    BY <1>0 DEF KeysInv, BondInv
  <2>2. BondsMatch'
    BY <1>0, <2>1 DEF BondsMatch, PeerStays
  <2>3. cSock' \in {0, cSock}
    BY <1>0, CtlKeepsEnd
  <2>4. ASSUME cSock' # 0 PROVE \A i \in Asks(toCtl'[cSock], conn) : bond \in {0, toCtl'[cSock][i].val}
    <3>1. UNCHANGED <<conn, bond>> /\ conn' # 0
      BY <1>0, <1>1 DEF PeerStays
    <3> QED BY <1>1, <2>3, <2>4, <3>1, AsksKeepBond
  <2>5. cSock' # 0 => cSock' = cSock
    BY <2>3
  <2> QED BY <1>0, <2>2, <2>4, <2>5 DEF BondInv, PeerStays
<1>13. ConnectInv'
  BY ConnectsGoOn
<1> QED BY <1>8, <1>9, <1>10, <1>11, <1>12, <1>13 DEF KeysInv

LEMMA CtlLeavesPeer == ASSUME CtlStep PROVE PeerStays
BY DEF CtlStep, CtlOpen, CtlRestarts, GuestForgetsBond, CtlLosesSocket, CtlReceive, GuestAdvertises,
       GuestStopsAdvertising, GuestDisconnects, GuestResets, GuestAnswersAtt, GuestPairs,
       GuestRequestsSecurity, GuestAnswersKey, peer, session, attention, PeerStays

(* A refusal is not about the link, unless the peer has left it.           *)
LEMMA RejectKeys ==
  ASSUME LinkInv, KeysInv, CtlInv', CtlRest, PeerStays, CtlReceive, reject(Head(toCtl[cSock])),
         conn # 0 /\ Head(toCtl[cSock]).gen = conn /\ pSock # 0 => ~Shared /\ ~Unheard
  PROVE  KeysInv'
<1> DEFINE m == Head(toCtl[cSock])
           x == Msg("Rejected", m.gen, 0)
<1>0. /\ CtlSends(<<x>>) /\ UNCHANGED <<conn, cKey, cEncrypted, guestBond>> /\ LinkTypes
  BY DEF reject, security, guest, LinkInv
<1>1. m \in CtlMsgs
  BY CtlReads
<1>2. x.kind = "Rejected" /\ x.gen = m.gen
  BY DEF Msg
<1>3. <<x>> \in Seq(PeerMsg)
  <2>1. m.gen \in Keys /\ 0 \in Keys
    BY <1>1, KeyFacts DEF CtlMsgs, Keys
  <2>2. x \in PeerMsg
    BY <2>1, PeerMsgType DEF PeerKinds
  <2> QED BY <2>2
<1>4. Adds(<<x>>)
  BY <1>0, <1>3, CtlAdds
<1>5. AddsNo(<<x>>, {"Encryption"}) /\ AddsNo(<<x>>, {"Encryption", "Connected"})
  BY <1>2 DEF AddsNo
<1>6. cSock' \in {0, cSock}
  BY <1>0, CtlKeepsEnd
<1>7. CASE conn = 0
  BY <1>0, <1>4, <1>5, <1>7, LinkEnds
<1>8. CASE conn # 0
  <2>1. \A j \in 1..Len(<<x>>) : <<x>>[j].kind = "Rejected" /\ <<x>>[j].gen = conn /\ pSock # 0 => ~Shared /\ ~Unheard
    BY <1>2, <1>8
  <2> QED BY <1>0, <1>4, <1>5, <1>6, <1>8, <2>1, LinkKept
<1> QED BY <1>7, <1>8

(* Messages that are no news of a link.                                    *)
LEMMA HushedKeys ==
  ASSUME LinkInv, KeysInv, CtlInv', CtlRest, PeerStays, cSock' \in {0, cSock}, guestBond' = guestBond,
         (conn' = conn /\ cKey' = cKey /\ cEncrypted' = cEncrypted) \/ conn' = 0,
         NEW msgs, Adds(msgs), AddsNo(msgs, {"Encryption", "Connected", "Rejected"})
  PROVE  KeysInv'
<1>1. AddsNo(msgs, {"Encryption"}) /\ AddsNo(msgs, {"Encryption", "Connected"})
  BY DEF AddsNo
<1>2. \A j \in 1..Len(msgs) : msgs[j].kind = "Rejected" /\ msgs[j].gen = conn /\ pSock # 0 => ~Shared /\ ~Unheard
  BY DEF AddsNo
<1>3. CASE conn' = 0
  BY <1>1, <1>3, LinkEnds
<1>4. CASE conn' # 0
  <2>1. UNCHANGED <<conn, cKey, cEncrypted, guestBond>> /\ conn # 0
    BY <1>4
  <2> QED BY <1>1, <1>2, <2>1, LinkKept
<1> QED BY <1>3, <1>4

(* One batch of messages after another.                                    *)
LEMMA ConcatHushed ==
  ASSUME NEW S, NEW s \in Seq(S), NEW t \in Seq(S), NEW kinds, AddsNo(s, kinds), AddsNo(t, kinds)
  PROVE  s \o t \in Seq(S) /\ AddsNo(s \o t, kinds)
<1>1. /\ s \o t \in Seq(S) /\ Len(s \o t) = Len(s) + Len(t) /\ Len(s) \in Nat /\ Len(t) \in Nat
      /\ \A i \in 1 .. Len(s) + Len(t) : (s \o t)[i] = IF i <= Len(s) THEN s[i] ELSE t[i - Len(s)]
  BY ConcatProperties
<1>2. ASSUME NEW i \in 1..Len(s \o t) PROVE (s \o t)[i].kind \notin kinds
  <2>1. i \in 1 .. Len(s) + Len(t)
    BY <1>1
  <2>2. CASE i <= Len(s)
    <3>1. i \in 1..Len(s) /\ (s \o t)[i] = s[i]
      BY <1>1, <2>1, <2>2
    <3> QED BY <3>1 DEF AddsNo
  <2>3. CASE ~(i <= Len(s))
    <3>1. i - Len(s) \in 1..Len(t) /\ (s \o t)[i] = t[i - Len(s)]
      BY <1>1, <2>1, <2>3
    <3> QED BY <3>1 DEF AddsNo
  <2> QED BY <2>2, <2>3
<1> QED BY <1>1, <1>2 DEF AddsNo

LEMMA HushedDisconnected ==
  /\ AddsNo(Disconnected, {"Encryption", "Connected", "Rejected"})
  /\ AddsNo(ResetMessages, {"Encryption", "Connected", "Rejected"})
<1> DEFINE d == Msg("Disconnected", conn, 0)
           e == Msg("Reset", 0, 0)
<1>1. d.kind = "Disconnected" /\ e.kind = "Reset"
  BY DEF Msg
<1>2. Disconnected \in {<<>>, <<d>>}
  BY DEF Disconnected
<1>3. AddsNo(Disconnected, {"Encryption", "Connected", "Rejected"})
  BY <1>1, <1>2 DEF AddsNo
<1>4. AddsNo(<<e>>, {"Encryption", "Connected", "Rejected"})
  BY <1>1 DEF AddsNo
<1> HIDE DEF d, e
<1>5. Disconnected \in Seq({d, e}) /\ <<e>> \in Seq({d, e})
  <2>1. <<>> \in Seq({d, e})
    OBVIOUS
  <2>2. <<d>> \in Seq({d, e}) /\ <<e>> \in Seq({d, e})
    OBVIOUS
  <2> QED BY ONLY <1>2, <2>1, <2>2
<1>6. AddsNo(Disconnected \o <<e>>, {"Encryption", "Connected", "Rejected"})
  BY ONLY <1>3, <1>4, <1>5, ConcatHushed
<1>7. ResetMessages = Disconnected \o <<e>>
  BY DEF ResetMessages, e
<1> QED BY ONLY <1>3, <1>6, <1>7

LEMMA CtlReceiveKeys == ASSUME LinkInv, KeysInv, CtlInv', CtlRest, PeerStays, CtlReceive PROVE KeysInv'
<1> DEFINE m == Head(toCtl[cSock])
<1>0. /\ cSock \in Sockets /\ m \in CtlMsgs /\ m = toCtl[cSock][1] /\ 1 \in 1..Len(toCtl[cSock])
      /\ (conn # 0 /\ pSock # 0 => pSock = cSock)
  BY CtlReads
<1>1. LinkTypes /\ peerMessage(m) /\ conn \in Nat /\ nextGeneration \in Nat
  BY Places DEF LinkInv, CtlReceive
<1>2. CASE m.kind = "Connect" /\ reject(m)
  <2>1. m.gen = 0
    BY <1>0, <1>2 DEF KeysInv, ConnectInv
  <2> QED BY <1>2, <2>1, RejectKeys
<1>3. CASE m.kind # "Connect" /\ ~ForThisLink(m) /\ reject(m)
  BY <1>3, RejectKeys DEF ForThisLink
<1>4. CASE m.kind = "Encrypt" /\ ForThisLink(m) /\ (cKey # 0 \/ cEncrypted) /\ reject(m)
  <2>1. 1 \in Asks(toCtl[cSock], conn) /\ Mentions(toCtl[cSock], conn) /\ conn # 0
    BY <1>0, <1>4 DEF Asks, Mentions, ForThisLink
  <2>2. ~Shared
    BY <1>0, <1>4, <2>1 DEF KeysInv, AskInv, Shared
  <2>3. ASSUME pSock # 0 PROVE ~Unheard
    BY <1>0, <2>1, <2>3 DEF KeysInv, UnheardInv
  <2> QED BY <1>4, <2>2, <2>3, RejectKeys
<1>5. CASE m.kind = "Encrypt" /\ ForThisLink(m) /\ cKey = 0 /\ ~cEncrypted /\ cKey' = m.val
           /\ UNCHANGED <<toPeer, cSock, radio, conn, published, cEncrypted, guest>>
  <2>1. conn # 0 /\ m.gen = conn /\ guestBond' = guestBond
    BY <1>5 DEF ForThisLink, guest
  <2> QED BY <1>5, <2>1, EncryptKeys
<1>6. CASE m.kind \in {"Att", "Smp"} /\ UNCHANGED <<toPeer, cSock, conn, security, guestBond>>
  <2>1. Adds(<<>>) /\ AddsNo(<<>>, {"Encryption", "Connected", "Rejected"})
    BY <1>6, AddsNothing DEF AddsNo
  <2>2. conn' = conn /\ cKey' = cKey /\ cEncrypted' = cEncrypted /\ cSock' \in {0, cSock} /\ guestBond' = guestBond
    BY <1>6 DEF security
  <2> QED BY <2>1, <2>2, HushedKeys
<1>7. CASE CtlSends(Disconnected) /\ NoLink /\ GuestLinkDown
  <2>1. Adds(Disconnected)
    BY <1>1, <1>7, DisconnectedType, CtlAdds
  <2>2. conn' = 0 /\ guestBond' = guestBond /\ cSock' \in {0, cSock}
    BY <1>7, CtlKeepsEnd DEF NoLink, GuestLinkDown
  <2> QED BY <2>1, <2>2, HushedDisconnected, HushedKeys
<1>8. CASE /\ m.kind = "Connect" /\ conn = 0 /\ nextGeneration < MaxGenerations
           /\ conn' = nextGeneration + 1 /\ cEncrypted' = FALSE /\ cKey' = 0
           /\ CtlSends(<<Msg("Connected", nextGeneration + 1, 0)>>) /\ UNCHANGED guest
  <2> DEFINE x == Msg("Connected", nextGeneration + 1, 0)
  <2>1. nextGeneration + 1 \in Keys /\ 0 \in Keys
    BY <1>1, <1>8, Bounds DEF Keys
  <2>2. x \in PeerMsg /\ x.kind = "Connected"
    BY <2>1, PeerMsgType DEF PeerKinds, Msg
  <2>3. <<x>> \in Seq(PeerMsg)
    BY <2>2
  <2>4. Adds(<<x>>)
    BY <1>1, <1>8, <2>3, CtlAdds
  <2>5. AddsNo(<<x>>, {"Encryption", "Rejected"})
    BY <2>2 DEF AddsNo
  <2>6. UNCHANGED guestBond /\ cSock' \in {0, cSock}
    BY <1>8, CtlKeepsEnd DEF guest
  <2>7. ~cEncrypted' /\ cKey' = 0 /\ conn' = nextGeneration + 1
    BY <1>8
  <2> QED BY <2>4, <2>5, <2>6, <2>7, LinkOpens
<1> QED BY <1>1, <1>2, <1>3, <1>4, <1>5, <1>6, <1>7, <1>8 DEF peerMessage

LEMMA CtlStepKeys == ASSUME LinkInv, KeysInv, CtlStep PROVE KeysInv'
<1>0. LinkTypes /\ CtlInv /\ CtlInv' /\ CtlRest /\ PeerStays
  BY CtlStepInv, CtlRests, CtlLeavesPeer DEF LinkInv
<1>1. CASE CtlReceive
  BY <1>0, <1>1, CtlReceiveKeys
<1>2. CASE GuestAnswersKey
  BY <1>0, <1>2, GuestAnswersKeys
<1>n. AddsNo(<<>>, {"Encryption"}) /\ AddsNo(<<>>, {"Encryption", "Connected", "Rejected"})
  BY DEF AddsNo
<1>3. CASE CtlOpen \/ CtlRestarts \/ GuestForgetsBond \/ CtlLosesSocket
  <2>1. toPeer' = toPeer /\ conn' = 0 /\ guestBond' \in {0, guestBond}
    BY <1>0, <1>3 DEF CtlOpen, CtlRestarts, GuestForgetsBond, CtlLosesSocket, NoLink, GuestLinkDown, guest, CtlInv
  <2>2. Adds(<<>>)
    BY <2>1, AddsNothing
  <2> QED BY <1>0, <1>n, <2>1, <2>2, LinkEnds
<1>4. ASSUME NEW msgs \in Seq(PeerMsg), CtlSends(msgs), AddsNo(msgs, {"Encryption", "Connected", "Rejected"}),
             guestBond' = guestBond, (conn' = conn /\ cKey' = cKey /\ cEncrypted' = cEncrypted) \/ conn' = 0
      PROVE  KeysInv'
  <2>1. Adds(msgs)
    BY <1>0, <1>4, CtlAdds
  <2>2. cSock' \in {0, cSock}
    BY <1>4, CtlKeepsEnd
  <2> QED BY <1>0, <1>4, <2>1, <2>2, HushedKeys
<1>5. conn \in Keys /\ 0 \in Keys
  BY <1>0, KeyFacts DEF LinkTypes, CtlTypes
<1>6. ASSUME NEW k \in PeerKinds \ {"Encryption", "Connected", "Rejected"}, NEW g \in Keys,
             NEW v \in Keys \cup Images, k = "Smp" => v = g, k \in {"AdvertisingOn", "AdvertisingOff", "Gatt"} => v \in Images
      PROVE  <<Msg(k, g, v)>> \in Seq(PeerMsg) /\ AddsNo(<<Msg(k, g, v)>>, {"Encryption", "Connected", "Rejected"})
  <2>1. Msg(k, g, v) \in PeerMsg /\ Msg(k, g, v).kind = k
    BY <1>6, PeerMsgType DEF Msg
  <2> QED BY <1>6, <2>1 DEF AddsNo
<1>7. CASE GuestAdvertises
  <2>1. PICK a \in Images, db \in Images \cup {0} :
          CtlSends(<<Msg("AdvertisingOn", 0, a)>> \o publishGatt(db))
    BY <1>7 DEF GuestAdvertises
  <2> DEFINE x == Msg("AdvertisingOn", 0, a)
             y == Msg("Gatt", 0, db)
  <2>2. x \in PeerMsg /\ y \in PeerMsg /\ x.kind = "AdvertisingOn" /\ y.kind = "Gatt"
    BY <1>5, PeerMsgType DEF PeerKinds, Msg
  <2>3. <<x>> \in Seq(PeerMsg) /\ <<y>> \in Seq(PeerMsg)
    BY ONLY <2>2
  <2>4. /\ AddsNo(<<x>>, {"Encryption", "Connected", "Rejected"})
        /\ AddsNo(<<y>>, {"Encryption", "Connected", "Rejected"})
    BY <2>2 DEF AddsNo
  <2>5. /\ <<x>> \o <<y>> \in Seq(PeerMsg)
        /\ AddsNo(<<x>> \o <<y>>, {"Encryption", "Connected", "Rejected"})
    BY ONLY <2>3, <2>4, ConcatHushed
  <2>7. CtlSends(<<x>> \o <<y>>)
    BY <2>1 DEF publishGatt
  <2>6. guestBond' = guestBond /\ conn' = conn /\ cKey' = cKey /\ cEncrypted' = cEncrypted
    BY <1>7 DEF GuestAdvertises, guest
  <2> QED BY <1>4, <2>5, <2>6, <2>7
<1>8. CASE GuestStopsAdvertising
  <2>1. PICK a \in Images : CtlSends(<<Msg("AdvertisingOff", 0, a)>>)
    BY <1>8 DEF GuestStopsAdvertising
  <2>2. <<Msg("AdvertisingOff", 0, a)>> \in Seq(PeerMsg)
        /\ AddsNo(<<Msg("AdvertisingOff", 0, a)>>, {"Encryption", "Connected", "Rejected"})
    BY <1>5, <1>6 DEF PeerKinds
  <2>3. guestBond' = guestBond /\ conn' = conn /\ cKey' = cKey /\ cEncrypted' = cEncrypted
    BY <1>8 DEF GuestStopsAdvertising, guest
  <2> QED BY <1>4, <2>1, <2>2, <2>3
<1>9. CASE GuestDisconnects
  <2>1. CtlSends(Disconnected) /\ conn' = 0 /\ guestBond' = guestBond /\ Disconnected \in Seq(PeerMsg)
    BY <1>0, <1>9, DisconnectedType DEF GuestDisconnects, NoLink, GuestLinkDown
  <2> QED BY <1>4, <2>1, HushedDisconnected
<1>10. CASE GuestResets
  <2>1. CtlSends(ResetMessages) /\ conn' = 0 /\ guestBond' = guestBond /\ ResetMessages \in Seq(PeerMsg)
    BY <1>0, <1>10, DisconnectedType DEF GuestResets, NoLink, GuestLinkDown
  <2> QED BY <1>4, <2>1, HushedDisconnected
<1>11. CASE GuestAnswersAtt
  <2>1. PICK k \in {"Att", "AttSecurity"} : CtlSends(<<Msg(k, conn, 0)>>)
    BY <1>11 DEF GuestAnswersAtt
  <2>2. <<Msg(k, conn, 0)>> \in Seq(PeerMsg) /\ AddsNo(<<Msg(k, conn, 0)>>, {"Encryption", "Connected", "Rejected"})
    BY <1>5, <1>6 DEF PeerKinds
  <2>3. guestBond' = guestBond /\ conn' = conn /\ cKey' = cKey /\ cEncrypted' = cEncrypted
    BY <1>11 DEF GuestAnswersAtt, security
  <2> QED BY <1>4, <2>1, <2>2, <2>3
<1>12. CASE GuestPairs
  <2>1. CtlSends(<<Msg("Smp", conn, conn)>>)
    BY <1>12 DEF GuestPairs
  <2>2. <<Msg("Smp", conn, conn)>> \in Seq(PeerMsg)
        /\ AddsNo(<<Msg("Smp", conn, conn)>>, {"Encryption", "Connected", "Rejected"})
    BY <1>5, <1>6 DEF PeerKinds
  <2>3. guestBond' = guestBond /\ conn' = conn /\ cKey' = cKey /\ cEncrypted' = cEncrypted
    BY <1>12 DEF GuestPairs, security
  <2> QED BY <1>4, <2>1, <2>2, <2>3
<1>13. CASE GuestRequestsSecurity
  <2>1. CtlSends(<<Msg("SecurityRequest", conn, 0)>>)
    BY <1>13 DEF GuestRequestsSecurity
  <2>2. <<Msg("SecurityRequest", conn, 0)>> \in Seq(PeerMsg)
        /\ AddsNo(<<Msg("SecurityRequest", conn, 0)>>, {"Encryption", "Connected", "Rejected"})
    BY <1>5, <1>6 DEF PeerKinds
  <2>3. guestBond' = guestBond /\ conn' = conn /\ cKey' = cKey /\ cEncrypted' = cEncrypted
    BY <1>13 DEF GuestRequestsSecurity, security, guest
  <2> QED BY <1>4, <2>1, <2>2, <2>3
<1> QED BY <1>1, <1>2, <1>3, <1>7, <1>8, <1>9, <1>10, <1>11, <1>12, <1>13 DEF CtlStep

-----------------------------------------------------------------------------
(* The theorems.                                                           *)

LEMMA InitKeys == Init => KeysInv
<1> SUFFICES ASSUME Init PROVE KeysInv
  OBVIOUS
<1>1. LinkKeys
  BY DEF Init, LinkKeys, AnswerInv, UnheardInv, AskInv, SharedInv, Shared
<1>2. BondInv /\ ConnectInv
  BY DEF Init, BondInv, BondsMatch, ConnectInv
<1> QED BY <1>1, <1>2 DEF KeysInv, LinkKeys

LEMMA StepKeys == LinkInv /\ KeysInv /\ [Next]_vars => KeysInv'
<1> SUFFICES ASSUME LinkInv, KeysInv, [Next]_vars PROVE KeysInv'
  OBVIOUS
<1>1. CASE CtlStep
  BY <1>1, CtlStepKeys
<1>2. CASE PeerStep
  BY <1>2, PeerStepKeys
<1>3. CASE UNCHANGED vars
  <2> USE <1>3 DEF vars, wire, controller, radio, security, guest, peer, session, attention
  <2>1. Exchanging' = Exchanging /\ Shared' = Shared /\ Unheard' = Unheard
    BY DEF Exchanging, Shared, Unheard
  <2>2. AnswerInv' /\ UnheardInv'
    BY <2>1 DEF KeysInv, AnswerInv, UnheardInv
  <2>3. AskInv' /\ SharedInv'
    BY <2>1 DEF KeysInv, AskInv, SharedInv
  <2>4. BondInv' /\ ConnectInv'
    BY DEF KeysInv, BondInv, BondsMatch, ConnectInv
  <2> QED BY <2>2, <2>3, <2>4 DEF KeysInv
<1> QED BY <1>1, <1>2, <1>3 DEF Next

(* KeysInv holds in every reachable state: what SmpSession and the         *)
(* controller's finishEncryption have said of the keys, and what of it has *)
(* not been read, fits the states of both.                                 *)
THEOREM KeysInvariance == Spec => []KeysInv
<1>1. Init => LinkInv /\ KeysInv
  BY InitInv, InitKeys
<1>2. LinkInv /\ KeysInv /\ [Next]_vars => LinkInv' /\ KeysInv'
  BY StepInv, StepKeys
<1> QED BY <1>1, <1>2, PTL DEF Spec

(* Encryption that SmpSession relies on is on in the controller, and a     *)
(* bond that both sides keep has one key, however restarts, erased bonds   *)
(* and lost answers cross.                                                 *)
THEOREM SecurityCorrect == Spec => []SecurityAgreement
<1>1. LinkInv /\ KeysInv => SecurityAgreement
  <2> SUFFICES ASSUME LinkInv, KeysInv PROVE SecurityAgreement
    OBVIOUS
  <2>1. BondsMatch
    BY DEF KeysInv, BondInv
  <2>2. EncryptionAgreement
    <3> SUFFICES ASSUME Joined, smp = "Encrypted", conn = generation PROVE cEncrypted
      BY DEF EncryptionAgreement
    <3>1. generation # 0
      BY DEF LinkInv, PeerInv, SessionInv
    <3>2. Shared
      BY <3>1 DEF Shared, Joined
    <3> QED BY <3>2 DEF KeysInv, SharedInv
  <2> QED BY <2>1, <2>2 DEF SecurityAgreement
<1> QED BY <1>1, Invariance, KeysInvariance, PTL

(* On a link both sides agree on, peerMessage refuses nothing: the refusal *)
(* that fails a session is never of a request the session has made.        *)
THEOREM RejectCorrect == Spec => []NoSpuriousReject
<1>1. KeysInv => NoSpuriousReject
  <2> SUFFICES ASSUME KeysInv, Joined, generation # 0, conn = generation PROVE ~Coming("Rejected", generation)
    BY DEF NoSpuriousReject
  <2>1. Shared
    BY DEF Shared, Joined
  <2>2. ~Refuses(toPeer[pSock], conn)
    BY <2>1 DEF KeysInv, SharedInv
  <2> QED BY <2>2 DEF Refuses, Coming
<1> QED BY <1>1, KeysInvariance, PTL

=============================================================================
