-------------------------- MODULE HandshakeProofs --------------------------
(***************************************************************************)
(* For any limit on the number of CHLOs: both sides derive their keys from *)
(* the same CHLO, announce them in order, and forget no packet that came   *)
(* before its key.                                                         *)
(***************************************************************************)
EXTENDS Handshake, SequenceTheorems, TLAPS

\* The provers of a leaf that names none: a step may need Zenon, or SMT at length.
USE SMTT(10), ZenonT(20), SMTT(30)

Levels == {"null", "secure", "forwardSecure"}

Packet ==
    [to : {"nobody", "client", "server"}, level : Levels,
     body : {"none", "CHLO", "REJ", "SHLO", "data"}, n : Nat]

CryptoSetup ==
    [crypto : {"upgrade", "select", "failed", "read", "write", "writeSHLO", "announce", "sentSHLO",
               "done"},
     loop : {"select", "nonce", "open", "wait", "closed"}, packet : Packet, writes : Packet,
     got : Nat, read : Nat, secure : Nat, forwardSecure : Nat, receivedSecurePacket : BOOLEAN,
     announced : Seq(Levels), closed : BOOLEAN,
     heard : Nat, undecryptable : SUBSET Packet, complete : BOOLEAN]

Client ==
    [cs : CryptoSetup, scfg : Configs, nonc : Configs, cert : BOOLEAN, serverVerified : BOOLEAN,
     stk : BOOLEAN, divNonce : BOOLEAN, lastSentCHLO : Nat]

Server == [cs : CryptoSetup, receivedForwardSecurePacket : BOOLEAN, sentSHLO : BOOLEAN]

Hello == [full : BOOLEAN, stk : BOOLEAN, obit : Configs]

Types ==
    /\ c \in Client /\ s \in Server /\ policy \in Policies /\ cached \in Configs
    /\ hellos \in Seq(Hello) /\ net \in SUBSET Packet

\* How many CHLOs there are, and how many levels each side has announced.
sent == Len(hellos)
cLevels == Len(c.cs.announced)
sLevels == Len(s.cs.announced)

(***************************************************************************)
(* The two sides take turns: the client sends a CHLO after it has read the *)
(* answer to the one before, and the server has not read more CHLOs than   *)
(* there are.                                                              *)
(***************************************************************************)
Turns ==
    /\ s.cs.read <= s.cs.got /\ s.cs.got <= sent
    /\ c.cs.read <= c.cs.got /\ c.cs.got <= s.cs.read
    /\ c.cs.read >= sent - 1
    /\ c.cs.crypto \in {"select", "upgrade"} => c.lastSentCHLO = sent
    /\ c.cs.crypto = "upgrade" =>
          (c.cs.read = sent /\ s.cs.secure = 0) \/ c.cs.secure # 0 \/ c.divNonce

\* What is in the network, and what is about to be sent.
Messages ==
    /\ \A p \in net :
          /\ p.to = "server" /\ p.body # "data" => p.n <= sent
          /\ p.to = "client" /\ p.body # "data" => p.n <= s.cs.read
          /\ p.to = "client" /\ p.level = "secure" => s.cs.secure # 0
          /\ p.to = "client" /\ p.level = "forwardSecure" =>
                s.cs.forwardSecure # 0 /\ p.n = s.cs.forwardSecure
          /\ p.to = "server" /\ p.level = "forwardSecure" =>
                c.cs.forwardSecure # 0 /\ p.n = c.cs.forwardSecure
    /\ c.cs.writes # None => /\ c.cs.writes.to = "server" /\ c.cs.writes.level = "null"
                             /\ c.cs.writes.n <= sent
    /\ s.cs.writes # None => s.cs.writes.to = "client" /\ s.cs.writes.n <= s.cs.read
    /\ c.cs.loop \in {"nonce", "open"} =>
          c.cs.packet \in net /\ c.cs.packet.to = "client" /\ c.cs.packet.level = "secure"
    /\ s.cs.loop = "wait" => s.cs.packet \in net /\ s.cs.packet.to = "server"

(***************************************************************************)
(* The keys.  The server derives its keys from the last CHLO there is,     *)
(* with which the client has shown that it has all it needs to derive the  *)
(* same ones; the client does once a packet with the nonce proves that the *)
(* server has.                                                             *)
(***************************************************************************)
Keys ==
    /\ s.cs.secure = 0 <=> s.cs.crypto \in {"read", "write", "failed"}
    /\ s.cs.forwardSecure = s.cs.secure
    /\ s.cs.secure # 0 => /\ s.cs.secure = sent /\ s.cs.read = sent
                          /\ hellos[sent].full
    /\ sent # 0 => (hellos[sent].full => c.scfg # "none" /\ c.cert)
    /\ c.cert => c.serverVerified
    /\ c.divNonce => s.cs.secure # 0
    /\ c.cs.receivedSecurePacket => c.cs.secure # 0
    /\ SameKeys

\* The secure level is announced first, then the forward-secure one.
InOrder(announced, levels) ==
    /\ levels <= 2
    /\ levels >= 1 => announced[1] = "secure"
    /\ levels = 2 => announced[2] = "forwardSecure"

Announced ==
    /\ InOrder(c.cs.announced, cLevels) /\ InOrder(s.cs.announced, sLevels)
    /\ cLevels = 0 <=> c.cs.secure = 0
    /\ cLevels = 2 => c.cs.read = sent /\ c.cs.forwardSecure # 0
    /\ c.cs.closed => cLevels = 2
    /\ sLevels = 0 <=> s.cs.secure = 0
    /\ sLevels = 2 <=> s.cs.crypto \in {"sentSHLO", "done"}
    /\ s.sentSHLO => s.cs.crypto = "done"
    /\ s.cs.closed => s.sentSHLO

\* Once a side has heard of both levels, it keeps no forward-secure packet.
KeptBy(cs, levels) ==
    /\ cs.heard <= levels /\ cs.undecryptable \subseteq net
    /\ cs.complete => cs.heard = 2
    /\ cs.heard = 2 => \A p \in cs.undecryptable : p.level # "forwardSecure"

Kept == KeptBy(c.cs, cLevels) /\ KeptBy(s.cs, sLevels)

IInv == Types /\ Turns /\ Messages /\ Keys /\ Announced /\ Kept
-----------------------------------------------------------------------------
\* The parts of either side's state that a step changes or leaves alone.
cFlow == <<c.cs.crypto, c.cs.got, c.cs.read, c.lastSentCHLO>>
cCreds == <<c.scfg, c.cert, c.serverVerified, c.divNonce>>
cKeys == <<c.cs.secure, c.cs.forwardSecure, c.cs.receivedSecurePacket>>
cLoop == <<c.cs.loop, c.cs.packet>>
cTold == <<cLevels, c.cs.announced, c.cs.closed>>
cKept == <<c.cs.heard, c.cs.undecryptable, c.cs.complete>>
sFlow == <<s.cs.crypto, s.cs.got, s.cs.read, s.sentSHLO>>
sKeys == <<s.cs.secure, s.cs.forwardSecure>>
sLoop == <<s.cs.loop, s.cs.packet>>
sTold == <<sLevels, s.cs.announced, s.cs.closed>>
sKept == <<s.cs.heard, s.cs.undecryptable, s.cs.complete>>

TypedFields ==
    /\ c.cs \in CryptoSetup /\ s.cs \in CryptoSetup
    /\ c.cs.got \in Nat /\ c.cs.read \in Nat /\ c.lastSentCHLO \in Nat
    /\ c.cs.secure \in Nat /\ c.cs.forwardSecure \in Nat /\ c.cs.heard \in Nat
    /\ s.cs.got \in Nat /\ s.cs.read \in Nat
    /\ s.cs.secure \in Nat /\ s.cs.forwardSecure \in Nat /\ s.cs.heard \in Nat
    /\ cLevels \in Nat /\ sLevels \in Nat /\ sent \in Nat /\ \A p \in net : p.n \in Nat

\* Types gives every field that the proofs compute with its type.
LEMMA TypeFacts == Types => TypedFields
<1> SUFFICES ASSUME Types PROVE TypedFields
  OBVIOUS
<1>1. c.cs \in CryptoSetup /\ s.cs \in CryptoSetup /\ c.lastSentCHLO \in Nat /\ sent \in Nat
  BY DEF Types, Client, Server, sent
<1>2. \A cs \in CryptoSetup :
         /\ cs.got \in Nat /\ cs.read \in Nat /\ cs.secure \in Nat /\ cs.forwardSecure \in Nat
         /\ cs.heard \in Nat /\ cs.announced \in Seq(Levels)
  BY DEF CryptoSetup
<1>3. c.cs.announced \in Seq(Levels) /\ s.cs.announced \in Seq(Levels)
  BY <1>1, <1>2
<1>4. cLevels \in Nat /\ sLevels \in Nat
  BY <1>3, LenProperties DEF cLevels, sLevels
<1>5. \A p \in net : p.n \in Nat
  BY DEF Types, Packet
<1> QED
  BY <1>1, <1>2, <1>3, <1>4, <1>5 DEF TypedFields

\* What is announced next comes after what was announced.
LEMMA AppendLevel ==
    ASSUME NEW q \in Seq(Levels), NEW n \in Nat, n = Len(q), NEW l \in Levels
    PROVE  /\ Append(q, l) \in Seq(Levels) /\ Len(Append(q, l)) = n + 1
           /\ Append(q, l)[n + 1] = l /\ \A i \in 1 .. n : Append(q, l)[i] = q[i]
  BY AppendProperties

-----------------------------------------------------------------------------
(***************************************************************************)
(* One lemma per action: it keeps every part of the invariant.             *)
(***************************************************************************)
LEMMA sentCHLOPreserves ==
    ASSUME IInv, sentCHLO
    PROVE  IInv'
<1> TypedFields
  BY TypeFacts DEF IInv
<1> USE DEF IInv, TypedFields
<1>1. /\ c' = [c EXCEPT !.cs.crypto = "select", !.lastSentCHLO = sent]
      /\ UNCHANGED <<cached, policy, s, hellos, net>>
  BY DEF sentCHLO, sent
<1>2. Types'
  BY <1>1, Zenon DEF Types, Client, CryptoSetup
<1>3. /\ c'.cs.crypto = "select" /\ c'.lastSentCHLO = sent
      /\ UNCHANGED <<sent, sLevels, c.cs.got, c.cs.read, c.cs.writes, cCreds, cKeys, cLoop, cTold, cKept>>
  BY <1>1, Zenon DEF Types, Client, CryptoSetup, sent, cLevels, sLevels,
     cFlow, cCreds, cKeys, cLoop, cTold, cKept
<1> USE <1>1, <1>3 DEF cFlow, cCreds, cKeys, cLoop, cTold, cKept
<1>4. Turns'
  BY DEF Turns
<1>5. Messages'
  BY DEF Messages
<1>6. Keys' /\ Announced'
  BY DEF Keys, SameKeys, Announced, InOrder
<1>7. Kept'
  BY DEF Kept, KeptBy
<1> QED
  BY <1>2, <1>4, <1>5, <1>6, <1>7

LEMMA SetDiversificationNoncePreserves ==
    ASSUME IInv, SetDiversificationNonce
    PROVE  IInv'
<1> TypedFields
  BY TypeFacts DEF IInv
<1> USE DEF IInv, TypedFields
<1>1. /\ c.cs.loop = "nonce" /\ c.cs.crypto = "select"
      /\ c' = [c EXCEPT !.cs.loop = "open", !.cs.crypto = "upgrade", !.divNonce = TRUE]
      /\ UNCHANGED <<cached, policy, s, hellos, net>>
  BY DEF SetDiversificationNonce
<1>2. Types'
  BY <1>1, ZenonT(30) DEF Types, Client, CryptoSetup
<1>3. /\ c'.cs.loop = "open" /\ c'.cs.crypto = "upgrade" /\ c'.divNonce
      /\ UNCHANGED <<sent, sLevels, c.cs.got, c.cs.read, c.lastSentCHLO, c.cs.writes, c.scfg, c.cert,
                     c.serverVerified, cKeys, c.cs.packet, cTold, cKept>>
  BY <1>1, Zenon DEF Types, Client, CryptoSetup, sent, cLevels, sLevels,
     cFlow, cCreds, cKeys, cLoop, cTold, cKept
<1> USE <1>1, <1>3 DEF cFlow, cCreds, cKeys, cLoop, cTold, cKept
<1>4. Turns'
  BY DEF Turns
<1>5. Messages'
  BY DEF Messages
<1>6. Keys' /\ Announced'
  BY DEF Keys, SameKeys, Announced, InOrder, Messages
<1>7. Kept'
  BY DEF Kept, KeptBy
<1> QED
  BY <1>2, <1>4, <1>5, <1>6, <1>7

LEMMA ClientClosePreserves ==
    ASSUME IInv, ClientClose
    PROVE  IInv'
<1> TypedFields
  BY TypeFacts DEF IInv
<1> USE DEF IInv, TypedFields
<1>1. /\ c' = [c EXCEPT !.cs.loop = "closed"]
      /\ UNCHANGED <<cached, policy, s, hellos, net>>
  BY DEF ClientClose
<1>2. Types'
  BY <1>1, Zenon DEF Types, Client, CryptoSetup
<1>3. /\ c'.cs.loop = "closed"
      /\ UNCHANGED <<sent, sLevels, cFlow, c.cs.writes, cCreds, cKeys, c.cs.packet, cTold, cKept>>
  BY <1>1, Zenon DEF Types, Client, CryptoSetup, sent, cLevels, sLevels,
     cFlow, cCreds, cKeys, cLoop, cTold, cKept
<1> USE <1>1, <1>3 DEF cFlow, cCreds, cKeys, cLoop, cTold, cKept
<1>4. Turns'
  BY DEF Turns
<1>5. Messages'
  BY DEF Messages
<1>6. Keys' /\ Announced'
  BY DEF Keys, SameKeys, Announced, InOrder
<1>7. Kept'
  BY DEF Kept, KeptBy
<1> QED
  BY <1>2, <1>4, <1>5, <1>6, <1>7

LEMMA ClientCompletePreserves ==
    ASSUME IInv, ClientComplete
    PROVE  IInv'
<1> TypedFields
  BY TypeFacts DEF IInv
<1> USE DEF IInv, TypedFields
<1>1. /\ c.cs.closed /\ c.cs.heard = cLevels
      /\ c' = [c EXCEPT !.cs.complete = TRUE]
      /\ UNCHANGED <<cached, policy, s, hellos, net>>
  BY DEF ClientComplete, cLevels
<1>2. Types'
  BY <1>1, ZenonT(30) DEF Types, Client, CryptoSetup
<1>3. /\ c'.cs.complete = TRUE
      /\ UNCHANGED <<sent, sLevels, cFlow, c.cs.writes, cCreds, cKeys, cLoop, cTold, c.cs.heard, c.cs.undecryptable>>
  BY <1>1, Zenon DEF Types, Client, CryptoSetup, sent, cLevels, sLevels,
     cFlow, cCreds, cKeys, cLoop, cTold, cKept
<1> USE <1>1, <1>3 DEF cFlow, cCreds, cKeys, cLoop, cTold, cKept
<1>4. Turns'
  BY DEF Turns
<1>5. Messages'
  BY DEF Messages
<1>6. Keys' /\ Announced'
  BY DEF Keys, SameKeys, Announced, InOrder
<1>7. Kept'
  BY Zenon DEF Kept, KeptBy, Announced
<1> QED
  BY <1>2, <1>4, <1>5, <1>6, <1>7

LEMMA WriteReturnsPreserves ==
    ASSUME IInv, WriteReturns
    PROVE  IInv'
<1> TypedFields
  BY TypeFacts DEF IInv
<1> USE DEF IInv, TypedFields
<1>1. /\ s' = [s EXCEPT !.cs.crypto = IF s.cs.crypto = "write" THEN "read" ELSE "announce"]
      /\ s.cs.crypto \in {"write", "writeSHLO"}
      /\ UNCHANGED <<cached, policy, c, hellos, net>>
  BY DEF WriteReturns
<1>2. Types'
  BY <1>1, ZenonT(30) DEF Types, Server, CryptoSetup
<1>3. /\ s'.cs.crypto = IF s.cs.crypto = "write" THEN "read" ELSE "announce"
      /\ UNCHANGED <<sent, cLevels, s.cs.got, s.cs.read, s.sentSHLO, s.cs.writes, sKeys, sLoop, sTold, sKept>>
  BY <1>1, Zenon DEF Types, Server, CryptoSetup, sent, cLevels, sLevels,
     sFlow, sKeys, sLoop, sTold, sKept
<1> USE <1>1, <1>3 DEF sFlow, sKeys, sLoop, sTold, sKept
<1>4. Turns'
  BY DEF Turns
<1>5. Messages'
  BY DEF Messages
<1>6. Keys' /\ Announced'
  BY DEF Keys, SameKeys, Announced, InOrder
<1>7. Kept'
  BY DEF Kept, KeptBy
<1> QED
  BY <1>2, <1>4, <1>5, <1>6, <1>7

LEMMA ServerClosePreserves ==
    ASSUME IInv, ServerClose
    PROVE  IInv'
<1> TypedFields
  BY TypeFacts DEF IInv
<1> USE DEF IInv, TypedFields
<1>1. /\ s' = [s EXCEPT !.cs.loop = "closed"]
      /\ UNCHANGED <<cached, policy, c, hellos, net>>
  BY DEF ServerClose
<1>2. Types'
  BY <1>1, Zenon DEF Types, Server, CryptoSetup
<1>3. /\ s'.cs.loop = "closed"
      /\ UNCHANGED <<sent, cLevels, sFlow, s.cs.writes, sKeys, s.cs.packet, sTold, sKept>>
  BY <1>1, Zenon DEF Types, Server, CryptoSetup, sent, cLevels, sLevels,
     sFlow, sKeys, sLoop, sTold, sKept
<1> USE <1>1, <1>3 DEF sFlow, sKeys, sLoop, sTold, sKept
<1>4. Turns'
  BY DEF Turns
<1>5. Messages'
  BY DEF Messages
<1>6. Keys' /\ Announced'
  BY DEF Keys, SameKeys, Announced, InOrder
<1>7. Kept'
  BY DEF Kept, KeptBy
<1> QED
  BY <1>2, <1>4, <1>5, <1>6, <1>7

LEMMA closeSentSHLOPreserves ==
    ASSUME IInv, closeSentSHLO
    PROVE  IInv'
<1> TypedFields
  BY TypeFacts DEF IInv
<1> USE DEF IInv, TypedFields
<1>1. /\ s.cs.crypto = "sentSHLO" /\ s' = [s EXCEPT !.cs.crypto = "done", !.sentSHLO = TRUE]
      /\ UNCHANGED <<cached, policy, c, hellos, net>>
  BY DEF closeSentSHLO
<1>2. Types'
  BY <1>1, Zenon DEF Types, Server, CryptoSetup
<1>3. /\ s'.cs.crypto = "done" /\ s'.sentSHLO
      /\ UNCHANGED <<sent, cLevels, s.cs.got, s.cs.read, s.cs.writes, sKeys, sLoop, sTold, sKept>>
  BY <1>1, Zenon DEF Types, Server, CryptoSetup, sent, cLevels, sLevels,
     sFlow, sKeys, sLoop, sTold, sKept
<1> USE <1>1, <1>3 DEF sFlow, sKeys, sLoop, sTold, sKept
<1>4. Turns'
  BY DEF Turns
<1>5. Messages'
  BY DEF Messages
<1>6. Keys' /\ Announced'
  BY DEF Keys, SameKeys, Announced, InOrder
<1>7. Kept'
  BY DEF Kept, KeptBy
<1> QED
  BY <1>2, <1>4, <1>5, <1>6, <1>7

LEMMA ServerCompletePreserves ==
    ASSUME IInv, ServerComplete
    PROVE  IInv'
<1> TypedFields
  BY TypeFacts DEF IInv
<1> USE DEF IInv, TypedFields
<1>1. /\ s.cs.closed /\ s.cs.heard = sLevels
      /\ s' = [s EXCEPT !.cs.complete = TRUE]
      /\ UNCHANGED <<cached, policy, c, hellos, net>>
  BY DEF ServerComplete, sLevels
<1>2. Types'
  BY <1>1, Zenon DEF Types, Server, CryptoSetup
<1>3. /\ s'.cs.complete = TRUE
      /\ UNCHANGED <<sent, cLevels, sFlow, s.cs.writes, sKeys, sLoop, sTold, s.cs.heard, s.cs.undecryptable>>
  BY <1>1, Zenon DEF Types, Server, CryptoSetup, sent, cLevels, sLevels,
     sFlow, sKeys, sLoop, sTold, sKept
<1> USE <1>1, <1>3 DEF sFlow, sKeys, sLoop, sTold, sKept
<1>4. Turns'
  BY DEF Turns
<1>5. Messages'
  BY DEF Messages
<1>6. Keys' /\ Announced'
  BY DEF Keys, SameKeys, Announced, InOrder
<1>7. Kept'
  BY Zenon DEF Kept, KeptBy, Announced
<1> QED
  BY <1>2, <1>4, <1>5, <1>6, <1>7

LEMMA ServerAeadChangedPreserves ==
    ASSUME IInv, ServerAeadChanged
    PROVE  IInv'
<1> TypedFields
  BY TypeFacts DEF IInv
<1> USE DEF IInv, TypedFields
<1> DEFINE heard == s.cs.heard + 1
<1>1. /\ s.cs.heard < sLevels
      /\ s' = [s EXCEPT !.cs.heard = heard, !.cs.undecryptable = {}]
      /\ UNCHANGED <<cached, policy, c, hellos, net>>
  BY DEF ServerAeadChanged, sLevels
<1>2. heard \in Nat /\ heard <= sLevels /\ ~s.cs.complete
  <2>1. s.cs.heard # 2
    BY <1>1 DEF Announced, InOrder
  <2>2. ~s.cs.complete
    BY <2>1 DEF Kept, KeptBy
  <2>3. s.cs.heard < sLevels
    BY <1>1
  <2>4. heard \in Nat /\ heard <= sLevels
    BY ONLY <2>3, TypedFields DEF TypedFields
  <2> QED
    BY <2>2, <2>4
<1> HIDE DEF heard
<1>3. Types'
  BY <1>1, <1>2, Zenon DEF Types, Server, CryptoSetup
<1>4. /\ s'.cs.heard = heard /\ s'.cs.undecryptable = {}
      /\ UNCHANGED <<sent, cLevels, sFlow, s.cs.writes, sKeys, sLoop, sTold, s.cs.complete>>
  BY <1>1, Zenon DEF Types, Server, CryptoSetup, sent, cLevels, sLevels,
     sFlow, sKeys, sLoop, sTold, sKept
<1> USE <1>1, <1>4 DEF sFlow, sKeys, sLoop, sTold, sKept
<1>5. Turns'
  BY DEF Turns
<1>6. Messages'
  BY DEF Messages
<1>7. Keys' /\ Announced'
  BY DEF Keys, SameKeys, Announced, InOrder
<1>8. Kept'
  BY <1>2 DEF Kept, KeptBy
<1> QED
  BY <1>3, <1>5, <1>6, <1>7, <1>8

LEMMA ClientAeadChangedPreserves ==
    ASSUME IInv, ClientAeadChanged
    PROVE  IInv'
<1> TypedFields
  BY TypeFacts DEF IInv
<1> USE DEF IInv, TypedFields
<1> DEFINE heard == c.cs.heard + 1
           loop == IF c.cs.crypto = "failed" THEN "closed" ELSE "select"
           cs == [c.cs EXCEPT !.heard = heard, !.undecryptable = {}]
<1>1. /\ c.cs.heard < cLevels
      /\ c' = [c EXCEPT !.cs = [cs EXCEPT !.loop = loop]]
      /\ UNCHANGED <<cached, policy, s, hellos, net>>
  <2>1. cs.crypto = c.cs.crypto
    BY DEF CryptoSetup
  <2>2. Over(cs) = [cs EXCEPT !.loop = loop]
    BY <2>1 DEF Over
  <2>3. c' = [c EXCEPT !.cs = Over(cs)]
    BY ONLY ClientAeadChanged DEF ClientAeadChanged
  <2> QED
    BY <2>2, <2>3 DEF ClientAeadChanged, cLevels
<1>2. heard \in Nat /\ heard <= cLevels /\ ~c.cs.complete /\ loop \in {"closed", "select"}
  <2>1. c.cs.heard # 2
    BY <1>1 DEF Announced, InOrder
  <2>2. ~c.cs.complete
    BY <2>1 DEF Kept, KeptBy
  <2>3. c.cs.heard < cLevels
    BY <1>1
  <2>4. heard \in Nat /\ heard <= cLevels
    BY ONLY <2>3, TypedFields DEF TypedFields
  <2> QED
    BY <2>2, <2>4
<1> HIDE DEF heard, loop
<1>3. Types'
  BY <1>1, <1>2, Zenon DEF Types, Client, CryptoSetup
<1>4. /\ c'.cs.heard = heard /\ c'.cs.undecryptable = {} /\ c'.cs.loop = loop
      /\ UNCHANGED <<sent, sLevels, cFlow, cCreds, c.cs.packet, c.cs.writes, cKeys, cTold, c.cs.complete>>
  BY <1>1, Zenon DEF Types, Client, CryptoSetup, sent, cLevels, sLevels,
     cFlow, cCreds, cKeys, cLoop, cTold, cKept
<1> USE <1>1, <1>4 DEF cFlow, cCreds, cKeys, cLoop, cTold, cKept
<1>5. Turns'
  BY <1>2 DEF Turns
<1>6. Messages'
  BY <1>2 DEF Messages
<1>7. Keys' /\ Announced'
  BY DEF Keys, SameKeys, Announced, InOrder
<1>8. Kept'
  BY <1>2 DEF Kept, KeptBy
<1> QED
  BY <1>3, <1>5, <1>6, <1>7, <1>8

LEMMA announcePreserves ==
    ASSUME IInv, announce
    PROVE  IInv'
<1> TypedFields
  BY TypeFacts DEF IInv
<1> USE DEF IInv, TypedFields
<1> DEFINE announced == Append(s.cs.announced, "forwardSecure")
<1>1. /\ s.cs.crypto = "announce"
      /\ s' = [s EXCEPT !.cs.crypto = "sentSHLO", !.cs.announced = announced]
      /\ UNCHANGED <<cached, policy, c, hellos, net>>
  BY DEF announce
<1>2. sLevels = 1 /\ s.cs.announced[1] = "secure"
  BY <1>1 DEF Announced, InOrder, Keys
<1>3. announced \in Seq(Levels) /\ Len(announced) = 2 /\ InOrder(announced, 2)
  <2>1. s.cs.announced \in Seq(Levels) /\ "forwardSecure" \in Levels /\ 1 = Len(s.cs.announced)
    BY <1>2 DEF Levels, sLevels, CryptoSetup
  <2>2. /\ announced \in Seq(Levels) /\ Len(announced) = 2
        /\ announced[1] = "secure" /\ announced[2] = "forwardSecure"
    BY ONLY <1>2, <2>1, AppendLevel
  <2> QED
    BY <2>2 DEF InOrder
<1> HIDE DEF announced
<1>4. Types'
  BY <1>1, <1>3, Zenon DEF Types, Server, CryptoSetup
<1>5. /\ s'.cs.crypto = "sentSHLO" /\ s'.cs.announced = announced /\ sLevels' = 2
      /\ UNCHANGED <<sent, cLevels, s.cs.got, s.cs.read, s.sentSHLO, s.cs.writes, sKeys, sLoop, s.cs.closed, sKept>>
  BY <1>1, <1>3, Zenon DEF Types, Server, CryptoSetup, sent, cLevels, sLevels,
     sFlow, sKeys, sLoop, sTold, sKept
<1> USE <1>1, <1>5 DEF sFlow, sKeys, sLoop, sTold, sKept
<1>6. Turns'
  BY DEF Turns
<1>7. Messages'
  BY DEF Messages
<1>8. Keys' /\ Announced'
  BY <1>2, <1>3 DEF Keys, SameKeys, Announced, InOrder
<1>9. Kept'
  BY <1>2, <1>3 DEF Kept, KeptBy
<1> QED
  BY <1>4, <1>6, <1>7, <1>8, <1>9

LEMMA handleREJMessagePreserves ==
    ASSUME IInv, handleREJMessage
    PROVE  IInv'
<1> TypedFields
  BY TypeFacts DEF IInv
<1> USE DEF IInv, TypedFields
<1> DEFINE n == c.cs.read + 1
           proof == hellos[n].stk
           cert == c.cert \/ proof
           serverVerified == c.serverVerified \/ proof
           stk == policy # "refuses"
           nonc == IF c.nonc = "none" THEN "current" ELSE c.nonc
<1>1. /\ c.cs.crypto = "select" /\ n <= c.cs.got /\ n # s.cs.secure
      /\ c' = [c EXCEPT !.cs.crypto = "upgrade", !.cs.read = n, !.scfg = "current",
                        !.nonc = nonc, !.stk = stk, !.cert = cert,
                        !.serverVerified = serverVerified]
      /\ UNCHANGED <<cached, policy, s, hellos, net>>
  BY DEF handleREJMessage, Answer
<1>2. n \in Nat /\ n = sent /\ s.cs.secure = 0
  <2>1. n <= c.cs.got /\ c.cs.got <= s.cs.read /\ s.cs.read <= s.cs.got /\ s.cs.got <= sent
        /\ c.cs.read >= sent - 1
    BY <1>1 DEF Turns
  <2>2. n \in Nat /\ n = sent
    BY ONLY <2>1, TypedFields DEF TypedFields
  <2> QED
    BY <1>1, <2>2 DEF Keys
<1>3. /\ cert \in BOOLEAN /\ serverVerified \in BOOLEAN /\ stk \in BOOLEAN
      /\ nonc \in Configs /\ "current" \in Configs
      /\ (c.cert => cert) /\ (cert => serverVerified)
  BY DEF Types, Client, Keys, Configs
<1> HIDE DEF n, proof, cert, serverVerified, stk, nonc
<1>4. Types'
  <2>1. [c.cs EXCEPT !.crypto = "upgrade", !.read = n] \in CryptoSetup
    BY <1>2, Zenon DEF CryptoSetup
  <2> QED
    BY <1>1, <1>3, <2>1, ZenonT(30) DEF Types, Client
<1>5. /\ c'.cs.crypto = "upgrade" /\ c'.cs.read = n /\ c'.scfg = "current" /\ c'.cert = cert
      /\ c'.serverVerified = serverVerified
      /\ UNCHANGED <<sent, sLevels, c.cs.got, c.lastSentCHLO, c.divNonce, c.cs.writes, cKeys, cLoop, cTold, cKept>>
  BY <1>1, Zenon DEF Types, Client, CryptoSetup, sent, cLevels, sLevels,
     cFlow, cCreds, cKeys, cLoop, cTold, cKept
<1> USE <1>1, <1>5 DEF cFlow, cCreds, cKeys, cLoop, cTold, cKept
<1>6. Turns'
  BY <1>2 DEF Turns
<1>7. Messages'
  BY <1>2 DEF Messages
<1>8. Keys' /\ Announced'
  BY <1>2, <1>3 DEF Keys, SameKeys, Announced, InOrder
<1>9. Kept'
  BY DEF Kept, KeptBy
<1> QED
  BY <1>4, <1>6, <1>7, <1>8, <1>9

(***************************************************************************)
(* Packets that arrive.  r is what becomes of a side when it has tried to  *)
(* open p: only a packet that none of its keys opens is kept.              *)
(***************************************************************************)
Opened(cs, p, r) ==
    /\ r \in CryptoSetup
    /\ \/ r.got = cs.got
       \/ p.body # "data" /\ p.n = cs.got + 1 /\ r.got = p.n
    /\ r.receivedSecurePacket => cs.receivedSecurePacket \/ cs.secure # 0
    /\ \/ r.undecryptable = cs.undecryptable
       \/ /\ r.undecryptable = cs.undecryptable \cup {p} /\ ~cs.complete
          /\ p.level = "forwardSecure" => cs.forwardSecure = 0 \/ p.n # cs.forwardSecure
    /\ <<r.crypto, r.writes, r.read, r.secure, r.forwardSecure, r.announced, r.heard, r.complete>> =
       <<cs.crypto, cs.writes, cs.read, cs.secure, cs.forwardSecure, cs.announced, cs.heard,
         cs.complete>>

LEMMA HandleOpens ==
    ASSUME NEW cs \in CryptoSetup, NEW p \in Packet
    PROVE  Opened(cs, p, Handle(cs, p)) /\ Handle(cs, p).closed = cs.closed
<1>1. CASE p.body # "data" /\ p.n = cs.got + 1
  <2>1. Handle(cs, p) = [cs EXCEPT !.got = p.n]
    BY <1>1 DEF Handle
  <2> QED
    BY <1>1, <2>1, ZenonT(30) DEF Opened, CryptoSetup, Packet
<1>2. CASE ~(p.body # "data" /\ p.n = cs.got + 1)
  <2>1. Handle(cs, p) = [cs EXCEPT !.got = cs.got]
    BY <1>2 DEF Handle
  <2> QED
    BY <2>1 DEF Opened, CryptoSetup
<1> QED
  BY <1>1, <1>2

LEMMA HandleSecureOpens ==
    ASSUME NEW cs \in CryptoSetup, NEW p \in Packet, cs.secure # 0
    PROVE  /\ Opened(cs, p, Handle([cs EXCEPT !.receivedSecurePacket = TRUE], p))
           /\ Handle([cs EXCEPT !.receivedSecurePacket = TRUE], p).closed = cs.closed
<1> DEFINE secured == [cs EXCEPT !.receivedSecurePacket = TRUE]
<1>1. secured \in CryptoSetup /\ Opened(secured, p, Handle(secured, p))
  <2>1. secured \in CryptoSetup
    BY Zenon DEF CryptoSetup
  <2> QED
    BY <2>1, HandleOpens
<1>2. Handle(secured, p).closed = secured.closed
  BY <1>1, HandleOpens, Zenon
<1>3. /\ secured.got = cs.got /\ secured.undecryptable = cs.undecryptable
      /\ secured.complete = cs.complete /\ secured.closed = cs.closed
      /\ secured.secure = cs.secure /\ secured.forwardSecure = cs.forwardSecure
      /\ secured.crypto = cs.crypto /\ secured.writes = cs.writes /\ secured.read = cs.read
      /\ secured.announced = cs.announced /\ secured.heard = cs.heard
  BY DEF CryptoSetup
<1> HIDE DEF secured
<1>4. Opened(cs, p, Handle(secured, p))
  BY <1>1, <1>3 DEF Opened
<1>5. Handle(secured, p).closed = cs.closed
  BY <1>2, <1>3
<1> QED
  BY <1>4, <1>5 DEF secured

LEMMA KeepOpens ==
    ASSUME NEW cs \in CryptoSetup, NEW p \in Packet,
           p.level = "forwardSecure" => cs.forwardSecure = 0 \/ p.n # cs.forwardSecure
    PROVE  Opened(cs, p, Keep(cs, p)) /\ Keep(cs, p).closed = cs.closed
<1>1. CASE cs.complete \/ p.level = "null"
  <2>1. Keep(cs, p) = [cs EXCEPT !.undecryptable = cs.undecryptable]
    BY <1>1 DEF Keep
  <2> QED
    BY <2>1 DEF Opened, CryptoSetup
<1>2. CASE ~(cs.complete \/ p.level = "null")
  <2>1. Keep(cs, p) = [cs EXCEPT !.undecryptable = cs.undecryptable \cup {p}]
    BY <1>2 DEF Keep
  <2> QED
    BY <1>2, <2>1 DEF Opened, CryptoSetup
<1> QED
  BY <1>1, <1>2

LEMMA ClientOpenOpens ==
    ASSUME NEW cs \in CryptoSetup, NEW p \in Packet
    PROVE  Opened(cs, p, ClientOpen(cs, p)) /\ ClientOpen(cs, p).closed = cs.closed
<1>1. CASE ClientOpen(cs, p) = Handle(cs, p)
  BY <1>1, HandleOpens
<1>2. CASE /\ ClientOpen(cs, p) = Handle([cs EXCEPT !.receivedSecurePacket = TRUE], p)
           /\ cs.secure # 0
  BY <1>2, HandleSecureOpens
<1>3. CASE /\ ClientOpen(cs, p) = Keep(cs, p)
           /\ p.level = "forwardSecure" => cs.forwardSecure = 0 \/ p.n # cs.forwardSecure
  BY <1>3, KeepOpens
<1> QED
  BY <1>1, <1>2, <1>3 DEF ClientOpen

\* The loop starts over, the packet is dropped: nothing else changes.
LEMMA OverOpens ==
    ASSUME NEW cs \in CryptoSetup, NEW p \in Packet, NEW r, Opened(cs, p, r), r.closed = cs.closed
    PROVE  /\ Opened(cs, p, Over(r)) /\ Over(r).closed = cs.closed
           /\ Over(r).loop \in {"closed", "select"}
<1> DEFINE loop == IF r.crypto = "failed" THEN "closed" ELSE "select"
<1>1. Over(r) = [r EXCEPT !.loop = loop] /\ loop \in {"closed", "select"}
  BY DEF Over
<1> HIDE DEF loop
<1>2. /\ Over(r) \in CryptoSetup /\ Over(r).loop = loop
      /\ Over(r).got = r.got /\ Over(r).undecryptable = r.undecryptable
      /\ Over(r).complete = r.complete /\ Over(r).closed = r.closed
      /\ Over(r).secure = r.secure /\ Over(r).forwardSecure = r.forwardSecure
      /\ Over(r).crypto = r.crypto /\ Over(r).writes = r.writes /\ Over(r).read = r.read
      /\ Over(r).announced = r.announced /\ Over(r).heard = r.heard
      /\ Over(r).receivedSecurePacket = r.receivedSecurePacket
  BY <1>1 DEF CryptoSetup, Opened
<1> QED
  BY <1>1, <1>2 DEF Opened

\* A client that has tried to open a packet has a state of the invariant: a
\* forward-secure packet fits the client's key, if it has one, and is not kept.
LEMMA ClientOpens ==
    ASSUME IInv, c' \in Client, NEW p \in net, p.to = "client", Opened(c.cs, p, c'.cs),
           c'.cs.loop \in {"closed", "select"},
           UNCHANGED <<cached, policy, s, hellos, net, c.lastSentCHLO, cCreds, c.cs.closed>>
    PROVE  IInv'
<1> TypedFields
  BY TypeFacts DEF IInv
<1> USE DEF IInv, TypedFields
<1>1. Types'
  BY DEF Types
<1>2. UNCHANGED <<sent, sLevels, cLevels>>
  BY DEF sent, sLevels, cLevels, Opened
<1>3. c'.cs.got \in Nat /\ c'.cs.got >= c.cs.got /\ c'.cs.got <= s.cs.read
  <2>1. CASE c'.cs.got = c.cs.got
    BY <2>1 DEF Turns
  <2>2. CASE p.body # "data" /\ p.n = c.cs.got + 1 /\ c'.cs.got = p.n
    BY <2>2 DEF Messages
  <2> QED
    BY <2>1, <2>2 DEF Opened
<1> USE <1>2 DEF cCreds
<1>4. Turns'
  BY <1>3 DEF Turns, Opened
<1>5. Messages'
  BY DEF Messages, Opened
<1>6. Keys'
  BY DEF Keys, SameKeys, Opened
<1>7. Announced'
  BY DEF Announced, InOrder, Opened
<1>8. Kept'
  <2>1. KeptBy(s.cs, sLevels)'
    BY DEF Kept, KeptBy
  <2>2. CASE c'.cs.undecryptable = c.cs.undecryptable
    BY <2>1, <2>2 DEF Kept, KeptBy, Opened
  <2>3. CASE /\ c'.cs.undecryptable = c.cs.undecryptable \cup {p}
             /\ p.level = "forwardSecure" => c.cs.forwardSecure = 0 \/ p.n # c.cs.forwardSecure
    <3>1. c.cs.heard = 2 => c.cs.forwardSecure # 0
      BY DEF Kept, KeptBy, Announced, InOrder
    <3>2. c.cs.heard = 2 => p.level # "forwardSecure"
      BY <2>3, <3>1 DEF Messages, Keys, SameKeys
    <3> QED
      BY <2>1, <2>3, <3>2 DEF Kept, KeptBy, Opened
  <2> QED
    BY <2>2, <2>3 DEF Opened
<1> QED
  BY <1>1, <1>4, <1>5, <1>6, <1>7, <1>8

LEMMA ClientReceivePreserves ==
    ASSUME IInv, NEW p \in net, ClientReceive(p)
    PROVE  IInv'
<1> TypedFields
  BY TypeFacts DEF IInv
<1> USE DEF IInv, TypedFields
<1>1. CASE p.level = "secure"
  <2>1. /\ c' = [c EXCEPT !.cs.loop = "nonce", !.cs.packet = p] /\ p.to = "client" /\ p \in Packet
        /\ UNCHANGED <<cached, policy, s, hellos, net>>
    BY <1>1 DEF ClientReceive, Types
  <2>2. Types'
    BY <2>1, ZenonT(30) DEF Types, Client, CryptoSetup
  <2>3. /\ c'.cs.loop = "nonce" /\ c'.cs.packet = p
        /\ UNCHANGED <<sent, sLevels, cFlow, c.cs.writes, cCreds, cKeys, cTold, cKept>>
    BY <2>1, Zenon DEF Types, Client, CryptoSetup, sent, cLevels, sLevels,
       cFlow, cCreds, cKeys, cTold, cKept
  <2> USE <2>1, <2>3 DEF cFlow, cCreds, cKeys, cTold, cKept
  <2>4. Turns'
    BY DEF Turns
  <2>5. Messages'
    BY <1>1 DEF Messages
  <2>6. Keys' /\ Announced'
    BY DEF Keys, SameKeys, Announced, InOrder
  <2>7. Kept'
    BY DEF Kept, KeptBy
  <2> QED
    BY <2>2, <2>4, <2>5, <2>6, <2>7
<1>2. CASE p.level # "secure"
  <2> DEFINE r == ClientOpen(c.cs, p)
  <2>1. /\ c' = [c EXCEPT !.cs = Over(r)] /\ p.to = "client" /\ p \in Packet
        /\ UNCHANGED <<cached, policy, s, hellos, net>>
    BY <1>2 DEF ClientReceive, Types
  <2>2. Opened(c.cs, p, r) /\ r.closed = c.cs.closed
    BY <2>1, ClientOpenOpens
  <2> HIDE DEF r
  <2>3. /\ Opened(c.cs, p, Over(r)) /\ Over(r).closed = c.cs.closed
        /\ Over(r).loop \in {"closed", "select"}
    BY <2>1, <2>2, OverOpens
  <2>4. Over(r) \in CryptoSetup
    BY <2>3 DEF Opened
  <2>5. /\ c' \in Client /\ c'.cs = Over(r)
        /\ UNCHANGED <<c.lastSentCHLO, c.scfg, c.cert, c.serverVerified, c.divNonce>>
    BY <2>1, <2>4, Zenon DEF Types, Client
  <2> QED
    BY <2>1, <2>3, <2>5, ClientOpens DEF cCreds
<1> QED
  BY <1>1, <1>2

LEMMA ClientUnpackPreserves ==
    ASSUME IInv, ClientUnpack
    PROVE  IInv'
<1> TypedFields
  BY TypeFacts DEF IInv
<1> USE DEF IInv, TypedFields
<1> DEFINE p == c.cs.packet
           r == ClientOpen(c.cs, p)
           dropped == [r EXCEPT !.packet = None]
<1>1. c' = [c EXCEPT !.cs = Over(dropped)] /\ UNCHANGED <<cached, policy, s, hellos, net>>
  BY DEF ClientUnpack
<1>2. p \in net /\ p \in Packet /\ p.to = "client"
  BY Zenon DEF ClientUnpack, Messages, Types
<1>3. Opened(c.cs, p, r) /\ r.closed = c.cs.closed
  BY <1>2, ClientOpenOpens
<1> HIDE DEF r
<1>4. Opened(c.cs, p, dropped) /\ dropped.closed = c.cs.closed
  <2>1. None \in Packet
    BY DEF None, Packet, Levels
  <2>2. /\ dropped \in CryptoSetup
        /\ dropped.got = r.got /\ dropped.undecryptable = r.undecryptable
        /\ dropped.complete = r.complete /\ dropped.closed = r.closed
        /\ dropped.secure = r.secure /\ dropped.forwardSecure = r.forwardSecure
        /\ dropped.crypto = r.crypto /\ dropped.writes = r.writes /\ dropped.read = r.read
        /\ dropped.announced = r.announced /\ dropped.heard = r.heard
        /\ dropped.receivedSecurePacket = r.receivedSecurePacket
    BY <1>3, <2>1, Zenon DEF CryptoSetup, Opened
  <2> HIDE DEF dropped
  <2> QED
    BY <1>3, <2>2 DEF Opened
<1> HIDE DEF dropped
<1>5. /\ Opened(c.cs, p, Over(dropped)) /\ Over(dropped).closed = c.cs.closed
      /\ Over(dropped).loop \in {"closed", "select"}
  BY <1>2, <1>4, OverOpens
<1>6. Over(dropped) \in CryptoSetup
  BY <1>5 DEF Opened
<1>7. /\ c' \in Client /\ c'.cs = Over(dropped)
      /\ UNCHANGED <<c.lastSentCHLO, c.scfg, c.cert, c.serverVerified, c.divNonce>>
  BY <1>1, <1>6, Zenon DEF Types, Client
<1> QED
  BY <1>1, <1>2, <1>5, <1>7, ClientOpens DEF cCreds

\* So has a server, and aeadChanged is closed only once the SHLO is sent.
LEMMA ServerOpens ==
    ASSUME IInv, s' \in Server, NEW p \in net, p.to = "server", Opened(s.cs, p, s'.cs),
           s'.cs.loop = "select", s'.cs.closed => s.sentSHLO,
           UNCHANGED <<cached, policy, c, hellos, net, s.sentSHLO>>
    PROVE  IInv'
<1> TypedFields
  BY TypeFacts DEF IInv
<1> USE DEF IInv, TypedFields
<1>1. Types'
  BY DEF Types
<1>2. UNCHANGED <<sent, sLevels, cLevels>>
  BY DEF sent, sLevels, cLevels, Opened
<1>3. s'.cs.got \in Nat /\ s'.cs.got >= s.cs.got /\ s'.cs.got <= sent
  <2>1. CASE s'.cs.got = s.cs.got
    BY <2>1 DEF Turns
  <2>2. CASE p.body # "data" /\ p.n = s.cs.got + 1 /\ s'.cs.got = p.n
    BY <2>2 DEF Messages
  <2> QED
    BY <2>1, <2>2 DEF Opened
<1> USE <1>2
<1>4. Turns'
  BY <1>3 DEF Turns, Opened
<1>5. Messages'
  BY DEF Messages, Opened
<1>6. Keys'
  BY DEF Keys, SameKeys, Opened
<1>7. Announced'
  BY DEF Announced, InOrder, Opened
<1>8. Kept'
  <2>1. KeptBy(c.cs, cLevels)'
    BY DEF Kept, KeptBy
  <2>2. CASE s'.cs.undecryptable = s.cs.undecryptable
    BY <2>1, <2>2 DEF Kept, KeptBy, Opened
  <2>3. CASE /\ s'.cs.undecryptable = s.cs.undecryptable \cup {p}
             /\ p.level = "forwardSecure" => s.cs.forwardSecure = 0 \/ p.n # s.cs.forwardSecure
    <3>1. s.cs.heard = 2 => s.cs.forwardSecure # 0
      BY DEF Kept, KeptBy, Announced, InOrder, Keys
    <3>2. s.cs.heard = 2 => p.level # "forwardSecure"
      BY <2>3, <3>1 DEF Messages, Keys, SameKeys
    <3> QED
      BY <2>1, <2>3, <3>2 DEF Kept, KeptBy, Opened
  <2> QED
    BY <2>2, <2>3 DEF Opened
<1> QED
  BY <1>1, <1>4, <1>5, <1>6, <1>7, <1>8

LEMMA ServerReceivePreserves ==
    ASSUME IInv, NEW p \in net, ServerReceive(p)
    PROVE  IInv'
<1> TypedFields
  BY TypeFacts DEF IInv
<1> USE DEF IInv, TypedFields
<1> DEFINE opens(k) == s.cs[k] # 0 /\ p.level = k /\ p.n = s.cs[k]
<1>1. /\ p.to = "server" /\ p \in Packet /\ s.cs.loop = "select"
      /\ UNCHANGED <<cached, policy, c, hellos, net>>
  BY DEF ServerReceive, Types
<1>2. ASSUME NEW r, Opened(s.cs, p, r), r.closed = s.cs.closed, r.loop = "select",
             s' = [s EXCEPT !.cs = r]
      PROVE  IInv'
  <2>1. r \in CryptoSetup
    BY <1>2 DEF Opened
  <2>2. s' \in Server /\ s'.cs = r /\ s'.sentSHLO = s.sentSHLO
    BY <1>2, <2>1, Zenon DEF Types, Server
  <2>3. s'.cs.closed => s.sentSHLO
    BY <1>2, <2>2 DEF Announced
  <2> QED
    BY <1>1, <1>2, <2>2, <2>3, ServerOpens
<1>3. CASE opens("forwardSecure") /\ ~s.receivedForwardSecurePacket
  <2>1. s' = [s EXCEPT !.receivedForwardSecurePacket = TRUE, !.cs.loop = "wait", !.cs.packet = p]
    BY <1>3 DEF ServerReceive
  <2>2. Types'
    BY <1>1, <2>1, ZenonT(30) DEF Types, Server, CryptoSetup
  <2>3. /\ s'.cs.loop = "wait" /\ s'.cs.packet = p
        /\ UNCHANGED <<sent, cLevels, sFlow, s.cs.writes, sKeys, sTold, sKept>>
    BY <1>1, <2>1, Zenon DEF Types, Server, CryptoSetup, sent, cLevels, sLevels,
       sFlow, sKeys, sTold, sKept
  <2> USE <1>1, <2>3 DEF sFlow, sKeys, sTold, sKept
  <2>4. Turns'
    BY DEF Turns
  <2>5. Messages'
    BY DEF Messages
  <2>6. Keys' /\ Announced'
    BY DEF Keys, SameKeys, Announced, InOrder
  <2>7. Kept'
    BY DEF Kept, KeptBy
  <2> QED
    BY <2>2, <2>4, <2>5, <2>6, <2>7
<1>4. CASE s' = [s EXCEPT !.cs = Handle(s.cs, p)]
  <2>1. Handle(s.cs, p).loop = "select"
    BY <1>1 DEF Handle, CryptoSetup
  <2> QED
    BY <1>1, <1>2, <1>4, <2>1, HandleOpens
<1>5. CASE s' = [s EXCEPT !.cs = Keep(s.cs, p)] /\ ~opens("forwardSecure")
  <2>1. Keep(s.cs, p).loop = "select"
    BY <1>1 DEF Keep, CryptoSetup
  <2> QED
    BY <1>1, <1>2, <1>5, <2>1, KeepOpens
<1>6. CASE /\ s' = [s EXCEPT !.cs = Handle([s.cs EXCEPT !.receivedSecurePacket = TRUE], p)]
           /\ opens("secure")
  <2>1. Handle([s.cs EXCEPT !.receivedSecurePacket = TRUE], p).loop = "select"
    BY <1>1 DEF Handle, CryptoSetup
  <2> QED
    BY <1>1, <1>2, <1>6, <2>1, HandleSecureOpens
<1> QED
  BY <1>3, <1>4, <1>5, <1>6 DEF ServerReceive

LEMMA ServerUnpackPreserves ==
    ASSUME IInv, ServerUnpack
    PROVE  IInv'
<1> TypedFields
  BY TypeFacts DEF IInv
<1> USE DEF IInv, TypedFields
<1> DEFINE p == s.cs.packet
           r == Handle(s.cs, p)
           dropped == [r EXCEPT !.loop = "select", !.packet = None, !.closed = TRUE]
<1>1. /\ s.cs.loop = "wait" /\ s.sentSHLO /\ s' = [s EXCEPT !.cs = dropped]
      /\ UNCHANGED <<cached, policy, c, hellos, net>>
  BY DEF ServerUnpack
<1>2. p \in net /\ p \in Packet /\ p.to = "server"
  BY <1>1 DEF Messages, Types
<1>3. Opened(s.cs, p, r)
  BY <1>2, HandleOpens
<1> HIDE DEF r
<1>4. Opened(s.cs, p, dropped) /\ dropped \in CryptoSetup /\ dropped.loop = "select"
  <2>1. None \in Packet
    BY DEF None, Packet, Levels
  <2>2. /\ dropped \in CryptoSetup /\ dropped.loop = "select"
        /\ dropped.got = r.got /\ dropped.undecryptable = r.undecryptable
        /\ dropped.complete = r.complete
        /\ dropped.secure = r.secure /\ dropped.forwardSecure = r.forwardSecure
        /\ dropped.crypto = r.crypto /\ dropped.writes = r.writes /\ dropped.read = r.read
        /\ dropped.announced = r.announced /\ dropped.heard = r.heard
        /\ dropped.receivedSecurePacket = r.receivedSecurePacket
    BY <1>3, <2>1, Zenon DEF CryptoSetup, Opened
  <2> HIDE DEF dropped
  <2> QED
    BY <1>3, <2>2 DEF Opened
<1> HIDE DEF dropped
<1>5. s' \in Server /\ s'.cs = dropped /\ s'.sentSHLO = s.sentSHLO
  BY <1>1, <1>4, Zenon DEF Types, Server
<1> QED
  BY <1>1, <1>2, <1>4, <1>5, ServerOpens, Zenon

LEMMA ClientSendCryptoPreserves ==
    ASSUME IInv, ClientSendCrypto
    PROVE  IInv'
<1> TypedFields
  BY TypeFacts DEF IInv
<1> USE DEF IInv, TypedFields
<1>1. /\ c.cs.writes # None /\ net' = net \cup {c.cs.writes}
      /\ c' = [c EXCEPT !.cs.writes = None] /\ UNCHANGED <<cached, policy, s, hellos>>
  BY DEF ClientSendCrypto
<1>2. c.cs.writes \in Packet /\ None \in Packet
  BY DEF CryptoSetup, None, Packet, Levels
<1>3. Types'
  BY <1>1, <1>2, Zenon DEF Types, Client, CryptoSetup
<1>4. /\ c'.cs.writes = None
      /\ UNCHANGED <<sent, sLevels, cFlow, cCreds, cKeys, cLoop, cTold, cKept>>
  BY <1>1, Zenon DEF Types, Client, CryptoSetup, sent, cLevels, sLevels,
     cFlow, cCreds, cKeys, cLoop, cTold, cKept
<1> USE <1>1, <1>4 DEF cFlow, cCreds, cKeys, cLoop, cTold, cKept
<1>5. Turns'
  BY DEF Turns
<1>6. Messages'
  BY DEF Messages
<1>7. Keys' /\ Announced'
  BY DEF Keys, SameKeys, Announced, InOrder
<1>8. Kept'
  BY DEF Kept, KeptBy
<1> QED
  BY <1>3, <1>5, <1>6, <1>7, <1>8

LEMMA ClientSendPreserves ==
    ASSUME IInv, ClientSend
    PROVE  IInv'
<1> TypedFields
  BY TypeFacts DEF IInv
<1> USE DEF IInv, TypedFields
<1> DEFINE loop == IF c.cs.crypto = "failed" THEN "closed" ELSE "select"
<1>1. PICK p \in Packet :
        /\ net' = net \cup {p} /\ p.to = "server" /\ p.body = "data"
        /\ p.level = "forwardSecure" => c.cs.forwardSecure # 0 /\ p.n = c.cs.forwardSecure
  <2>1. CASE c.cs.forwardSecure # 0
    <3> DEFINE p == [to |-> "server", level |-> "forwardSecure", body |-> "data",
                     n |-> c.cs.forwardSecure]
    <3>1. p \in Packet /\ net' = net \cup {p}
      BY <2>1 DEF ClientSend, Packet, Levels
    <3> QED
      BY <2>1, <3>1
  <2>2. CASE c.cs.forwardSecure = 0
    <3> DEFINE p == [to |-> "server", level |-> "secure", body |-> "data", n |-> c.cs.secure]
    <3>1. p \in Packet /\ net' = net \cup {p}
      BY <2>2 DEF ClientSend, Packet, Levels
    <3> QED
      BY <2>2, <3>1
  <2> QED
    BY <2>1, <2>2
<1>2. c' = [c EXCEPT !.cs = [c.cs EXCEPT !.loop = loop]] /\ UNCHANGED <<cached, policy, s, hellos>>
  BY DEF ClientSend, Over
<1>3. loop \in {"closed", "select"}
  OBVIOUS
<1> HIDE DEF loop
<1>4. Types'
  BY <1>1, <1>2, <1>3, ZenonT(30) DEF Types, Client, CryptoSetup
<1>5. /\ c'.cs.loop = loop
      /\ UNCHANGED <<sent, sLevels, cFlow, c.cs.writes, cCreds, cKeys, c.cs.packet, cTold, cKept>>
  BY <1>2, Zenon DEF Types, Client, CryptoSetup, sent, cLevels, sLevels,
     cFlow, cCreds, cKeys, cTold, cKept
<1> USE <1>1, <1>2, <1>3, <1>5 DEF cFlow, cCreds, cKeys, cTold, cKept
<1>6. Turns'
  BY DEF Turns
<1>7. Messages'
  BY DEF Messages
<1>8. Keys' /\ Announced'
  BY DEF Keys, SameKeys, Announced, InOrder
<1>9. Kept'
  BY DEF Kept, KeptBy
<1> QED
  BY <1>4, <1>6, <1>7, <1>8, <1>9

LEMMA ServerSendCryptoPreserves ==
    ASSUME IInv, ServerSendCrypto
    PROVE  IInv'
<1> TypedFields
  BY TypeFacts DEF IInv
<1> USE DEF IInv, TypedFields
<1>1. s.cs.writes # None /\ s' = [s EXCEPT !.cs.writes = None] /\ UNCHANGED <<cached, policy, c, hellos>>
  BY DEF ServerSendCrypto
<1>2. PICK p \in Packet :
        /\ net' = net \cup {p} /\ p.to = "client" /\ p.n <= s.cs.read
        /\ p.level # "forwardSecure" /\ (p.level = "secure" => s.cs.secure # 0)
  <2> DEFINE level == IF s.cs.secure # 0 THEN "secure" ELSE "null"
             p == [s.cs.writes EXCEPT !.level = level]
  <2>1. net' = net \cup {p}
    BY DEF ServerSendCrypto
  <2>2. level \in Levels /\ level # "forwardSecure" /\ (level = "secure" => s.cs.secure # 0)
    BY DEF Levels
  <2> HIDE DEF level
  <2>3. s.cs.writes \in Packet
    BY DEF CryptoSetup
  <2>4. p \in Packet /\ p.level = level /\ p.to = s.cs.writes.to /\ p.n = s.cs.writes.n
    BY <2>2, <2>3 DEF Packet
  <2>5. s.cs.writes.to = "client" /\ s.cs.writes.n <= s.cs.read
    BY <1>1 DEF Messages
  <2> QED
    BY <2>1, <2>2, <2>4, <2>5, Zenon
<1>3. None \in Packet
  BY DEF None, Packet, Levels
<1>4. Types'
  BY <1>1, <1>2, <1>3, Zenon DEF Types, Server, CryptoSetup
<1>5. /\ s'.cs.writes = None
      /\ UNCHANGED <<sent, cLevels, sFlow, sKeys, sLoop, sTold, sKept>>
  BY <1>1, Zenon DEF Types, Server, CryptoSetup, sent, cLevels, sLevels,
     sFlow, sKeys, sLoop, sTold, sKept
<1> USE <1>1, <1>2, <1>5 DEF sFlow, sKeys, sLoop, sTold, sKept
<1>6. Turns'
  BY DEF Turns
<1>7. Messages'
  BY DEF Messages
<1>8. Keys' /\ Announced'
  BY DEF Keys, SameKeys, Announced, InOrder
<1>9. Kept'
  BY DEF Kept, KeptBy
<1> QED
  BY <1>4, <1>6, <1>7, <1>8, <1>9

LEMMA ServerSendPreserves ==
    ASSUME IInv, ServerSend
    PROVE  IInv'
<1> TypedFields
  BY TypeFacts DEF IInv
<1> USE DEF IInv, TypedFields
<1>1. PICK p \in Packet :
        /\ net' = net \cup {p} /\ p.to = "client" /\ p.body = "data"
        /\ p.level = "forwardSecure" /\ p.n = s.cs.forwardSecure
  <2> DEFINE p == [to |-> "client", level |-> "forwardSecure", body |-> "data",
                   n |-> s.cs.forwardSecure]
  <2>1. p \in Packet /\ net' = net \cup {p}
    BY DEF ServerSend, Packet, Levels
  <2> QED
    BY <2>1
<1>2. s.cs.forwardSecure # 0 /\ UNCHANGED <<cached, policy, c, s, hellos>>
  BY DEF ServerSend
<1>3. Types'
  BY <1>1, <1>2 DEF Types
<1>4. UNCHANGED <<sent, cLevels, sLevels>>
  BY <1>2 DEF sent, cLevels, sLevels
<1> USE <1>1, <1>2, <1>4
<1>5. Turns'
  BY DEF Turns
<1>6. Messages'
  BY DEF Messages
<1>7. Keys' /\ Announced'
  BY DEF Keys, SameKeys, Announced, InOrder
<1>8. Kept'
  BY DEF Kept, KeptBy
<1> QED
  BY <1>3, <1>5, <1>6, <1>7, <1>8

(***************************************************************************)
(* The client derives the secure key, or sends another CHLO: it does not   *)
(* send one when the server has its keys already, since it then has all it *)
(* needs to derive the secure key.                                         *)
(***************************************************************************)
LEMMA maybeUpgradeCryptoPreserves ==
    ASSUME IInv, maybeUpgradeCrypto
    PROVE  IInv'
<1> TypedFields
  BY TypeFacts DEF IInv
<1> USE DEF IInv, TypedFields
<1>1. c.cs.crypto = "upgrade" /\ c.lastSentCHLO = sent /\ UNCHANGED <<cached, policy, s, net>>
  BY DEF maybeUpgradeCrypto, Turns
<1>2. CASE Upgrades
  <2> DEFINE announced == Append(c.cs.announced, "secure")
  <2>1. /\ c' = [c EXCEPT !.cs.crypto = "select", !.cs.secure = c.lastSentCHLO,
                          !.cs.announced = announced]
        /\ UNCHANGED hellos
    BY <1>2 DEF maybeUpgradeCrypto
  <2>2. /\ c.cs.secure = 0 /\ cLevels = 0 /\ ~c.cs.closed /\ c.divNonce
        /\ s.cs.secure = sent /\ sent # 0
    BY <1>2 DEF Upgrades, Announced, Keys
  <2>3. announced \in Seq(Levels) /\ Len(announced) = 1 /\ InOrder(announced, 1)
    <3>1. c.cs.announced \in Seq(Levels) /\ "secure" \in Levels /\ 0 = Len(c.cs.announced)
      BY <2>2 DEF Levels, cLevels, CryptoSetup
    <3>2. announced \in Seq(Levels) /\ Len(announced) = 1 /\ announced[1] = "secure"
      BY ONLY <3>1, AppendLevel
    <3> QED
      BY <3>2 DEF InOrder
  <2> HIDE DEF announced
  <2>4. Types'
    BY <1>1, <2>1, <2>3, Zenon DEF Types, Client, CryptoSetup
  <2>5. /\ c'.cs.crypto = "select" /\ c'.cs.secure = sent /\ c'.cs.announced = announced
        /\ cLevels' = 1
        /\ UNCHANGED <<sent, sLevels, c.cs.got, c.cs.read, c.lastSentCHLO, c.cs.writes, cCreds,
                       c.cs.forwardSecure, c.cs.receivedSecurePacket, cLoop, c.cs.closed, cKept>>
    BY <1>1, <2>1, <2>3, Zenon DEF Types, Client, CryptoSetup, sent, cLevels, sLevels,
       cCreds, cLoop, cKept
  <2> USE <1>1, <2>1, <2>2, <2>5 DEF cCreds, cLoop, cKept
  <2>6. Turns'
    BY DEF Turns
  <2>7. Messages'
    BY DEF Messages
  <2>8. Keys' /\ Announced'
    BY <2>3 DEF Keys, SameKeys, Announced, InOrder
  <2>9. Kept'
    BY DEF Kept, KeptBy
  <2> QED
    BY <2>4, <2>6, <2>7, <2>8, <2>9
<1>3. CASE ~Upgrades /\ (c.cs.secure # 0 \/ sent + 1 > MaxClientHellos)
  <2>1. PICK at \in {"select", "failed"} :
           /\ c' = [c EXCEPT !.cs.crypto = at, !.cs.secure = c.cs.secure,
                             !.cs.announced = c.cs.announced]
           /\ UNCHANGED hellos
    <3>1. CASE c.cs.secure # 0
      BY <1>3, <3>1 DEF maybeUpgradeCrypto
    <3>2. CASE c.cs.secure = 0
      <4>1. c' = [c EXCEPT !.cs.crypto = "failed"] /\ UNCHANGED hellos
        BY <1>3, <3>2 DEF maybeUpgradeCrypto, sent
      <4>2. c' = [c EXCEPT !.cs.crypto = "failed", !.cs.secure = c.cs.secure,
                           !.cs.announced = c.cs.announced]
        BY <4>1, Zenon DEF Types, Client, CryptoSetup
      <4> QED
        BY <4>1, <4>2, Zenon
    <3> QED
      BY <3>1, <3>2
  <2>2. Types'
    BY <1>1, <2>1, Zenon DEF Types, Client, CryptoSetup
  <2>3. /\ c'.cs.crypto = at
        /\ UNCHANGED <<sent, sLevels, c.cs.got, c.cs.read, c.lastSentCHLO, c.cs.writes, cCreds, cKeys,
                       cLoop, cTold, cKept>>
    BY <1>1, <2>1, Zenon DEF Types, Client, CryptoSetup, sent, cLevels, sLevels,
       cCreds, cKeys, cLoop, cTold, cKept
  <2> USE <1>1, <2>1, <2>3 DEF cCreds, cKeys, cLoop, cTold, cKept
  <2>4. Turns'
    BY DEF Turns
  <2>5. Messages'
    BY DEF Messages
  <2>6. Keys' /\ Announced'
    BY DEF Keys, SameKeys, Announced, InOrder
  <2>7. Kept'
    BY DEF Kept, KeptBy
  <2> QED
    BY <2>2, <2>4, <2>5, <2>6, <2>7
<1>4. CASE ~Upgrades /\ c.cs.secure = 0 /\ sent + 1 <= MaxClientHellos
  <2> DEFINE n == sent + 1
             full == c.scfg = "current" /\ c.cert
             hello == [full |-> full, stk |-> c.stk, obit |-> c.nonc]
             message == [to |-> "server", level |-> "null", body |-> "CHLO", n |-> n]
  <2>1. /\ hellos' = Append(hellos, hello)
        /\ c' = [c EXCEPT !.cs.crypto = "write", !.cs.writes = message]
    BY <1>4, HelloAssumption DEF maybeUpgradeCrypto, getTags, sent
  <2>2. ~c.divNonce
    BY <1>1, <1>4 DEF Upgrades, Keys
  <2>3. c.cs.read = sent /\ s.cs.secure = 0
    BY <1>1, <1>4, <2>2 DEF Turns
  <2>4. /\ n \in Nat /\ full \in BOOLEAN /\ hello \in Hello
        /\ message \in Packet /\ message.n = n /\ hello.full = full
        /\ message.to = "server" /\ message.level = "null"
    BY DEF Types, Client, Hello, Packet, Levels
  <2>5. full => c.scfg # "none" /\ c.cert
    OBVIOUS
  <2> HIDE DEF full, hello, message
  <2>6. hellos' \in Seq(Hello) /\ sent' = n /\ hellos'[n] = hello
    BY <2>1, <2>4, AppendProperties DEF Types, sent
  <2>7. Types'
    BY <1>1, <2>1, <2>4, <2>6, ZenonT(30) DEF Types, Client, CryptoSetup
  <2>8. /\ c'.cs.crypto = "write" /\ c'.cs.writes = message
        /\ UNCHANGED <<sLevels, c.cs.got, c.cs.read, c.lastSentCHLO, cCreds, cKeys, cLoop, cTold, cKept>>
    BY <1>1, <2>1, Zenon DEF Types, Client, CryptoSetup, cLevels, sLevels,
       cCreds, cKeys, cLoop, cTold, cKept
  <2> USE <1>1, <2>3, <2>6, <2>8 DEF cCreds, cKeys, cLoop, cTold, cKept
  <2>9. Turns'
    BY DEF Turns
  <2>10. Messages'
    BY <2>4 DEF Messages
  <2>11. Keys'
    BY <2>2, <2>4, <2>5 DEF Keys, SameKeys
  <2>12. Announced'
    BY <1>4 DEF Announced, InOrder
  <2>13. Kept'
    BY DEF Kept, KeptBy
  <2> QED
    BY <2>7, <2>9, <2>10, <2>11, <2>12, <2>13
<1>5. sent + 1 <= MaxClientHellos \/ sent + 1 > MaxClientHellos
  BY HelloAssumption
<1> QED
  BY <1>2, <1>3, <1>4, <1>5

\* The client derives the forward-secure key from the CHLO that it sent last,
\* which the SHLO answers.
LEMMA handleSHLOMessagePreserves ==
    ASSUME IInv, handleSHLOMessage
    PROVE  IInv'
<1> TypedFields
  BY TypeFacts DEF IInv
<1> USE DEF IInv, TypedFields
<1> DEFINE n == c.cs.read + 1
           ok == c.cs.receivedSecurePacket /\ policy # "misfit"
           at == IF ok THEN "upgrade" ELSE "failed"
           key == IF c.cs.receivedSecurePacket THEN c.lastSentCHLO ELSE c.cs.forwardSecure
           announced == IF ok THEN Append(c.cs.announced, "forwardSecure") ELSE c.cs.announced
<1>1. /\ c.cs.crypto = "select" /\ n <= c.cs.got /\ n = s.cs.secure
      /\ c' = [c EXCEPT !.cs.crypto = at, !.cs.read = n, !.cs.forwardSecure = key,
                        !.cs.announced = announced, !.cs.closed = ok]
      /\ UNCHANGED <<cached, policy, s, hellos, net>>
  BY DEF handleSHLOMessage, Answer
<1>2. n \in Nat /\ n = sent /\ c.cs.read # sent /\ s.cs.forwardSecure = sent /\ sent # 0
  BY <1>1 DEF Keys
<1>3. c.lastSentCHLO = sent /\ cLevels # 2
  BY <1>1, <1>2 DEF Turns, Announced
<1>4. ok \in BOOLEAN /\ at \in {"upgrade", "failed"} /\ (at = "upgrade" => ok)
  BY DEF Types
<1>5. /\ key \in Nat /\ (key # 0 => key = sent) /\ (ok => key # 0)
      /\ c.cs.forwardSecure # 0 => c.cs.forwardSecure = key
  <2>1. CASE c.cs.receivedSecurePacket
    BY <1>2, <1>3, <2>1 DEF Keys, SameKeys
  <2>2. CASE ~c.cs.receivedSecurePacket
    BY <1>2, <2>2 DEF Keys, SameKeys
  <2> QED
    BY <2>1, <2>2
<1>6. ok => cLevels = 1 /\ c.cs.secure # 0
  BY <1>3 DEF Keys, Announced, InOrder
<1>7. /\ announced \in Seq(Levels)
      /\ ~ok => announced = c.cs.announced /\ Len(announced) = cLevels
      /\ ok => Len(announced) = 2 /\ InOrder(announced, 2)
  <2>1. c.cs.announced \in Seq(Levels) /\ "forwardSecure" \in Levels /\ cLevels = Len(c.cs.announced)
    BY DEF Levels, cLevels, CryptoSetup
  <2>2. CASE ok
    <3>1. announced = Append(c.cs.announced, "forwardSecure") /\ Len(c.cs.announced) = 1
      BY <1>6, <2>1, <2>2
    <3>2. c.cs.announced[1] = "secure"
      BY <1>6, <2>2 DEF Announced, InOrder
    <3>3. /\ announced \in Seq(Levels) /\ Len(announced) = 2
          /\ announced[1] = "secure" /\ announced[2] = "forwardSecure"
      BY ONLY <2>1, <3>1, <3>2, AppendLevel
    <3> QED
      BY <2>2, <3>3 DEF InOrder
  <2>3. CASE ~ok
    BY <2>1, <2>3
  <2> QED
    BY <2>2, <2>3
<1> HIDE DEF n, ok, at, key, announced
<1>8. Types'
  <2>1. [c.cs EXCEPT !.crypto = at, !.read = n, !.forwardSecure = key, !.announced = announced,
                     !.closed = ok] \in CryptoSetup
    <3>1. key \in Nat
      BY <1>5
    <3>2. /\ c.cs \in CryptoSetup /\ n \in Nat /\ ok \in BOOLEAN
          /\ at \in {"upgrade", "failed"} /\ announced \in Seq(Levels)
      BY <1>2, <1>4, <1>7
    <3> QED
      BY ONLY <3>1, <3>2, Zenon DEF CryptoSetup
  <2>2. c' = [c EXCEPT !.cs = [c.cs EXCEPT !.crypto = at, !.read = n, !.forwardSecure = key,
                                           !.announced = announced, !.closed = ok]]
    BY <1>1, Zenon DEF Types, Client, CryptoSetup
  <2> QED
    BY <1>1, <2>1, <2>2, Zenon DEF Types, Client
<1>9. /\ c'.cs.crypto = at /\ c'.cs.read = n /\ c'.cs.forwardSecure = key
      /\ c'.cs.announced = announced /\ c'.cs.closed = ok
      /\ UNCHANGED <<sent, sLevels, c.cs.got, c.lastSentCHLO, c.cs.writes, cCreds, c.cs.secure,
                     c.cs.receivedSecurePacket, cLoop, cKept>>
  BY <1>1, ZenonT(30) DEF Types, Client, CryptoSetup, sent, sLevels, cCreds, cLoop, cKept
<1>10. /\ ok => cLevels' = 2
       /\ ~ok => cLevels' = cLevels
  BY <1>7, <1>9 DEF cLevels
<1> USE <1>1, <1>9 DEF cCreds, cLoop, cKept
<1>11. Turns'
  BY <1>2, <1>3, <1>4, <1>6 DEF Turns
<1>12. Messages'
  BY <1>2, <1>5 DEF Messages
<1>13. Keys'
  BY <1>2, <1>5 DEF Keys, SameKeys
<1>14. Announced'
  <2>1. CASE ok
    BY <1>2, <1>5, <1>6, <1>7, <1>10, <2>1 DEF Announced, InOrder
  <2>2. CASE ~ok
    BY <1>2, <1>3, <1>7, <1>10, <2>2 DEF Announced, InOrder
  <2> QED
    BY <2>1, <2>2
<1>15. Kept'
  BY <1>4, <1>6, <1>10 DEF Kept, KeptBy
<1> QED
  BY <1>8, <1>11, <1>12, <1>13, <1>14, <1>15

\* The server derives both of its keys from the last CHLO there is: the client
\* has not sent another, since it has not had the answer to this one.
LEMMA handleMessagePreserves ==
    ASSUME IInv, handleMessage
    PROVE  IInv'
<1> TypedFields
  BY TypeFacts DEF IInv
<1> USE DEF IInv, TypedFields
<1> DEFINE n == s.cs.read + 1
           inchoate == ~hellos[n].full \/ ~hellos[n].stk
           reply == [to |-> "client", level |-> "null",
                     body |-> IF inchoate THEN "REJ" ELSE "SHLO", n |-> n]
<1>1. s.cs.crypto = "read" /\ n <= s.cs.got /\ UNCHANGED <<cached, policy, c, hellos, net>>
  BY DEF handleMessage
<1>2. n \in Nat /\ n = sent /\ n # 0 /\ c.cs.read # sent
  <2>1. /\ n <= s.cs.got /\ s.cs.got <= sent /\ c.cs.read <= c.cs.got /\ c.cs.got <= s.cs.read
        /\ c.cs.read >= sent - 1
    BY <1>1 DEF Turns
  <2> QED
    BY ONLY <2>1, TypedFields DEF TypedFields
<1>3. /\ s.cs.secure = 0 /\ s.cs.forwardSecure = 0 /\ sLevels = 0
      /\ ~s.sentSHLO /\ ~s.cs.closed
  BY <1>1 DEF Keys, Announced
<1>4. c.cs.secure = 0 /\ c.cs.forwardSecure = 0 /\ ~c.divNonce /\ c.cs.crypto # "upgrade"
  BY <1>2, <1>3 DEF Keys, SameKeys, Turns
<1>5. reply \in Packet /\ reply.to = "client" /\ reply.n = n
  BY <1>2 DEF Packet, Levels
<1>6. CASE inchoate
  <2>1. s' = [s EXCEPT !.cs.crypto = "write", !.cs.read = n, !.cs.writes = reply]
    BY <1>6 DEF handleMessage
  <2> HIDE DEF n, reply
  <2>2. Types'
    BY <1>1, <1>2, <1>5, <2>1, Zenon DEF Types, Server, CryptoSetup
  <2>3. /\ s'.cs.crypto = "write" /\ s'.cs.read = n /\ s'.cs.writes = reply
        /\ UNCHANGED <<sent, cLevels, s.cs.got, s.sentSHLO, sKeys, sLoop, sTold, sKept>>
    BY <1>1, <2>1, Zenon DEF Types, Server, CryptoSetup, sent, cLevels, sLevels,
       sKeys, sLoop, sTold, sKept
  <2> USE <1>1, <2>3 DEF sKeys, sLoop, sTold, sKept
  <2>4. Turns'
    BY <1>2 DEF Turns, n
  <2>5. Messages'
    BY <1>2, <1>5 DEF Messages, n
  <2>6. Keys' /\ Announced'
    BY <1>3 DEF Keys, SameKeys, Announced, InOrder
  <2>7. Kept'
    BY DEF Kept, KeptBy
  <2> QED
    BY <2>2, <2>4, <2>5, <2>6, <2>7
<1>7. CASE ~inchoate /\ hellos[n].obit # "current"
  <2>1. s' = [s EXCEPT !.cs.crypto = "failed", !.cs.read = n]
    BY <1>7 DEF handleMessage
  <2> HIDE DEF n, reply
  <2>2. Types'
    BY <1>1, <1>2, <2>1, Zenon DEF Types, Server, CryptoSetup
  <2>3. /\ s'.cs.crypto = "failed" /\ s'.cs.read = n
        /\ UNCHANGED <<sent, cLevels, s.cs.got, s.cs.writes, s.sentSHLO, sKeys, sLoop, sTold, sKept>>
    BY <1>1, <2>1, Zenon DEF Types, Server, CryptoSetup, sent, cLevels, sLevels,
       sKeys, sLoop, sTold, sKept
  <2> USE <1>1, <2>3 DEF sKeys, sLoop, sTold, sKept
  <2>4. Turns'
    BY <1>2 DEF Turns, n
  <2>5. Messages'
    <3>1. s.cs.writes \in Packet
      BY DEF CryptoSetup
    <3>2. s.cs.writes.n \in Nat /\ s.cs.read < n
      BY <3>1 DEF Packet, n
    <3> QED
      BY <1>2, <3>2 DEF Messages
  <2>6. Keys' /\ Announced'
    BY <1>3 DEF Keys, SameKeys, Announced, InOrder
  <2>7. Kept'
    BY DEF Kept, KeptBy
  <2> QED
    BY <2>2, <2>4, <2>5, <2>6, <2>7
<1>8. CASE ~inchoate /\ hellos[n].obit = "current"
  <2> DEFINE announced == Append(s.cs.announced, "secure")
  <2>1. s' = [s EXCEPT !.cs.crypto = "writeSHLO", !.cs.read = n, !.cs.writes = reply,
                       !.cs.secure = n, !.cs.forwardSecure = n, !.cs.announced = announced]
    BY <1>8, Zenon DEF handleMessage
  <2>2. hellos[sent].full
    BY <1>2, <1>8
  <2>3. announced \in Seq(Levels) /\ Len(announced) = 1 /\ InOrder(announced, 1)
    <3>1. s.cs.announced \in Seq(Levels) /\ "secure" \in Levels /\ 0 = Len(s.cs.announced)
      BY <1>3 DEF Levels, sLevels, CryptoSetup
    <3>2. announced \in Seq(Levels) /\ Len(announced) = 1 /\ announced[1] = "secure"
      BY ONLY <3>1, AppendLevel
    <3> QED
      BY <3>2 DEF InOrder
  <2> HIDE DEF n, reply, announced
  <2> DEFINE r == [s.cs EXCEPT !.crypto = "writeSHLO", !.read = n, !.writes = reply, !.secure = n,
                               !.forwardSecure = n, !.announced = announced]
  <2>4. s' = [s EXCEPT !.cs = r] /\ r \in CryptoSetup
    <3>1. r \in CryptoSetup
      BY <1>2, <1>5, <2>3, Zenon DEF CryptoSetup
    <3>2. s' = [s EXCEPT !.cs = r]
      BY <2>1, Zenon DEF Types, Server, CryptoSetup
    <3> QED
      BY <3>1, <3>2
  <2>5. Types' /\ s'.cs = r /\ UNCHANGED <<sent, cLevels, s.sentSHLO>>
    <3> HIDE DEF r
    <3> QED
      BY <1>1, <2>4, ZenonT(30) DEF Types, Server, sent, cLevels
  <2>6. /\ s'.cs.crypto = "writeSHLO" /\ s'.cs.read = n /\ s'.cs.writes = reply
        /\ s'.cs.secure = n /\ s'.cs.forwardSecure = n /\ s'.cs.announced = announced
        /\ UNCHANGED <<sent, cLevels, s.cs.got, s.sentSHLO, sLoop, s.cs.closed, sKept>>
    BY <2>5 DEF CryptoSetup, sLoop, sKept
  <2>7. sLevels' = 1
    BY <2>3, <2>6 DEF sLevels
  <2> USE <1>1, <2>6, <2>7 DEF sLoop, sKept
  <2>8. Turns'
    BY <1>2, <1>4 DEF Turns, n
  <2>9. Messages'
    BY <1>2, <1>3, <1>5 DEF Messages, n
  <2>10. Keys'
    BY <1>2, <1>4, <2>2 DEF Keys, SameKeys
  <2>11. Announced'
    BY <1>2, <1>3, <2>3 DEF Announced, InOrder
  <2>12. Kept'
    BY <1>3 DEF Kept, KeptBy
  <2> QED
    BY <2>5, <2>8, <2>9, <2>10, <2>11, <2>12
<1> QED
  BY <1>6, <1>7, <1>8

LEMMA InitIInv == Init => IInv
<1> SUFFICES ASSUME Init PROVE IInv
  OBVIOUS
<1>1. /\ cached \in Configs /\ policy \in Policies /\ hellos = <<>> /\ net = {}
      /\ c = newClient /\ s = newServer
  BY DEF Init
<1>2. newCryptoSetup("upgrade") \in CryptoSetup /\ newCryptoSetup("read") \in CryptoSetup
  <2>1. None \in Packet
    BY DEF None, Packet, Levels
  <2>2. <<>> \in Seq(Levels)
    OBVIOUS
  <2> QED
    BY <2>1, <2>2 DEF newCryptoSetup, CryptoSetup
<1>3. Types
  BY <1>1, <1>2 DEF Types, newClient, newServer, Client, Server
<1>4. sent = 0 /\ cLevels = 0 /\ sLevels = 0
  BY <1>1 DEF sent, cLevels, sLevels, newClient, newServer, newCryptoSetup
<1>5. /\ c.cs = newCryptoSetup("upgrade") /\ s.cs = newCryptoSetup("read")
      /\ c.lastSentCHLO = 0 /\ ~c.divNonce /\ ~s.sentSHLO /\ c.cert = c.serverVerified
  BY <1>1 DEF newClient, newServer
<1>6. \A cs \in {c.cs, s.cs} :
         /\ cs.loop = "select" /\ cs.writes = None /\ cs.got = 0 /\ cs.read = 0
         /\ cs.secure = 0 /\ cs.forwardSecure = 0 /\ ~cs.receivedSecurePacket /\ ~cs.closed
         /\ cs.heard = 0 /\ cs.undecryptable = {} /\ ~cs.complete
  BY <1>5 DEF newCryptoSetup
<1>7. c.cs.crypto = "upgrade" /\ s.cs.crypto = "read"
  BY <1>5 DEF newCryptoSetup
<1>8. Turns
  BY <1>4, <1>5, <1>6, <1>7 DEF Turns
<1>9. Messages
  BY <1>1, <1>6 DEF Messages
<1>10. Keys /\ Announced
  BY <1>4, <1>5, <1>6, <1>7 DEF Keys, SameKeys, Announced, InOrder
<1>11. Kept
  BY <1>4, <1>6 DEF Kept, KeptBy
<1> QED
  BY <1>3, <1>8, <1>9, <1>10, <1>11 DEF IInv

LEMMA NextPreservesIInv == IInv /\ [Next]_vars => IInv'
<1> SUFFICES ASSUME IInv, [Next]_vars PROVE IInv'
  OBVIOUS
<1>1. CASE ClientCrypto
  BY <1>1, maybeUpgradeCryptoPreserves, sentCHLOPreserves, handleREJMessagePreserves,
     handleSHLOMessagePreserves DEF ClientCrypto
<1>2. CASE ServerCrypto
  BY <1>2, handleMessagePreserves, WriteReturnsPreserves, announcePreserves,
     closeSentSHLOPreserves DEF ServerCrypto
<1>3. CASE ClientLoop
  BY <1>3, ClientClosePreserves, ClientUnpackPreserves, ClientAeadChangedPreserves,
     ClientCompletePreserves, ClientSendCryptoPreserves, SetDiversificationNoncePreserves
     DEF ClientLoop
<1>4. CASE ServerLoop
  BY <1>4, ServerClosePreserves, ServerUnpackPreserves, ServerAeadChangedPreserves, ServerCompletePreserves,
     ServerSendCryptoPreserves DEF ServerLoop
<1>5. CASE ClientSend \/ ServerSend
  BY <1>5, ClientSendPreserves, ServerSendPreserves
<1>6. CASE \E p \in net : ClientReceive(p) \/ ServerReceive(p)
  <2> PICK p \in net : ClientReceive(p) \/ ServerReceive(p)
    BY <1>6
  <2>1. CASE ClientReceive(p)
    BY <2>1, ClientReceivePreserves
  <2>2. CASE ServerReceive(p)
    BY <2>2, ServerReceivePreserves
  <2> QED
    BY <2>1, <2>2
<1>7. CASE UNCHANGED vars
  <2>1. c' = c /\ s' = s /\ policy' = policy /\ cached' = cached /\ hellos' = hellos /\ net' = net
    BY <1>7 DEF vars
  <2>2. UNCHANGED <<sent, cLevels, sLevels>>
    BY <2>1 DEF sent, cLevels, sLevels
  <2>3. Types' /\ Turns' /\ Messages'
    <3>1. Types'
      BY <2>1 DEF IInv, Types
    <3>2. Turns'
      BY <2>1, <2>2 DEF IInv, Turns
    <3>3. Messages'
      BY <2>1, <2>2 DEF IInv, Messages
    <3> QED
      BY <3>1, <3>2, <3>3
  <2>4. Keys'
    BY <2>1, <2>2 DEF IInv, Keys, SameKeys
  <2>5. Announced' /\ Kept'
    BY <2>1, <2>2 DEF IInv, Announced, InOrder, Kept, KeptBy
  <2> QED
    BY <2>3, <2>4, <2>5 DEF IInv
<1> QED
  BY <1>1, <1>2, <1>3, <1>4, <1>5, <1>6, <1>7 DEF Next

\* IInv holds in every state that the handshake can reach.
THEOREM Invariance == Spec => []IInv
  BY InitIInv, NextPreservesIInv, PTL DEF Spec
-----------------------------------------------------------------------------
\* When both sides have a key of a level, both have derived it from the same
\* CHLO, whatever the order of the nonce, the SHLO and the packets.
THEOREM KeysAreTheSame == Spec => []SameKeys
<1>1. IInv => SameKeys
  BY DEF IInv, Keys
<1> QED
  BY <1>1, Invariance, PTL

\* A sequence of at most two levels, announced in order, is one of three.
LEMMA ThreeOrders ==
    ASSUME NEW q \in Seq(Levels), NEW n \in Nat, n = Len(q), InOrder(q, n)
    PROVE  q \in {<<>>, <<"secure">>, <<"secure", "forwardSecure">>}
<1>1. CASE n = 0
  BY <1>1, EmptySeq, Zenon
<1>2. CASE n = 1
  <2> DEFINE r == <<"secure">>
  <2>1. r \in Seq(Levels) /\ Len(r) = Len(q) /\ \A i \in 1 .. Len(q) : q[i] = r[i]
    BY <1>2 DEF InOrder, Levels
  <2> HIDE DEF r
  <2>2. q = r
    BY <2>1, SeqEqual
  <2> QED
    BY <2>2 DEF r
<1>3. CASE n = 2
  <2> DEFINE r == <<"secure", "forwardSecure">>
  <2>1. r \in Seq(Levels) /\ Len(r) = Len(q) /\ \A i \in 1 .. Len(q) : q[i] = r[i]
    BY <1>3 DEF InOrder, Levels
  <2> HIDE DEF r
  <2>2. q = r
    BY <2>1, SeqEqual
  <2> QED
    BY <2>2 DEF r
<1> QED
  BY <1>1, <1>2, <1>3 DEF InOrder

\* aeadChanged carries the secure and then the forward-secure level, never more
\* than its capacity, and is closed only after both: nobody sends on a closed
\* channel (handleSHLOMessage; Open, which waits for sentSHLO).
THEOREM LevelsAreAnnouncedInOrder == Spec => []AnnouncedInOrder
<1>1. ASSUME IInv PROVE AnnouncedInOrder
  <2> TypedFields
    BY <1>1, TypeFacts DEF IInv
  <2> USE <1>1 DEF IInv, TypedFields
  <2>1. c.cs.announced \in Seq(Levels) /\ s.cs.announced \in Seq(Levels)
    BY DEF CryptoSetup
  <2>2. /\ c.cs.announced \in {<<>>, <<"secure">>, <<"secure", "forwardSecure">>}
        /\ s.cs.announced \in {<<>>, <<"secure">>, <<"secure", "forwardSecure">>}
    BY <2>1, ThreeOrders DEF Announced, cLevels, sLevels
  <2>3. /\ cLevels <= 2 /\ sLevels <= 2
        /\ c.cs.closed => cLevels = 2
        /\ s.cs.closed => sLevels = 2
    BY DEF Announced, InOrder
  <2>4. /\ c.cs.got \in 0 .. sent /\ c.cs.read \in 0 .. c.cs.got
        /\ s.cs.got \in 0 .. sent /\ s.cs.read \in 0 .. s.cs.got
    BY DEF Turns
  <2>5. /\ c.cs.secure \in 0 .. sent /\ c.cs.forwardSecure \in 0 .. sent
        /\ s.cs.secure \in 0 .. sent /\ s.cs.forwardSecure \in 0 .. sent
    BY DEF Keys, SameKeys
  <2>6. /\ c.cs.heard \in 0 .. cLevels /\ s.cs.heard \in 0 .. sLevels
        /\ c.cs.undecryptable \subseteq net /\ s.cs.undecryptable \subseteq net
    BY DEF Kept, KeptBy
  <2> QED
    BY <2>2, <2>3, <2>4, <2>5, <2>6 DEF AnnouncedInOrder, TypeOK, sent, cLevels, sLevels
<1> QED
  BY <1>1, Invariance, PTL

\* A side whose handshake is complete keeps no forward-secure packet among the
\* undecryptable ones: each was received again when aeadChanged announced the
\* key, or came after it and was opened.
THEOREM NoPacketIsForgotten == Spec => []NothingForgotten
<1>1. IInv => NothingForgotten
  BY DEF IInv, Kept, KeptBy, NothingForgotten
<1> QED
  BY <1>1, Invariance, PTL
=============================================================================
