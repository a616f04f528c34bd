----------------------------- MODULE Handshake -----------------------------
(***************************************************************************)
(* The crypto handshake (crypto_setup_client.go, crypto_setup_server.go).  *)
(* On either side two goroutines take part: HandleCryptoStream, and the    *)
(* session loop, which sends what is written to the crypto stream, opens   *)
(* packets, keeps those that it cannot open yet and follows aeadChanged.   *)
(* The network loses, repeats and reorders packets.  A packet that was     *)
(* sent stays in net, which also stands for its retransmissions, since     *)
(* they keep the encryption level.                                         *)
(* A key is the number of the CHLO that it was derived from, 0 if there is *)
(* none: the other inputs are in that CHLO or in the message of the peer.  *)
(* Timeouts, the limits of the queues and the CONNECTION_CLOSE that a side *)
(* sends when it gives up are left out.                                    *)
(***************************************************************************)
EXTENDS Integers, Sequences, FiniteSets

CONSTANT MaxClientHellos

ASSUME HelloAssumption == MaxClientHellos \in Nat

VARIABLES
    cached,   \* what the client has cached of this server: see Configs
    policy,   \* what the server accepts: see Policies
    c,        \* the client: its HandleCryptoStream and its session loop
    s,        \* the server
    hellos,   \* the CHLOs that were sent
    net       \* the packets that were sent

vars == <<cached, policy, c, s, hellos, net>>

\* "refuses": AcceptCookie refuses all cookies.  "misfit": the client refuses
\* the parameters in the SHLO.
Policies == {"accepts", "refuses", "misfit"}

\* A server config (its ID and its OBIT): that of the running server, or one from
\* before the server was restarted, which draws both anew.
Configs == {"none", "stale", "current"}

None == [to |-> "nobody", level |-> "null", body |-> "none", n |-> 0]

\* What both sides have.  crypto is where HandleCryptoStream is, loop where the
\* session loop is, writes the message in Write, got the number of messages
\* that arrived in order, read of those that were read, announced what was
\* sent on aeadChanged, heard how much of it was received.
newCryptoSetup(at) ==
    [crypto |-> at, loop |-> "select", packet |-> None, writes |-> None,
     got |-> 0, read |-> 0, secure |-> 0, forwardSecure |-> 0,
     receivedSecurePacket |-> FALSE, announced |-> <<>>, closed |-> FALSE, heard |-> 0,
     undecryptable |-> {}, complete |-> FALSE]

\* sentSHLO is closed once the SHLO is written.
newServer ==
    [cs |-> newCryptoSetup("read"), receivedForwardSecurePacket |-> FALSE, sentSHLO |-> FALSE]

\* useHandshakeCache.  nonc is the config whose OBIT the client nonce carries; the
\* certificate outlives a restart of the server.  A token that was cached counts
\* as none: every session of the server has a secret of its own for them.
newClient ==
    [cs |-> newCryptoSetup("upgrade"), scfg |-> cached, nonc |-> cached,
     cert |-> cached # "none", serverVerified |-> cached # "none", stk |-> FALSE,
     divNonce |-> FALSE, lastSentCHLO |-> 0]

Init ==
    /\ cached \in Configs /\ policy \in Policies
    /\ c = newClient /\ s = newServer
    /\ hellos = <<>> /\ net = {}
--------------------------------------------------------------------------
(***************************************************************************)
(* The client's HandleCryptoStream.                                        *)
(***************************************************************************)
\* getTags: what the server looks at in a CHLO.
getTags == [full |-> c.scfg = "current" /\ c.cert, stk |-> c.stk, obit |-> c.nonc]

\* All that the secure key is derived from is there.
Upgrades ==
    /\ c.serverVerified /\ c.cs.secure = 0
    /\ c.scfg # "none" /\ c.cert /\ c.divNonce /\ c.lastSentCHLO > 0

\* Mutant: whether a CHLO is due is decided before the upgrade.
maybeUpgradeCrypto_SendFirst ==
    LET n == Len(hellos) + 1
        upgraded == IF Upgrades
                    THEN [c EXCEPT !.cs.secure = c.lastSentCHLO,
                                   !.cs.announced = Append(@, "secure")]
                    ELSE c
    IN  /\ c.cs.crypto = "upgrade"
        /\ IF c.cs.secure # 0 \/ n > MaxClientHellos
           THEN c' = [upgraded EXCEPT !.cs.crypto = "select"] /\ UNCHANGED hellos
           ELSE /\ hellos' = Append(hellos, getTags)
                /\ c' = [upgraded EXCEPT !.cs.crypto = "write",
                           !.cs.writes = [to |-> "server", level |-> "null",
                                          body |-> "CHLO", n |-> n]]
        /\ UNCHANGED <<cached, policy, s, net>>

\* maybeUpgradeCrypto, and the CHLO that is due unless there is a secure key.
maybeUpgradeCrypto ==
    LET n == Len(hellos) + 1
    IN  /\ c.cs.crypto = "upgrade"
        /\ IF Upgrades \/ c.cs.secure # 0
           THEN /\ c' = [c EXCEPT !.cs.crypto = "select",
                                  !.cs.secure = IF Upgrades THEN c.lastSentCHLO ELSE @,
                                  !.cs.announced = IF Upgrades THEN Append(@, "secure") ELSE @]
                /\ UNCHANGED hellos
           ELSE IF n > MaxClientHellos
                THEN c' = [c EXCEPT !.cs.crypto = "failed"] /\ UNCHANGED hellos
                ELSE /\ hellos' = Append(hellos, getTags)
                     /\ c' = [c EXCEPT !.cs.crypto = "write",
                                !.cs.writes = [to |-> "server", level |-> "null",
                                               body |-> "CHLO", n |-> n]]
        /\ UNCHANGED <<cached, policy, s, net>>

\* Write has returned: the session loop has taken the message.
sentCHLO ==
    /\ c.cs.crypto = "write" /\ c.cs.writes = None
    /\ c' = [c EXCEPT !.cs.crypto = "select", !.lastSentCHLO = Len(hellos)]
    /\ UNCHANGED <<cached, policy, s, hellos, net>>

\* The message that arrived as number n of the server is the answer to CHLO n.
Answer(n) == IF n = s.cs.secure THEN "SHLO" ELSE "REJ"

\* The proof and the certificate come with a REJ to a CHLO with a valid token.  A
\* client nonce is generated only if there is none, whatever config it is from.
handleREJMessage ==
    LET n == c.cs.read + 1
        proof == hellos[n].stk
    IN  /\ c.cs.crypto = "select" /\ n <= c.cs.got /\ Answer(n) = "REJ"
        /\ c' = [c EXCEPT !.cs.crypto = "upgrade", !.cs.read = n,
                          !.scfg = "current", !.nonc = IF @ = "none" THEN "current" ELSE @,
                          !.stk = policy # "refuses",
                          !.cert = @ \/ proof, !.serverVerified = @ \/ proof]
        /\ UNCHANGED <<cached, policy, s, hellos, net>>

handleSHLOMessage ==
    LET n == c.cs.read + 1
        ok == c.cs.receivedSecurePacket /\ policy # "misfit"
    IN  /\ c.cs.crypto = "select" /\ n <= c.cs.got /\ Answer(n) = "SHLO"
        /\ c' = [c EXCEPT !.cs.crypto = IF ok THEN "upgrade" ELSE "failed", !.cs.read = n,
                          !.cs.forwardSecure =
                              IF c.cs.receivedSecurePacket THEN c.lastSentCHLO ELSE @,
                          !.cs.announced = IF ok THEN Append(@, "forwardSecure") ELSE @,
                          !.cs.closed = ok]
        /\ UNCHANGED <<cached, policy, s, hellos, net>>

\* Mutant: HandleCryptoStream does not try to upgrade once it has the nonce.
SetDiversificationNonce_NoUpgrade ==
    /\ c.cs.loop = "nonce" /\ c.cs.crypto = "select"
    /\ c' = [c EXCEPT !.cs.loop = "open", !.divNonce = TRUE]
    /\ UNCHANGED <<cached, policy, s, hellos, net>>

\* SetDiversificationNonce: the session loop waits until HandleCryptoStream
\* takes the nonce, and goes on to open the packet.
SetDiversificationNonce ==
    /\ c.cs.loop = "nonce" /\ c.cs.crypto = "select"
    /\ c' = [c EXCEPT !.cs.loop = "open", !.cs.crypto = "upgrade", !.divNonce = TRUE]
    /\ UNCHANGED <<cached, policy, s, hellos, net>>

ClientCrypto == maybeUpgradeCrypto \/ sentCHLO \/ handleREJMessage \/ handleSHLOMessage
--------------------------------------------------------------------------
(***************************************************************************)
(* The server's HandleCryptoStream.                                        *)
(***************************************************************************)
\* handleMessage: a CHLO with the config's ID, a certificate and a valid token gets
\* keys and a SHLO (handleCHLO), unless its nonce has another OBIT: "OBIT not
\* matching".  Another CHLO gets a REJ.  The other errors need a CHLO that the
\* client does not send.
handleMessage ==
    LET n == s.cs.read + 1
        inchoate == ~hellos[n].full \/ ~hellos[n].stk
        reply == [to |-> "client", level |-> "null", body |-> IF inchoate THEN "REJ" ELSE "SHLO",
                  n |-> n]
    IN  /\ s.cs.crypto = "read" /\ n <= s.cs.got
        /\ s' = IF inchoate
                THEN [s EXCEPT !.cs.crypto = "write", !.cs.read = n, !.cs.writes = reply]
                ELSE IF hellos[n].obit # "current"
                THEN [s EXCEPT !.cs.crypto = "failed", !.cs.read = n]
                ELSE [s EXCEPT !.cs.crypto = "writeSHLO", !.cs.read = n, !.cs.writes = reply,
                               !.cs.secure = n, !.cs.forwardSecure = n,
                               !.cs.announced = Append(@, "secure")]
        /\ UNCHANGED <<cached, policy, c, hellos, net>>

WriteReturns ==
    /\ s.cs.crypto \in {"write", "writeSHLO"} /\ s.cs.writes = None
    /\ s' = [s EXCEPT !.cs.crypto = IF s.cs.crypto = "write" THEN "read" ELSE "announce"]
    /\ UNCHANGED <<cached, policy, c, hellos, net>>

\* aeadChanged hears of the forward-secure key before sentSHLO is closed.
announce ==
    /\ s.cs.crypto = "announce"
    /\ s' = [s EXCEPT !.cs.crypto = "sentSHLO", !.cs.announced = Append(@, "forwardSecure")]
    /\ UNCHANGED <<cached, policy, c, hellos, net>>

closeSentSHLO ==
    /\ s.cs.crypto = "sentSHLO" /\ s' = [s EXCEPT !.cs.crypto = "done", !.sentSHLO = TRUE]
    /\ UNCHANGED <<cached, policy, c, hellos, net>>

ServerCrypto == handleMessage \/ WriteReturns \/ announce \/ closeSentSHLO
--------------------------------------------------------------------------
(***************************************************************************)
(* The client's session loop.                                              *)
(***************************************************************************)
\* tryQueueingUndecryptablePacket.  A packet with the null key that cannot be
\* opened never will be, and is left out.
Keep(cs, p) ==
    [cs EXCEPT !.undecryptable = IF cs.complete \/ p.level = "null" THEN @ ELSE @ \cup {p}]

\* The frames of a packet that was opened.  The two sides take turns on the
\* crypto stream, so that its messages arrive in order.
Handle(cs, p) ==
    [cs EXCEPT !.got = IF p.body # "data" /\ p.n = @ + 1 THEN p.n ELSE @]

\* Open: with a forward-secure key no other is tried; the null key is tried
\* until a packet was opened with the secure one.
ClientOpen(cs, p) ==
    IF cs.forwardSecure # 0
    THEN IF p.level = "forwardSecure" /\ p.n = cs.forwardSecure THEN Handle(cs, p) ELSE Keep(cs, p)
    ELSE IF cs.secure # 0 /\ p.level = "secure" /\ p.n = cs.secure
    THEN Handle([cs EXCEPT !.receivedSecurePacket = TRUE], p)
    ELSE IF p.level = "null" /\ ~cs.receivedSecurePacket THEN Handle(cs, p)
    ELSE Keep(cs, p)

\* The loop starts over, and closes when HandleCryptoStream has failed.
Over(cs) == [cs EXCEPT !.loop = IF cs.crypto = "failed" THEN "closed" ELSE "select"]

ClientClose ==
    /\ c.cs.loop = "select" /\ c.cs.crypto = "failed"
    /\ c' = [c EXCEPT !.cs.loop = "closed"]
    /\ UNCHANGED <<cached, policy, s, hellos, net>>

\* A packet of the server with a secure key has the diversification nonce in
\* its public header.
ClientReceive(p) ==
    /\ c.cs.loop = "select" /\ p.to = "client"
    /\ c' = IF p.level = "secure" THEN [c EXCEPT !.cs.loop = "nonce", !.cs.packet = p]
            ELSE [c EXCEPT !.cs = Over(ClientOpen(c.cs, p))]
    /\ UNCHANGED <<cached, policy, s, hellos, net>>

ClientUnpack ==
    /\ c.cs.loop = "open"
    /\ c' = [c EXCEPT !.cs = Over([ClientOpen(c.cs, c.cs.packet) EXCEPT !.packet = None])]
    /\ UNCHANGED <<cached, policy, s, hellos, net>>

\* Mutant: only the secure key makes the session try again.
ClientAeadChanged_SecureOnly ==
    /\ c.cs.loop = "select" /\ c.cs.heard < Len(c.cs.announced)
    /\ c' = [c EXCEPT !.cs = Over([c.cs EXCEPT !.heard = c.cs.heard + 1,
                                  !.undecryptable = IF c.cs.heard = 0 THEN {} ELSE @])]
    /\ UNCHANGED <<cached, policy, s, hellos, net>>

\* A value of aeadChanged: the packets that were kept are received again.
ClientAeadChanged ==
    /\ c.cs.loop = "select" /\ c.cs.heard < Len(c.cs.announced)
    /\ c' = [c EXCEPT !.cs = Over([c.cs EXCEPT !.heard = c.cs.heard + 1, !.undecryptable = {}])]
    /\ UNCHANGED <<cached, policy, s, hellos, net>>

ClientComplete ==
    /\ c.cs.loop = "select" /\ c.cs.closed /\ c.cs.heard = Len(c.cs.announced) /\ ~c.cs.complete
    /\ c' = [c EXCEPT !.cs.complete = TRUE]
    /\ UNCHANGED <<cached, policy, s, hellos, net>>

\* packCryptoPacket: the client always uses the null key.
ClientSendCrypto ==
    /\ c.cs.loop = "select" /\ c.cs.writes # None
    /\ net' = net \cup {c.cs.writes}
    /\ c' = [c EXCEPT !.cs.writes = None]
    /\ UNCHANGED <<cached, policy, s, hellos>>

\* PackPacket, with the best key there is; there is data once there is a key.
ClientSend ==
    /\ c.cs.loop = "select" /\ c.cs.secure # 0
    /\ net' = net \cup {IF c.cs.forwardSecure # 0
                        THEN [to |-> "server", level |-> "forwardSecure", body |-> "data",
                              n |-> c.cs.forwardSecure]
                        ELSE [to |-> "server", level |-> "secure", body |-> "data",
                              n |-> c.cs.secure]}
    /\ c' = [c EXCEPT !.cs = Over(c.cs)]
    /\ UNCHANGED <<cached, policy, s, hellos>>

ClientLoop ==
    \/ ClientClose \/ ClientUnpack \/ ClientAeadChanged \/ ClientComplete
    \/ ClientSendCrypto \/ SetDiversificationNonce
--------------------------------------------------------------------------
(***************************************************************************)
(* The server's session loop.                                              *)
(***************************************************************************)
ServerClose ==
    /\ s.cs.loop = "select" /\ s.cs.crypto = "failed"
    /\ s' = [s EXCEPT !.cs.loop = "closed"]
    /\ UNCHANGED <<cached, policy, c, hellos, net>>

\* Open.  With the first forward-secure packet the handshake is complete: Open
\* waits for the SHLO to be written before it closes aeadChanged.
ServerReceive(p) ==
    LET cs == s.cs
        open(k) == cs[k] # 0 /\ p.level = k /\ p.n = cs[k]
    IN  /\ cs.loop = "select" /\ p.to = "server"
        /\ s' = IF open("forwardSecure")
                THEN IF s.receivedForwardSecurePacket THEN [s EXCEPT !.cs = Handle(cs, p)]
                     ELSE [s EXCEPT !.receivedForwardSecurePacket = TRUE,
                                    !.cs.loop = "wait", !.cs.packet = p]
                ELSE IF s.receivedForwardSecurePacket THEN [s EXCEPT !.cs = Keep(cs, p)]
                ELSE IF open("secure")
                THEN [s EXCEPT !.cs = Handle([cs EXCEPT !.receivedSecurePacket = TRUE], p)]
                ELSE IF p.level = "null" /\ ~cs.receivedSecurePacket
                THEN [s EXCEPT !.cs = Handle(cs, p)]
                ELSE [s EXCEPT !.cs = Keep(cs, p)]
        /\ UNCHANGED <<cached, policy, c, hellos, net>>

\* Mutant: Open closes aeadChanged without waiting for the SHLO.
ServerUnpack_NoWait ==
    /\ s.cs.loop = "wait"
    /\ s' = [s EXCEPT !.cs = [Handle(s.cs, s.cs.packet) EXCEPT !.loop = "select", !.packet = None,
                                                                !.closed = TRUE]]
    /\ UNCHANGED <<cached, policy, c, hellos, net>>

ServerUnpack ==
    /\ s.cs.loop = "wait" /\ s.sentSHLO
    /\ s' = [s EXCEPT !.cs = [Handle(s.cs, s.cs.packet) EXCEPT !.loop = "select", !.packet = None,
                                                                !.closed = TRUE]]
    /\ UNCHANGED <<cached, policy, c, hellos, net>>

ServerAeadChanged ==
    /\ s.cs.loop = "select" /\ s.cs.heard < Len(s.cs.announced)
    /\ s' = [s EXCEPT !.cs.heard = @ + 1, !.cs.undecryptable = {}]
    /\ UNCHANGED <<cached, policy, c, hellos, net>>

ServerComplete ==
    /\ s.cs.loop = "select" /\ s.cs.closed /\ s.cs.heard = Len(s.cs.announced) /\ ~s.cs.complete
    /\ s' = [s EXCEPT !.cs.complete = TRUE]
    /\ UNCHANGED <<cached, policy, c, hellos, net>>

\* packCryptoPacket: with the secure key as soon as there is one.
ServerSendCrypto ==
    /\ s.cs.loop = "select" /\ s.cs.writes # None
    /\ net' = net \cup {[s.cs.writes EXCEPT !.level = IF s.cs.secure # 0 THEN "secure" ELSE "null"]}
    /\ s' = [s EXCEPT !.cs.writes = None]
    /\ UNCHANGED <<cached, policy, c, hellos>>

\* PackPacket, with the forward-secure key once there is one.
ServerSend ==
    /\ s.cs.loop = "select" /\ s.cs.forwardSecure # 0
    /\ net' = net \cup {[to |-> "client", level |-> "forwardSecure", body |-> "data",
                         n |-> s.cs.forwardSecure]}
    /\ UNCHANGED <<cached, policy, c, s, hellos>>

ServerLoop ==
    ServerClose \/ ServerUnpack \/ ServerAeadChanged \/ ServerComplete \/ ServerSendCrypto
--------------------------------------------------------------------------
Next ==
    \/ ClientCrypto \/ ServerCrypto \/ ClientLoop \/ ServerLoop \/ ClientSend \/ ServerSend
    \/ \E p \in net : ClientReceive(p) \/ ServerReceive(p)

\* A message that is written or that a side still waits for gets through,
\* however often it is lost, and the client has data to send once it has the
\* forward-secure key.  A select does not pass over a ready channel for ever.
Progress ==
    \/ ClientSendCrypto \/ handleREJMessage \/ handleSHLOMessage
    \/ ClientAeadChanged \/ ClientComplete
    \/ c.cs.forwardSecure # 0 /\ ClientSend /\ net' # net
    \/ \E p \in net : p.body # "data" /\ p.n = c.cs.got + 1 /\ ClientReceive(p)

Spec ==
    /\ Init /\ [][Next]_vars
    /\ WF_vars(ClientCrypto \/ ClientUnpack \/ ClientClose \/ SetDiversificationNonce)
    /\ WF_vars(ServerCrypto \/ ServerLoop)
    /\ SF_vars(Progress)
    /\ WF_vars(\E p \in net : /\ p.level = "forwardSecure" \/ (p.body = "CHLO" /\ p.n = s.cs.got + 1)
                             /\ ServerReceive(p))
--------------------------------------------------------------------------
\* The state keeps its type; aeadChanged, of capacity 2, never runs full.
TypeOK ==
    \A cs \in {c.cs, s.cs} :
        /\ cs.got \in 0..Len(hellos) /\ cs.read \in 0..cs.got
        /\ cs.secure \in 0..Len(hellos) /\ cs.forwardSecure \in 0..Len(hellos)
        /\ cs.heard \in 0..Len(cs.announced) /\ Len(cs.announced) <= 2
        /\ cs.undecryptable \subseteq net

\* When both sides have a key of a level, it is the same one: both have derived
\* it from the same CHLO, although the client derives the secure key when the
\* nonce arrives, the forward-secure one when the SHLO does, and both from the
\* CHLO it has sent last.
SameKeys ==
    /\ c.cs.secure # 0 => c.cs.secure = s.cs.secure
    /\ c.cs.forwardSecure # 0 => c.cs.forwardSecure = s.cs.forwardSecure

\* aeadChanged carries the secure and then the forward-secure level, and is
\* closed only after both: nobody sends on it once it is closed, and whoever
\* waits for the levels gets them (handleSHLOMessage; Open and sentSHLO).
AnnouncedInOrder ==
    TypeOK /\ \A cs \in {c.cs, s.cs} :
        /\ cs.announced \in {<<>>, <<"secure">>, <<"secure", "forwardSecure">>}
        /\ cs.closed => Len(cs.announced) = 2

\* No forward-secure packet is forgotten among the undecryptable ones: those
\* that arrived before the key are received again, also when the key is
\* installed while the session loop tries to open one of them.
NothingForgotten ==
    \A cs \in {c.cs, s.cs} :
        cs.complete => \A p \in cs.undecryptable : p.level # "forwardSecure"

\* The session loop waits in SetDiversificationNonce for a HandleCryptoStream
\* that has returned, and does not see that it is to close.
StuckInNonce == c.cs.loop = "nonce" /\ c.cs.crypto = "failed"

\* How a handshake ends, whatever packets are lost, repeated and reordered, and
\* within MaxClientHellos.  It completes on both sides, with no cached config and
\* with one of the running server.  A client whose cache is older than the server
\* never completes it: the REJ replaces its config but not the nonce with the old
\* OBIT, and the server closes at the next CHLO (handleREJMessage,
\* validateClientNonce).  A client whose cookies are all refused closes at the
\* limit; one that refuses the SHLO closes, or gets stuck: no order of packets
\* brings the two goroutines to wait for each other otherwise.
Completes ==
    <>(\/ policy = "accepts" /\ cached # "stale" /\ c.cs.complete /\ s.cs.complete
       \/ policy # "refuses" /\ cached = "stale" /\ s.cs.loop = "closed"
       \/ policy = "refuses" /\ c.cs.loop = "closed"
       \/ policy = "misfit" /\ cached # "stale" /\ (c.cs.loop = "closed" \/ StuckInNonce))
=============================================================================
