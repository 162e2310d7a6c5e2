-------------------------- MODULE SecureLinkProofs --------------------------
(***************************************************************************)
(* StableIdentity, PeersAgree, InNonceOrder and the safety of              *)
(* ChannelsImplemented, for any keys, any number of kills, of writers, any *)
(* queue capacity and any interleaving of handshakes, writes, kills and    *)
(* dials.                                                                  *)
(***************************************************************************)
EXTENDS SecureLink, TLAPS

(***************************************************************************)
(* The identities. By itself StableIdentity does not survive a start, a    *)
(* write or a publication: these use the file, static and the published    *)
(* key. IdInv ties the four together: a running process has the key of its *)
(* file, which is the only key it ever ran with; a process that is         *)
(* creating its file has shown nothing yet; and what the broker published, *)
(* and so what the agent pinned, is the key in the broker's file.          *)
(***************************************************************************)
Running(e) == proc[e] \in {"publish", "truncated", "up"}

FileInv ==
    \A e \in End :
        /\ \A k \in shown[e] : k = keyFile[e]
        /\ shown[e] # {} => keyFile[e] \in Key
        /\ proc[e] = "create" => keyFile[e] = "absent" /\ static[e] \in Key
        /\ proc[e] = "write" => keyFile[e] = "empty" /\ static[e] \in Key
        /\ Running(e) => static[e] = keyFile[e] /\ keyFile[e] \in Key

PinInv ==
    /\ published \in Key => published = keyFile["broker"]
    /\ pin # NoKey => pin \in Key /\ pin = keyFile["broker"]

IdInv == IdTypeOK /\ FileInv /\ PinInv

(* The processes start with nothing written, shown or pinned.              *)
LEMMA IdInvInit == IdInit => IdInv
  BY NoKeyFresh, KillsNat DEF IdInit, IdInv, IdTypeOK, FileInv, PinInv, Running, End, FileT

(* A start that finds a key in its file runs with it.                      *)
LEMMA IdInvLoad ==
    ASSUME IdInv, NEW e \in End, LoadIdentity(e)
    PROVE  IdInv'
<1>1. IdTypeOK'
  BY DEF IdInv, IdTypeOK, LoadIdentity, MayStart, HasIdentity, FileT, End
<1>2. FileInv'
  BY DEF IdInv, IdTypeOK, FileInv, LoadIdentity, MayStart, HasIdentity, Running
<1>3. PinInv'
  BY DEF IdInv, PinInv, LoadIdentity, MayStart, HasIdentity
<1> QED
  BY <1>1, <1>2, <1>3 DEF IdInv

(* A start without a file generates a key that it has not shown yet.       *)
LEMMA IdInvGenerate ==
    ASSUME IdInv, NEW e \in End, NEW k \in Key, GenerateKeypair(e, k)
    PROVE  IdInv'
<1>1. IdTypeOK'
  BY DEF IdInv, IdTypeOK, GenerateKeypair, MayStart, FileT, End
<1>2. FileInv'
  BY DEF IdInv, IdTypeOK, FileInv, GenerateKeypair, MayStart, Running
<1>3. PinInv'
  BY DEF IdInv, PinInv, GenerateKeypair, MayStart
<1> QED
  BY <1>1, <1>2, <1>3 DEF IdInv

(* Creating the file changes nobody's key: its owner has shown none, and   *)
(* if it is the broker it has published none.                              *)
LEMMA IdInvCreate ==
    ASSUME IdInv, NEW e \in End, CreateFile(e)
    PROVE  IdInv'
<1>1. IdTypeOK'
  BY DEF IdInv, IdTypeOK, CreateFile, FileT, End
<1>2. FileInv'
  BY NoKeyFresh DEF IdInv, IdTypeOK, FileInv, CreateFile, Running
<1>3. PinInv'
  BY NoKeyFresh DEF IdInv, IdTypeOK, FileInv, PinInv, CreateFile, End
<1> QED
  BY <1>1, <1>2, <1>3 DEF IdInv

(* Writing it makes it the owner's first and only key.                     *)
LEMMA IdInvWrite ==
    ASSUME IdInv, NEW e \in End, WriteKey(e)
    PROVE  IdInv'
<1>1. IdTypeOK'
  BY DEF IdInv, IdTypeOK, FileInv, WriteKey, HasIdentity, FileT, End
<1>2. shown[e] = {}
  BY NoKeyFresh DEF IdInv, FileInv, WriteKey
<1>3. FileInv'
  BY <1>2 DEF IdInv, IdTypeOK, FileInv, WriteKey, HasIdentity, Running
<1>4. PinInv'
  BY NoKeyFresh DEF IdInv, IdTypeOK, FileInv, PinInv, WriteKey, HasIdentity, End
<1> QED
  BY <1>1, <1>3, <1>4 DEF IdInv

(* A failed write and a kill end the process and touch no key.             *)
LEMMA IdInvStops ==
    ASSUME IdInv, NEW e \in End, WriteKeyFails(e) \/ KillProc(e)
    PROVE  IdInv'
<1>1. IdTypeOK'
  BY KillsNat DEF IdInv, IdTypeOK, WriteKeyFails, KillProc, FileT, End
<1>2. FileInv'
  BY DEF IdInv, IdTypeOK, FileInv, WriteKeyFails, KillProc, Running
<1>3. PinInv'
  BY DEF IdInv, PinInv, WriteKeyFails, KillProc
<1> QED
  BY <1>1, <1>2, <1>3 DEF IdInv

(* A malformed file was nobody's identity, so it may be deleted.           *)
LEMMA IdInvRemove ==
    ASSUME IdInv, NEW e \in End, RemoveMalformed(e)
    PROVE  IdInv'
<1>1. IdTypeOK'
  BY DEF IdInv, IdTypeOK, RemoveMalformed, FileT, End
<1>2. FileInv'
  BY NoKeyFresh DEF IdInv, IdTypeOK, FileInv, RemoveMalformed, Running
<1>3. PinInv'
  BY NoKeyFresh DEF IdInv, IdTypeOK, FileInv, PinInv, RemoveMalformed, End
<1> QED
  BY <1>1, <1>2, <1>3 DEF IdInv

(* The broker publishes the key of its file, emptying the old one first.   *)
LEMMA IdInvPublish ==
    ASSUME IdInv, TruncatePubkey \/ WritePubkey
    PROVE  IdInv'
<1>1. IdTypeOK'
  BY DEF IdInv, IdTypeOK, FileInv, TruncatePubkey, WritePubkey, Running, FileT, End
<1>2. FileInv'
  BY DEF IdInv, IdTypeOK, FileInv, TruncatePubkey, WritePubkey, Running, End
<1>3. PinInv'
  BY NoKeyFresh DEF IdInv, FileInv, PinInv, TruncatePubkey, WritePubkey, Running, End
<1> QED
  BY <1>1, <1>2, <1>3 DEF IdInv

(* Handshakes and messages leave the identities alone.                     *)
LEMMA LinkKeepsIdentity == LinkNext => UNCHANGED idVars
  BY DEF LinkNext, Connect, WriteMsg1, ReadMsg1, WriteMsg2, ReadMsg2, Close, Lock, Encrypt,
         WriteOut, WriteFails, HandshakeFails, Read, ReadFails

(* Every step keeps IdInv.                                                 *)
LEMMA IdInvStep == IdInv /\ [SecureNext]_secureVars => IdInv'
<1> SUFFICES ASSUME IdInv, [SecureNext]_secureVars PROVE IdInv'
  OBVIOUS
<1>1. CASE IdNext
  <2>1. CASE \E e \in End : LoadIdentity(e)
    BY <2>1, IdInvLoad
  <2>2. CASE \E e \in End : CreateFile(e)
    BY <2>2, IdInvCreate
  <2>3. CASE \E e \in End : WriteKey(e)
    BY <2>3, IdInvWrite
  <2>4. CASE \E e \in End : WriteKeyFails(e)
    BY <2>4, IdInvStops
  <2>5. CASE \E e \in End, k \in Key : GenerateKeypair(e, k)
    BY <2>5, IdInvGenerate
  <2>6. CASE \E e \in End : RemoveMalformed(e)
    BY <2>6, IdInvRemove
  <2>7. CASE TruncatePubkey \/ WritePubkey
    BY <2>7, IdInvPublish
  <2> QED
    BY <1>1, <2>1, <2>2, <2>3, <2>4, <2>5, <2>6, <2>7 DEF IdNext
<1>2. CASE \E e \in End : Kill(e)
  BY <1>2, IdInvStops DEF Kill
<1>3. CASE UNCHANGED idVars
  BY <1>3 DEF IdInv, IdTypeOK, FileInv, PinInv, Running, idVars
<1> QED
  BY <1>1, <1>2, <1>3, LinkKeepsIdentity DEF SecureNext, secureVars

(* A device and the broker each run with one key for ever, and the key an  *)
(* agent has pinned is the broker's, whenever a process is killed and      *)
(* whichever write fails (secure.go:76-109).                               *)
THEOREM StableIdentityCorrect == SecureSpec => []StableIdentity
<1>1. SecureInit => IdInv
  BY IdInvInit DEF SecureInit
<1>2. IdInv => StableIdentity
  BY NoKeyFresh DEF IdInv, FileInv, PinInv, StableIdentity, Running, End
<1> QED
  BY <1>1, <1>2, IdInvStep, PTL DEF SecureSpec

-----------------------------------------------------------------------------
(***************************************************************************)
(* The link. None of its properties is inductive. LinkInv says, beside the *)
(* identities, who may be between Encrypt and WriteMsg (LockInv), what a   *)
(* handshake may find in the queues (EarlyInv, AgentInv), what the two     *)
(* ends learn of each other (AgreeInv), and that after the handshake each  *)
(* direction is a stream: what was read and what lies in the queue is what *)
(* was sent, under consecutive nonces (Stream).                            *)
(***************************************************************************)
(* A live handshake or session belongs to a running process, and a running *)
(* agent has a key pinned.                                                 *)
ProcInv ==
    /\ \A e \in End : hs[e] # "idle" => proc[e] = "up"
    /\ proc["agent"] # "down" => pin \in Key

(* No goroutine of e is inside Write.                                      *)
AtRest(e) == \A w \in Writer : SideOf[w] = e => writer[w] = Rest

(* Whoever is inside Write holds the lock of its end, so it is alone       *)
(* there, and what it is about to send carries the last nonce its end has  *)
(* used (agentConn.send at broker.go:47, Agent.write at agent.go:101).     *)
LockInv ==
    \A w \in Writer :
        LET e == SideOf[w] IN
        /\ writer[w].at = "rest" => writer[w] = Rest
        /\ writer[w].at # "rest" => lock[e] = w
        /\ writer[w].at = "encrypt" => nsend[e] < MaxSend
        /\ writer[w].at = "write" =>
             /\ nsend[e] \in 1..MaxSend
             /\ writer[w].ct = Cipher(SendCipher(e), nsend[e] - 1, nsend[e])

(* Nothing has gone from s to r yet.                                       *)
Unused(s, r) ==
    /\ sent[s] = <<>> /\ got[r] = <<>> /\ nsend[s] = 0 /\ nrecv[r] = 0
    /\ AtRest(s)

(* What r has read, and what lies in its queue behind the first k          *)
(* messages, is what the other end sent, in order. While the link is open  *)
(* the nonces are consecutive from the one r expects, and the next nonce   *)
(* of the other end follows, or follows the ciphertext about to be sent.   *)
Stream(r, k) ==
    LET q == queue[r] s == Peer(r) IN
    /\ nrecv[r] = Len(got[r])
    /\ Len(q) >= k /\ Len(sent[s]) = Len(got[r]) + (Len(q) - k)
    /\ \A i \in k+1..Len(q) :
         /\ q[i].type = "data" /\ q[i].c = RecvCipher(r)
         /\ q[i].m = sent[s][Len(got[r]) + (i - k)]
    /\ conn = "open" =>
         /\ \A i \in k+1..Len(q) : q[i].n = nrecv[r] + (i - k) - 1
         /\ \A w \in Writer : SideOf[w] = s /\ writer[w].at = "write" =>
              nsend[s] = nrecv[r] + (Len(q) - k) + 1
         /\ (\A w \in Writer : SideOf[w] = s => writer[w].at # "write") =>
              nsend[s] = nrecv[r] + (Len(q) - k)

(* Until the responder has written message 2, nobody has sent data, and    *)
(* its queue holds message 1 at most.                                      *)
EarlyInv ==
    hs["broker"] \in {"msg1", "msg2"} =>
        /\ hs["agent"] # "done"
        /\ queue["agent"] = <<>>
        /\ Unused("agent", "broker") /\ Unused("broker", "agent")
        /\ hs["broker"] = "msg2" => queue["broker"] = <<>>
        /\ hs["broker"] = "msg1" => Len(queue["broker"]) <= 1
        /\ \A i \in 1..Len(queue["broker"]) : queue["broker"][i].type = "msg1"

(* Until the initiator has read message 2 it sends no data; its own        *)
(* message 1 is what the responder finds; and once the responder has       *)
(* written, message 2 comes first and the stream is behind it.             *)
AgentInv ==
    hs["agent"] \in {"msg1", "msg2"} =>
        /\ sent["agent"] = <<>> /\ nsend["agent"] = 0 /\ AtRest("agent")
        /\ hs["agent"] = "msg1" =>
              /\ queue["broker"] = <<>> /\ queue["agent"] = <<>>
              /\ hs["broker"] \notin {"msg2", "done"}
        /\ hs["agent"] = "msg2" /\ hs["broker"] = "msg1" =>
              queue["broker"] = <<Msg1(pin, static["agent"])>>
        /\ queue["agent"] = <<>> => Unused("broker", "agent") /\ hs["broker"] # "done"
        /\ queue["agent"] # <<>> => Stream("agent", 1)

(* The responder goes on only when message 1 was made for its key, so by   *)
(* then each end has the key of the other.                                 *)
AgreeInv ==
    /\ hs["broker"] \in {"msg2", "done"} /\ hs["agent"] \in {"msg2", "done"} =>
         /\ pin = static["broker"] /\ peer["broker"] = static["agent"]
         /\ authorized(static["agent"])
    /\ hs["agent"] = "done" => peer["agent"] = pin

(* An end with a session reads a stream.                                   *)
StreamInv == \A e \in End : hs[e] = "done" => Stream(e, 0)

(* An open link has two ends that have not given it up.                    *)
OpenInv == conn = "open" => \A e \in End : hs[e] \in {"msg1", "msg2", "done"}

(* The inductive invariant.                                                *)
LinkInv ==
    /\ SecureTypeOK /\ IdInv /\ ProcInv /\ LockInv
    /\ EarlyInv /\ AgentInv /\ AgreeInv /\ StreamInv /\ OpenInv

-----------------------------------------------------------------------------
(* What Append and Tail do to a sequence, index by index.                  *)
LEMMA AppendFacts ==
    ASSUME NEW S, NEW q \in Seq(S), NEW x \in S
    PROVE  /\ Append(q, x) \in Seq(S) /\ Len(Append(q, x)) = Len(q) + 1
           /\ Append(q, x) # <<>>
           /\ \A i \in 1..Len(q) : Append(q, x)[i] = q[i]
           /\ Append(q, x)[Len(q) + 1] = x
OBVIOUS

(* And the rest of a queue once its head is taken.                         *)
LEMMA TailFacts ==
    ASSUME NEW S, NEW q \in Seq(S), q # <<>>
    PROVE  /\ Head(q) \in S /\ Head(q) = q[1]
           /\ Tail(q) \in Seq(S) /\ Len(q) >= 1 /\ Len(Tail(q)) = Len(q) - 1
           /\ \A i \in 1..Len(q) - 1 : Tail(q)[i] = q[i + 1]
OBVIOUS

(* What there is to know of the empty sequence.                            *)
LEMMA EmptyFacts ==
    ASSUME NEW S
    PROVE  /\ <<>> \in Seq(S) /\ Len(<<>>) = 0
           /\ \A q \in Seq(S) : Len(q) = 0 => q = <<>>
OBVIOUS

(* The two ends, and the cipher that leads from one to the other.          *)
LEMMA Ends ==
    /\ End = {"agent", "broker"}
    /\ Peer("agent") = "broker" /\ Peer("broker") = "agent"
    /\ SendCipher("agent") = RecvCipher("broker")
    /\ SendCipher("broker") = RecvCipher("agent")
  BY DEF End, Peer, SendCipher, RecvCipher

(* What the messages are.                                                  *)
LEMMA MsgFacts ==
    /\ \A k, j \in Key : Msg1(k, j) \in MsgT
    /\ Msg2 \in MsgT /\ CipherT \subseteq MsgT
    /\ \A m \in MsgT : m.type = "data" => m \in CipherT
    /\ \A m \in MsgT : m.type = "msg1" => m \in [type : {"msg1"}, to : Key, from : Key]
  BY DEF Msg1, Msg2, MsgT, CipherT

(* An end with a handshake or a session has its key, and the agent a       *)
(* pinned one.                                                             *)
LEMMA Running1 ==
    ASSUME IdInv, ProcInv, NEW e \in End, hs[e] # "idle"
    PROVE  /\ proc[e] = "up" /\ static[e] \in Key
           /\ e = "agent" => pin \in Key
  BY DEF IdInv, FileInv, Running, ProcInv

-----------------------------------------------------------------------------
(* There is no link at first.                                              *)
LEMMA LinkInvInit == SecureInit => LinkInv
<1> SUFFICES ASSUME SecureInit PROVE LinkInv
  OBVIOUS
<1>1. IdInv
  BY IdInvInit DEF SecureInit
<1>2. SecureTypeOK
  BY <1>1, Sides, Bounds, EmptyFacts DEF SecureInit, IdInv, SecureTypeOK, Rest
<1>3. ProcInv /\ LockInv /\ OpenInv
  BY Sides, NoKeyFresh DEF SecureInit, IdInit, ProcInv, LockInv, OpenInv, Rest, End
<1>4. EarlyInv /\ AgentInv /\ AgreeInv /\ StreamInv
  BY DEF SecureInit, EarlyInv, AgentInv, AgreeInv, StreamInv, End
<1> QED
  BY <1>1, <1>2, <1>3, <1>4 DEF LinkInv

(* A new link starts from nothing, between two processes that have their   *)
(* keys.                                                                   *)
LEMMA ConnectStep ==
    ASSUME LinkInv, IdInv', Connect
    PROVE  LinkInv'
<1>1. SecureTypeOK'
  BY Sides, Bounds, EmptyFacts DEF LinkInv, SecureTypeOK, IdInv, Connect, Rest, idVars
<1>2. ProcInv'
  BY DEF LinkInv, ProcInv, Connect, idVars, End
<1>3. LockInv' /\ OpenInv'
  BY DEF Connect, LockInv, OpenInv, Rest
<1>4. EarlyInv' /\ AgentInv'
  BY Ends, EmptyFacts DEF Connect, EarlyInv, AgentInv, Unused, AtRest
<1>5. AgreeInv' /\ StreamInv'
  BY Ends DEF Connect, AgreeInv, StreamInv
<1> QED
  BY <1>1, <1>2, <1>3, <1>4, <1>5 DEF LinkInv

(* Message 1 is made for the key the agent has pinned.                     *)
LEMMA WriteMsg1Step ==
    ASSUME LinkInv, IdInv', WriteMsg1
    PROVE  LinkInv'
<1>0. pin \in Key /\ static["agent"] \in Key
  BY Running1, Ends DEF LinkInv, WriteMsg1
<1>1. SecureTypeOK'
  BY <1>0, MsgFacts, AppendFacts DEF LinkInv, SecureTypeOK, IdInv, WriteMsg1, WriteMsg, End
<1>2. ProcInv' /\ OpenInv'
  BY DEF LinkInv, SecureTypeOK, ProcInv, OpenInv, WriteMsg1, idVars, End
<1>3. LockInv'
  BY DEF LinkInv, LockInv, WriteMsg1
<1>4. EarlyInv'
  BY <1>0, MsgFacts, AppendFacts, EmptyFacts, Ends
  DEF LinkInv, SecureTypeOK, EarlyInv, AgentInv, WriteMsg1, WriteMsg, Unused, AtRest, Msg1, idVars
<1>5. AgentInv'
  <2>1. /\ queue["broker"] = <<>> /\ queue["agent"] = <<>> /\ hs["broker"] \notin {"msg2", "done"}
        /\ sent["agent"] = <<>> /\ nsend["agent"] = 0 /\ AtRest("agent")
        /\ Unused("broker", "agent")
    BY DEF LinkInv, AgentInv, WriteMsg1
  <2>2. queue'["broker"] = <<Msg1(pin, static["agent"])>> /\ queue'["agent"] = <<>>
    <3>1. Append(<<>>, Msg1(pin, static["agent"])) = <<Msg1(pin, static["agent"])>>
      OBVIOUS
    <3> QED
      BY <2>1, <3>1, Ends DEF LinkInv, SecureTypeOK, WriteMsg1, WriteMsg
  <2>3. hs'["agent"] = "msg2" /\ hs'["broker"] = hs["broker"]
    BY Ends DEF LinkInv, SecureTypeOK, WriteMsg1
  <2>4. UNCHANGED <<sent, got, nsend, nrecv, writer, pin, static>>
    BY DEF WriteMsg1, idVars
  <2> QED
    BY <2>1, <2>2, <2>3, <2>4 DEF AgentInv, Unused, AtRest
<1>6. AgreeInv' /\ StreamInv'
  BY Ends DEF LinkInv, SecureTypeOK, AgentInv, WriteMsg1, AgreeInv, StreamInv
<1> QED
  BY <1>1, <1>2, <1>3, <1>4, <1>5, <1>6 DEF LinkInv

(* The responder lets the initiator in only if the message was made for    *)
(* its own key, which is then the key the initiator has pinned.            *)
LEMMA ReadMsg1Step ==
    ASSUME LinkInv, IdInv', ReadMsg1
    PROVE  LinkInv'
<1> DEFINE m == Head(queue["broker"])
           ok == m.to = static["broker"] /\ authorized(m.from)
<1>1. /\ hs["broker"] = "msg1" /\ queue["broker"] # <<>> /\ hs["agent"] # "done"
      /\ queue["agent"] = <<>> /\ Unused("agent", "broker") /\ Unused("broker", "agent")
      /\ hs["agent"] # "msg1"
      /\ Len(queue["broker"]) <= 1
      /\ \A i \in 1..Len(queue["broker"]) : queue["broker"][i].type = "msg1"
  BY DEF LinkInv, EarlyInv, AgentInv, ReadMsg1, ReadMsg
<1>2. /\ queue["broker"] \in Seq(MsgT) /\ m \in MsgT /\ Len(queue["broker"]) = 1
      /\ m = queue["broker"][1] /\ m.type = "msg1"
      /\ m \in [type : {"msg1"}, to : Key, from : Key]
  <2>1. queue["broker"] \in Seq(MsgT)
    BY Ends DEF LinkInv, SecureTypeOK
  <2>2. /\ m \in MsgT /\ m = queue["broker"][1]
        /\ Len(queue["broker"]) \in Nat /\ Len(queue["broker"]) >= 1
    BY <1>1, <2>1, TailFacts
  <2>3. Len(queue["broker"]) = 1
    <3>1. \A n \in Nat : n >= 1 /\ n <= 1 => n = 1
      OBVIOUS
    <3> QED
      BY <1>1, <2>2, <3>1, Zenon
  <2>4. m.type = "msg1"
    <3>1. 1 \in 1..Len(queue["broker"])
      BY <2>3
    <3>2. queue["broker"][1].type = "msg1"
      BY <1>1, <3>1
    <3> QED
      BY <2>2, <3>2
  <2> QED
    BY <2>1, <2>2, <2>3, <2>4, MsgFacts
<1>3. queue' = [queue EXCEPT !["broker"] = Tail(@)] /\ Tail(queue["broker"]) = <<>>
  <2>1. Tail(queue["broker"]) \in Seq(MsgT) /\ Len(Tail(queue["broker"])) = 0
    BY <1>1, <1>2, TailFacts
  <2> QED
    BY <2>1, EmptyFacts DEF ReadMsg1, ReadMsg
<1>4. queue'["broker"] = <<>> /\ queue'["agent"] = <<>>
  BY <1>1, <1>3, Ends DEF LinkInv, SecureTypeOK
<1>5. /\ hs' \in {[hs EXCEPT !["broker"] = "msg2"], [hs EXCEPT !["broker"] = "failed"]}
      /\ hs' = [hs EXCEPT !["broker"] = "msg2"] =>
           ok /\ UNCHANGED conn /\ peer' = [peer EXCEPT !["broker"] = m.from]
      /\ hs' = [hs EXCEPT !["broker"] = "failed"] => conn' = "closed" /\ UNCHANGED peer
  <2>1. hs \in [End -> {"idle", "msg1", "msg2", "done", "failed"}]
    BY DEF LinkInv, SecureTypeOK
  <2> QED
    BY <2>1, Ends DEF ReadMsg1
<1>6. UNCHANGED <<idVars, dials, nsend, nrecv, lock, writer, sent, got>>
  BY DEF ReadMsg1
<1>7. SecureTypeOK'
  BY <1>2, <1>3, <1>5, <1>6, TailFacts, EmptyFacts, Ends DEF LinkInv, SecureTypeOK, IdInv
<1>8. ProcInv' /\ OpenInv' /\ LockInv'
  BY <1>1, <1>5, <1>6, Ends DEF LinkInv, SecureTypeOK, ProcInv, OpenInv, LockInv, idVars
<1>9. EarlyInv' /\ AgentInv'
  BY <1>1, <1>4, <1>5, <1>6, Ends, EmptyFacts
  DEF LinkInv, SecureTypeOK, EarlyInv, AgentInv, Unused, AtRest, idVars
<1>10. AgreeInv'
  <2>1. hs["agent"] = "msg2" => m = Msg1(pin, static["agent"])
    BY <1>1, <1>2 DEF LinkInv, AgentInv
  <2>2. hs["agent"] = "msg2" => m.to = pin /\ m.from = static["agent"]
    BY <2>1 DEF Msg1
  <2>3. hs'["agent"] = hs["agent"] /\ peer'["agent"] = peer["agent"]
    BY <1>5, Ends DEF LinkInv, SecureTypeOK
  <2> HIDE DEF m
  <2>4. hs'["broker"] \in {"msg2", "done"} =>
          m.to = static["broker"] /\ authorized(m.from) /\ peer'["broker"] = m.from
    BY <1>5, Ends DEF LinkInv, SecureTypeOK
  <2> QED
    BY <1>1, <1>6, <2>2, <2>3, <2>4 DEF LinkInv, AgreeInv, authorized, idVars
<1>11. StreamInv'
  BY <1>1, <1>5, Ends DEF LinkInv, SecureTypeOK, StreamInv
<1> QED
  BY <1>7, <1>8, <1>9, <1>10, <1>11 DEF LinkInv

(* Message 2 comes before everything the responder sends in its session.   *)
LEMMA WriteMsg2Step ==
    ASSUME LinkInv, IdInv', WriteMsg2
    PROVE  LinkInv'
<1>1. /\ hs["broker"] = "msg2" /\ hs["agent"] \notin {"done", "msg1"}
      /\ queue["agent"] = <<>> /\ queue["broker"] = <<>>
      /\ Unused("agent", "broker") /\ Unused("broker", "agent")
  BY DEF LinkInv, EarlyInv, AgentInv, WriteMsg2
<1>2. queue' = [queue EXCEPT !["agent"] = <<Msg2>>]
  <2>1. Append(<<>>, Msg2) = <<Msg2>>
    OBVIOUS
  <2> QED
    BY <1>1, <2>1 DEF WriteMsg2, WriteMsg
<1>3. hs' = [hs EXCEPT !["broker"] = "done"]
  BY DEF WriteMsg2
<1>4. UNCHANGED <<idVars, conn, dials, peer, nsend, nrecv, lock, writer, sent, got>>
  BY DEF WriteMsg2
<1>5. <<Msg2>> \in Seq(MsgT) /\ Len(<<Msg2>>) = 1 /\ <<Msg2>> # <<>>
  BY MsgFacts
<1>6. /\ hs'["broker"] = "done" /\ hs'["agent"] = hs["agent"]
      /\ queue'["agent"] = <<Msg2>> /\ queue'["broker"] = <<>>
  BY <1>1, <1>2, <1>3, Ends DEF LinkInv, SecureTypeOK
<1>7. SecureTypeOK'
  BY <1>2, <1>3, <1>4, <1>5, Ends DEF LinkInv, SecureTypeOK, IdInv
<1>8. ProcInv' /\ OpenInv' /\ LockInv'
  BY <1>1, <1>3, <1>4, <1>6, Ends DEF LinkInv, SecureTypeOK, ProcInv, OpenInv, LockInv, idVars
<1>9. EarlyInv' /\ AgreeInv'
  BY <1>1, <1>4, <1>6, Ends DEF LinkInv, EarlyInv, AgreeInv, idVars, authorized
<1>10. Stream("broker", 0)'
  BY <1>1, <1>4, <1>6, EmptyFacts, Ends DEF Stream, Unused, AtRest, Rest
<1>11. Stream("agent", 1)'
  <2>1. \A w \in Writer : SideOf[w] = "broker" => writer[w].at # "write"
    BY <1>1 DEF Unused, AtRest, Rest
  <2>2. /\ nrecv["agent"] = 0 /\ nsend["broker"] = 0
        /\ Len(got["agent"]) = 0 /\ Len(sent["broker"]) = 0
    BY <1>1, EmptyFacts DEF Unused
  <2>3. 2..Len(<<Msg2>>) = {}
    BY <1>5
  <2> QED
    BY <1>4, <1>5, <1>6, <2>1, <2>2, <2>3, Ends DEF Stream
<1>12. AgentInv'
  BY <1>1, <1>4, <1>5, <1>6, <1>11, Ends DEF LinkInv, AgentInv, AtRest
<1>13. StreamInv'
  BY <1>1, <1>6, <1>10, Ends DEF StreamInv
<1> QED
  BY <1>7, <1>8, <1>9, <1>12, <1>13 DEF LinkInv

(* The initiator reads it and has a session; what is behind it in the      *)
(* queue is the responder's stream.                                        *)
LEMMA ReadMsg2Step ==
    ASSUME LinkInv, IdInv', ReadMsg2
    PROVE  LinkInv'
<1>1. /\ hs["agent"] = "msg2" /\ queue["agent"] # <<>> /\ Stream("agent", 1)
      /\ sent["agent"] = <<>> /\ nsend["agent"] = 0 /\ AtRest("agent")
      /\ hs["broker"] \notin {"msg1", "msg2"}
  BY DEF LinkInv, EarlyInv, AgentInv, ReadMsg2, ReadMsg
<1>2. /\ hs' = [hs EXCEPT !["agent"] = "done"]
      /\ queue' = [queue EXCEPT !["agent"] = Tail(@)]
      /\ peer' = [peer EXCEPT !["agent"] = pin]
      /\ UNCHANGED <<idVars, conn, dials, nsend, nrecv, lock, writer, sent, got>>
  BY DEF ReadMsg2, ReadMsg
<1>3. pin \in Key
  BY <1>1, Running1, Ends DEF LinkInv
<1>4. /\ hs'["agent"] = "done" /\ hs'["broker"] = hs["broker"]
      /\ queue'["agent"] = Tail(queue["agent"]) /\ queue'["broker"] = queue["broker"]
      /\ peer'["agent"] = pin /\ peer'["broker"] = peer["broker"]
  BY <1>2, Ends DEF LinkInv, SecureTypeOK
<1>5. SecureTypeOK'
  BY <1>1, <1>2, <1>3, TailFacts, Ends DEF LinkInv, SecureTypeOK, IdInv
<1>6. ProcInv' /\ OpenInv' /\ LockInv'
  BY <1>1, <1>2, Ends DEF LinkInv, SecureTypeOK, ProcInv, OpenInv, LockInv, idVars
<1>7. EarlyInv' /\ AgentInv' /\ AgreeInv'
  BY <1>1, <1>2, <1>4 DEF LinkInv, EarlyInv, AgentInv, AgreeInv, idVars, authorized
<1>8. Stream("agent", 0)'
  <2> DEFINE q == queue["agent"] p == Tail(queue["agent"])
  <2>1. /\ q \in Seq(MsgT) /\ Len(q) \in Nat /\ Len(q) >= 1
        /\ Len(p) = Len(q) - 1 /\ Len(p) \in Nat
        /\ \A i \in 1..Len(q) - 1 : p[i] = q[i + 1]
    BY <1>1, TailFacts, Ends DEF LinkInv, SecureTypeOK
  <2>2. queue'["agent"] = p
    BY <1>4
  <2> HIDE DEF p, q
  <2>3. \A i \in 1..Len(p) : i + 1 \in 2..Len(q) /\ p[i] = q[i + 1]
    BY <2>1
  <2>4. /\ nrecv["agent"] = Len(got["agent"]) /\ Len(got["agent"]) \in Nat
        /\ Len(sent["broker"]) = Len(got["agent"]) + (Len(q) - 1)
        /\ \A i \in 2..Len(q) :
             /\ q[i].type = "data" /\ q[i].c = RecvCipher("agent")
             /\ q[i].m = sent["broker"][Len(got["agent"]) + (i - 1)]
             /\ conn = "open" => q[i].n = nrecv["agent"] + (i - 1) - 1
        /\ conn = "open" =>
             /\ \A w \in Writer : SideOf[w] = "broker" /\ writer[w].at = "write" =>
                  nsend["broker"] = nrecv["agent"] + (Len(q) - 1) + 1
             /\ (\A w \in Writer : SideOf[w] = "broker" => writer[w].at # "write") =>
                  nsend["broker"] = nrecv["agent"] + (Len(q) - 1)
    BY <1>1, Ends DEF Stream, q, LinkInv, SecureTypeOK
  <2>5. \A i \in 1..Len(p) :
             /\ p[i].type = "data" /\ p[i].c = RecvCipher("agent")
             /\ p[i].m = sent["broker"][Len(got["agent"]) + (i - 0)]
             /\ conn = "open" => p[i].n = nrecv["agent"] + (i - 0) - 1
    <3> TAKE i \in 1..Len(p)
    <3>1. i + 1 \in 2..Len(q) /\ p[i] = q[i + 1] /\ (i + 1) - 1 = i - 0
      BY <2>1, <2>3
    <3> QED
      BY <2>4, <3>1
  <2>6. UNCHANGED <<conn, nsend, nrecv, writer, sent, got>>
    BY <1>2
  <2>7. Len(q) - 1 = Len(p) - 0 /\ Len(p) >= 0 /\ 0 + 1 = 1
    BY <2>1
  <2>8. /\ \A w \in Writer : SideOf[w] = "broker" /\ writer[w].at = "write" =>
             (conn = "open" => nsend["broker"] = nrecv["agent"] + (Len(p) - 0) + 1)
        /\ (\A w \in Writer : SideOf[w] = "broker" => writer[w].at # "write") =>
             (conn = "open" => nsend["broker"] = nrecv["agent"] + (Len(p) - 0))
    BY <2>4, <2>7
  <2>9. /\ nrecv["agent"] = Len(got["agent"])
         /\ Len(sent["broker"]) = Len(got["agent"]) + (Len(p) - 0)
    BY <2>4, <2>7
  <2> QED
    BY <2>2, <2>5, <2>6, <2>7, <2>8, <2>9, Ends DEF Stream
<1>9. StreamInv'
  <2>1. hs["broker"] = "done" => Stream("broker", 0)
    BY Ends DEF LinkInv, StreamInv
  <2>2. Stream("broker", 0) => Stream("broker", 0)'
    BY <1>2, <1>4, Ends DEF Stream
  <2> QED
    BY <1>4, <1>8, <2>1, <2>2, Ends DEF StreamInv
<1> QED
  BY <1>5, <1>6, <1>7, <1>9 DEF LinkInv

-----------------------------------------------------------------------------
(* A stream does not notice what happens at the other side of the link, or *)
(* that the link is closed.                                                *)
LEMMA StreamKept ==
    ASSUME NEW r \in End, NEW k, Stream(r, k),
           queue'[r] = queue[r], nrecv'[r] = nrecv[r], got'[r] = got[r],
           sent'[Peer(r)] = sent[Peer(r)],
           conn' = "open" =>
             /\ conn = "open" /\ nsend'[Peer(r)] = nsend[Peer(r)]
             /\ \A w \in Writer : SideOf[w] = Peer(r) =>
                  (writer'[w].at = "write" <=> writer[w].at = "write")
    PROVE  Stream(r, k)'
  BY DEF Stream

(* Steps that give something up: an end's handshake or session, a write,   *)
(* the link.                                                               *)
LEMMA StopStep ==
    ASSUME LinkInv, SecureTypeOK', IdInv', ProcInv', LockInv',
           UNCHANGED <<static, pin, dials, peer, queue, nsend, nrecv, sent, got>>,
           \A e \in End : hs'[e] \in {hs[e], "failed", "idle"},
           \A w \in Writer : writer'[w] \in {writer[w], Rest},
           conn' \in {conn, "closed"},
           UNCHANGED <<hs, writer>> \/ conn' # "open"
    PROVE  LinkInv'
<1>1. \A e \in End : AtRest(e) => AtRest(e)'
  BY DEF AtRest
<1>2. \A s, r \in End : Unused(s, r) => Unused(s, r)'
  BY <1>1 DEF Unused
<1>3. \A r \in End : \A k \in {0, 1} : Stream(r, k) => Stream(r, k)'
  BY StreamKept
<1>4. EarlyInv'
  BY <1>2, Ends DEF LinkInv, EarlyInv
<1>5. AgentInv'
  BY <1>1, <1>2, <1>3, Ends DEF LinkInv, AgentInv
<1>6. AgreeInv' /\ OpenInv'
  BY Ends DEF LinkInv, AgreeInv, OpenInv, authorized
<1>7. StreamInv'
  BY <1>3 DEF LinkInv, StreamInv
<1> QED
  BY <1>4, <1>5, <1>6, <1>7 DEF LinkInv

(* The network, the peer or the handshake fails.                           *)
LEMMA FailStep ==
    ASSUME LinkInv, IdInv',
           Close \/ \E e \in End : HandshakeFails(e) \/ ReadFails(e)
    PROVE  LinkInv'
<1>1. /\ UNCHANGED <<idVars, dials, peer, queue, nsend, nrecv, lock, writer, sent, got>>
      /\ conn' \in {conn, "closed"}
      /\ UNCHANGED hs \/ (conn = "closed" /\ UNCHANGED conn)
      /\ UNCHANGED hs \/ \E e \in End : hs[e] # "idle" /\ hs' = [hs EXCEPT ![e] = "failed"]
  BY DEF Close, HandshakeFails, ReadFails, MsgFails
<1>2. \A e \in End : hs'[e] \in {hs[e], "failed"} /\ (hs'[e] # "idle" => hs[e] # "idle")
  BY <1>1 DEF LinkInv, SecureTypeOK
<1>3. SecureTypeOK'
  BY <1>1 DEF LinkInv, SecureTypeOK, IdInv
<1>4. ProcInv' /\ LockInv'
  BY <1>1, <1>2 DEF LinkInv, ProcInv, LockInv, idVars
<1> QED
  BY <1>1, <1>2, <1>3, <1>4, StopStep DEF idVars

(* A write on a closed link wastes its nonce; nobody can tell any more.    *)
LEMMA WriteFailsStep ==
    ASSUME LinkInv, IdInv', NEW w \in Writer, WriteFails(w)
    PROVE  LinkInv'
<1>1. /\ writer' = [writer EXCEPT ![w] = Rest] /\ lock' = [lock EXCEPT ![SideOf[w]] = Nobody]
      /\ conn = "closed" /\ writer[w].at = "write"
      /\ UNCHANGED <<idVars, conn, dials, hs, peer, queue, nsend, nrecv, sent, got>>
  BY DEF WriteFails, Unlock, MsgFails
<1>2. \A v \in Writer : writer'[v] = IF v = w THEN Rest ELSE writer[v]
  BY <1>1 DEF LinkInv, SecureTypeOK
<1>3. \A e \in End : lock'[e] = IF e = SideOf[w] THEN Nobody ELSE lock[e]
  BY <1>1 DEF LinkInv, SecureTypeOK
<1>4. SecureTypeOK'
  BY <1>1, Sides DEF LinkInv, SecureTypeOK, IdInv, Rest
<1>5. ProcInv'
  BY <1>1 DEF LinkInv, ProcInv, idVars
<1>6. LockInv'
  BY <1>1, <1>2, <1>3, Sides DEF LinkInv, LockInv, Rest
<1> QED
  BY <1>1, <1>2, <1>4, <1>5, <1>6, StopStep DEF idVars

(* A process that ends takes its writers and its locks along.              *)
LEMMA KillStep ==
    ASSUME LinkInv, IdInv', NEW e \in End, Kill(e)
    PROVE  LinkInv'
<1>1. /\ proc' = [proc EXCEPT ![e] = "down"] /\ UNCHANGED <<static, pin>>
      /\ conn' = IF conn = "open" THEN "closed" ELSE conn
      /\ hs' = [hs EXCEPT ![e] = "idle"] /\ lock' = [lock EXCEPT ![e] = Nobody]
      /\ writer' = [w \in Writer |-> IF SideOf[w] = e THEN Rest ELSE writer[w]]
      /\ UNCHANGED <<dials, peer, queue, nsend, nrecv, sent, got>>
  BY DEF Kill, KillProc
<1>2. \A d \in End : hs'[d] = IF d = e THEN "idle" ELSE hs[d]
  BY <1>1 DEF LinkInv, SecureTypeOK
<1>3. \A d \in End : lock'[d] = IF d = e THEN Nobody ELSE lock[d]
  BY <1>1 DEF LinkInv, SecureTypeOK
<1>4. SecureTypeOK'
  BY <1>1 DEF LinkInv, SecureTypeOK, IdInv, Rest
<1>5. ProcInv'
  BY <1>1, <1>2, Ends DEF LinkInv, SecureTypeOK, IdInv, IdTypeOK, ProcInv
<1>6. LockInv'
  BY <1>1, <1>3, Sides DEF LinkInv, LockInv, Rest
<1> QED
  BY <1>1, <1>2, <1>4, <1>5, <1>6, StopStep

(* A process that is up keeps its keys until it ends.                      *)
LEMMA IdNextKeeps ==
    ASSUME IdInv, IdNext
    PROVE  /\ \A e \in End : proc[e] = "up" => proc'[e] = "up" /\ static'[e] = static[e]
           /\ proc["agent"] = "up" => pin' = pin
           /\ proc'["agent"] # "down" => pin' \in Key \/ (proc["agent"] # "down" /\ pin' = pin)
<1>1. /\ proc \in [End -> {"down", "create", "write", "publish", "truncated", "up"}]
      /\ static \in [End -> Key \cup {NoKey}]
  BY DEF IdInv, IdTypeOK
<1>2. ASSUME NEW e \in End,
             LoadIdentity(e) \/ CreateFile(e) \/ WriteKey(e) \/ WriteKeyFails(e)
               \/ (\E k \in Key : GenerateKeypair(e, k)) \/ RemoveMalformed(e)
      PROVE  /\ proc[e] # "up"
             /\ \A d \in End \ {e} : proc'[d] = proc[d] /\ static'[d] = static[d]
             /\ pin' = pin \/ (e = "agent" /\ pin' \in Key)
             /\ e = "agent" /\ proc[e] = "down" /\ proc'[e] # "down" => pin' \in Key
  BY <1>1, <1>2 DEF LoadIdentity, CreateFile, WriteKey, WriteKeyFails, GenerateKeypair,
     RemoveMalformed, MayStart, HasIdentity
<1>3. ASSUME TruncatePubkey \/ WritePubkey
      PROVE  /\ proc["broker"] # "up" /\ UNCHANGED <<static, pin>>
             /\ \A d \in End \ {"broker"} : proc'[d] = proc[d]
  BY <1>1, <1>3 DEF TruncatePubkey, WritePubkey
<1> QED
  BY <1>2, <1>3, Ends DEF IdNext

(* Starts and publications touch no process that has a link.               *)
LEMMA IdStep ==
    ASSUME LinkInv, IdInv', IdNext, UNCHANGED linkVars
    PROVE  LinkInv'
<1>1. UNCHANGED <<conn, dials, hs, peer, queue, nsend, nrecv, lock, writer, sent, got>>
  BY DEF linkVars
<1>2. \A e \in End : hs[e] # "idle" => /\ proc'[e] = "up" /\ static'[e] = static[e]
                                       /\ e = "agent" => pin' = pin
  BY IdNextKeeps DEF LinkInv, ProcInv
<1>3. SecureTypeOK'
  BY <1>1 DEF LinkInv, SecureTypeOK, IdInv
<1>4. ProcInv'
  BY <1>1, <1>2, IdNextKeeps DEF LinkInv, ProcInv
<1>5. LockInv' /\ OpenInv' /\ EarlyInv'
  BY <1>1 DEF LinkInv, LockInv, OpenInv, EarlyInv, Unused, AtRest
<1>6. AgentInv' /\ StreamInv'
  <2>1. \A r \in End : \A k \in {0, 1} : Stream(r, k) => Stream(r, k)'
    BY <1>1, StreamKept
  <2>2. \A s, r \in End : Unused(s, r) => Unused(s, r)'
    BY <1>1 DEF Unused, AtRest
  <2>3. AtRest("agent") => AtRest("agent")'
    BY <1>1 DEF AtRest
  <2> QED
    BY <1>1, <1>2, <2>1, <2>2, <2>3, Ends DEF LinkInv, AgentInv, StreamInv
<1>7. AgreeInv'
  BY <1>1, <1>2, Ends DEF LinkInv, AgreeInv, authorized
<1> QED
  BY <1>3, <1>4, <1>5, <1>6, <1>7 DEF LinkInv

-----------------------------------------------------------------------------
(* Whoever writes has a session, so both directions are streams by then.   *)
LEMMA ActiveWriter ==
    ASSUME LinkInv, NEW w \in Writer, hs[SideOf[w]] = "done" \/ writer[w].at # "rest"
    PROVE  /\ hs["broker"] \notin {"msg1", "msg2"}
           /\ hs["agent"] \in {"msg1", "msg2"} =>
                /\ SideOf[w] = "broker" /\ hs["agent"] = "msg2"
                /\ queue["agent"] # <<>> /\ Stream("agent", 1)
<1>1. SideOf[w] = "agent" \/ SideOf[w] = "broker"
  BY Sides, Ends
<1>2. writer[w].at # "rest" => ~AtRest(SideOf[w])
  BY DEF AtRest, Rest
<1>3. hs["broker"] \notin {"msg1", "msg2"}
  BY <1>1, <1>2 DEF LinkInv, EarlyInv, Unused
<1> QED
  BY <1>1, <1>2, <1>3 DEF LinkInv, AgentInv, Unused

(* What a writer's steps have in common.                                   *)
LEMMA WriterStep ==
    ASSUME LinkInv, SecureTypeOK', IdInv', LockInv', NEW w \in Writer,
           hs[SideOf[w]] = "done" \/ writer[w].at # "rest",
           UNCHANGED <<idVars, conn, dials, hs, peer, nrecv, got>>,
           \A r \in End : \A k \in {0, 1} : Stream(r, k) => Stream(r, k)',
           queue["agent"] # <<>> => queue'["agent"] # <<>>,
           SideOf[w] = "broker" /\ AtRest("agent") =>
             sent'["agent"] = sent["agent"] /\ nsend'["agent"] = nsend["agent"] /\ AtRest("agent")'
    PROVE  LinkInv'
<1>1. ProcInv' /\ OpenInv' /\ AgreeInv'
  BY DEF LinkInv, ProcInv, OpenInv, AgreeInv, idVars, authorized
<1>2. EarlyInv' /\ AgentInv'
  BY ActiveWriter, Ends DEF LinkInv, EarlyInv, AgentInv
<1>3. StreamInv'
  BY DEF LinkInv, StreamInv
<1> QED
  BY <1>1, <1>2, <1>3 DEF LinkInv

(* Whoever takes the lock is the only one inside Write at its end.         *)
LEMMA LockStep ==
    ASSUME LinkInv, IdInv', NEW w \in Writer, Lock(w)
    PROVE  LinkInv'
<1>1. /\ lock[SideOf[w]] = Nobody /\ lock' = [lock EXCEPT ![SideOf[w]] = w]
      /\ writer[w] = Rest /\ writer' = [writer EXCEPT ![w].at = "encrypt"]
      /\ hs[SideOf[w]] = "done" /\ nsend[SideOf[w]] < MaxSend
      /\ UNCHANGED <<idVars, conn, dials, hs, peer, queue, nsend, nrecv, sent, got>>
  BY DEF Lock
<1>2. \A v \in Writer : v # w => writer'[v] = writer[v]
  BY <1>1 DEF LinkInv, SecureTypeOK
<1>3. writer'[w].at = "encrypt" /\ writer[w].at = "rest"
  BY <1>1 DEF LinkInv, SecureTypeOK, Rest
<1>4. SecureTypeOK'
  BY <1>1, Sides DEF LinkInv, SecureTypeOK, IdInv
<1>5. LockInv'
  <2>1. ASSUME NEW v \in Writer, v # w
        PROVE  /\ writer'[v].at = "rest" => writer'[v] = Rest
               /\ writer'[v].at # "rest" => lock'[SideOf[v]] = v
    <3>1. writer[v].at # "rest" => lock[SideOf[v]] = v /\ SideOf[v] # SideOf[w]
      BY <1>1, Sides DEF LinkInv, LockInv
    <3>2. SideOf[v] # SideOf[w] => lock'[SideOf[v]] = lock[SideOf[v]]
      BY <1>1, Sides DEF LinkInv, SecureTypeOK
    <3> QED
      BY <1>2, <2>1, <3>1, <3>2 DEF LinkInv, LockInv
  <2>2. lock'[SideOf[w]] = w
    BY <1>1, Sides DEF LinkInv, SecureTypeOK
  <2>3. UNCHANGED nsend
    BY <1>1
  <2> QED
    BY <1>1, <1>2, <1>3, <2>1, <2>2, <2>3 DEF LinkInv, LockInv
<1>6. \A r \in End : \A k \in {0, 1} : Stream(r, k) => Stream(r, k)'
  <2>1. \A v \in Writer : writer'[v].at = "write" <=> writer[v].at = "write"
    BY <1>2, <1>3
  <2>2. UNCHANGED <<conn, queue, nsend, nrecv, sent, got>>
    BY <1>1
  <2> QED
    BY <2>1, <2>2, StreamKept
<1>7. SideOf[w] = "broker" /\ AtRest("agent") => AtRest("agent")'
  BY <1>2 DEF AtRest
<1> QED
  BY <1>1, <1>4, <1>5, <1>6, <1>7, WriterStep

(* The nonce is the number of what lies in the queue and was read.         *)
LEMMA EncryptStep ==
    ASSUME LinkInv, IdInv', NEW w \in Writer, Encrypt(w)
    PROVE  LinkInv'
<1> DEFINE s == SideOf[w]
           ct == Cipher(SendCipher(s), nsend[s], nsend[s] + 1)
<1>1. /\ writer[w].at = "encrypt" /\ writer' = [writer EXCEPT ![w] = [at |-> "write", ct |-> ct]]
      /\ nsend' = [nsend EXCEPT ![s] = @ + 1]
      /\ UNCHANGED <<idVars, conn, dials, hs, peer, queue, nrecv, lock, sent, got>>
  BY DEF Encrypt
<1>2. s \in End /\ lock[s] = w /\ nsend[s] \in Nat /\ nsend[s] < MaxSend
  BY <1>1, Sides DEF LinkInv, SecureTypeOK, LockInv
<1>3. \A v \in Writer : v # w => writer'[v] = writer[v] /\ (SideOf[v] = s => writer[v].at = "rest")
  BY <1>1, <1>2 DEF LinkInv, SecureTypeOK, LockInv
<1>4. writer'[w] = [at |-> "write", ct |-> ct] /\ nsend'[s] = nsend[s] + 1
      /\ \A e \in End \ {s} : nsend'[e] = nsend[e]
  BY <1>1, <1>2 DEF LinkInv, SecureTypeOK
<1>5. ct \in CipherT
  BY <1>2, Bounds DEF Cipher, CipherT, Payload, SendCipher
<1>6. SecureTypeOK'
  BY <1>1, <1>2, <1>5 DEF LinkInv, SecureTypeOK, IdInv
<1>7. LockInv'
  <2>1. nsend'[s] \in 1..MaxSend /\ nsend'[s] - 1 = nsend[s] /\ nsend[s] + 1 = nsend'[s]
    BY <1>2, <1>4, Bounds
  <2> HIDE DEF s
  <2>2. ct = Cipher(SendCipher(s), nsend'[s] - 1, nsend'[s])
    BY <2>1
  <2> HIDE DEF ct
  <2>3. ASSUME NEW v \in Writer, v # w
        PROVE  /\ writer'[v].at = "rest" => writer'[v] = Rest
               /\ writer'[v].at # "rest" => lock'[SideOf[v]] = v /\ SideOf[v] # s
    BY <1>1, <1>3, <2>3 DEF LinkInv, LockInv
  <2>4. ASSUME NEW v \in Writer, v # w, writer'[v].at # "rest"
        PROVE  nsend'[SideOf[v]] = nsend[SideOf[v]] /\ writer'[v] = writer[v]
    BY <1>3, <1>4, <2>3, <2>4, Sides
  <2>5. writer'[w].at = "write" /\ writer'[w].ct = ct /\ lock'[s] = w
    BY <1>1, <1>2, <1>4
  <2> QED
    BY <2>1, <2>2, <2>3, <2>4, <2>5, <1>1 DEF LinkInv, LockInv, s
<1>8. ASSUME NEW r \in End, NEW k \in {0, 1}, Stream(r, k)
      PROVE  Stream(r, k)'
  <2>1. CASE Peer(r) # s
    BY <1>1, <1>2, <1>3, <1>4, <1>8, <2>1, StreamKept, Ends
  <2>2. CASE Peer(r) = s
    <3>1. \A v \in Writer : SideOf[v] = s => writer[v].at # "write"
      BY <1>1, <1>3
    <3>2. conn = "open" => nsend'[s] = nrecv[r] + (Len(queue[r]) - k) + 1
      BY <1>4, <1>8, <2>2, <3>1 DEF Stream
    <3>3. writer'[w].at = "write"
      BY <1>4
    <3> HIDE DEF s
    <3> QED
      BY <1>1, <1>8, <2>2, <3>2, <3>3 DEF Stream, s
  <2> QED
    BY <2>1, <2>2
<1>9. SideOf[w] = "broker" /\ AtRest("agent") => AtRest("agent")' /\ nsend'["agent"] = nsend["agent"]
  BY <1>3, <1>4, Ends DEF AtRest
<1> QED
  BY <1>1, <1>6, <1>7, <1>8, <1>9, WriterStep

(* The ciphertext joins the queue with the next nonce, behind what was     *)
(* sent before it.                                                         *)
LEMMA StreamGrows ==
    ASSUME SecureTypeOK, NEW s \in End, NEW r \in End, s = Peer(r), NEW k \in {0, 1},
           Stream(r, k), NEW ct \in CipherT, ct.c = RecvCipher(r),
           NEW w \in Writer, SideOf[w] = s, writer[w].at = "write", ct.n = nsend[s] - 1,
           queue'[r] = Append(queue[r], ct), sent'[s] = Append(sent[s], ct.m),
           UNCHANGED <<conn, nsend, nrecv, got>>,
           \A v \in Writer : SideOf[v] = s => writer'[v].at # "write"
    PROVE  Stream(r, k)'
<1> DEFINE q == queue[r] p == queue'[r]
           g == Len(got[r]) l == Len(q)
<1>1. /\ q \in Seq(MsgT) /\ sent[s] \in Seq(Payload) /\ ct \in MsgT /\ ct.m \in Payload
      /\ g \in Nat /\ l \in Nat /\ nsend[s] \in Nat /\ nrecv[r] \in Nat /\ ct.type = "data"
  <2>1. /\ queue[r] \in Seq(MsgT) /\ sent[s] \in Seq(Payload) /\ got[r] \in Seq(Payload)
        /\ nsend[s] \in Nat /\ nrecv[r] \in Nat
    BY DEF SecureTypeOK
  <2>2. ct.m \in Payload /\ ct.type = "data" /\ ct \in MsgT
    BY MsgFacts DEF CipherT
  <2> QED
    BY <2>1, <2>2
<1>2. /\ Len(p) = l + 1 /\ \A i \in 1..l : p[i] = q[i]
      /\ p[l + 1] = ct
  BY <1>1, AppendFacts
<1>3. /\ Len(sent'[s]) = Len(sent[s]) + 1 /\ sent'[s][Len(sent[s]) + 1] = ct.m
      /\ \A i \in 1..Len(sent[s]) : sent'[s][i] = sent[s][i]
  BY <1>1, AppendFacts
<1>4. /\ nrecv[r] = g /\ l >= k /\ Len(sent[s]) = g + (l - k)
      /\ conn = "open" => nsend[s] = nrecv[r] + (l - k) + 1
      /\ \A i \in k+1..l : /\ q[i].type = "data" /\ q[i].c = RecvCipher(r)
                           /\ q[i].m = sent[s][g + (i - k)]
                           /\ conn = "open" => q[i].n = nrecv[r] + (i - k) - 1
  BY DEF Stream
<1>5. k + 1 \in Nat /\ k \in Nat
  OBVIOUS
<1> HIDE DEF q, p, g, l
<1>6. ASSUME NEW i \in k+1..Len(p)
      PROVE  /\ p[i].type = "data" /\ p[i].c = RecvCipher(r)
             /\ p[i].m = sent'[s][g + (i - k)]
             /\ conn = "open" => p[i].n = nrecv[r] + (i - k) - 1
  <2>1. CASE i \in k+1..l
    <3>1. \A a, b, c \in Nat : \A j \in c+1..b : j \in 1..b /\ a + (j - c) \in 1..(a + (b - c))
      OBVIOUS
    <3>2. i \in 1..l /\ g + (i - k) \in 1..(g + (l - k))
      BY <1>1, <1>5, <2>1, <3>1
    <3>3. i \in 1..l /\ g + (i - k) \in 1..Len(sent[s])
      BY <1>4, <3>2
    <3> QED
      BY <1>2, <1>3, <1>4, <2>1, <3>3
  <2>2. CASE i = l + 1
    <3>1. g + (i - k) = Len(sent[s]) + 1
      BY <1>1, <1>4, <1>5, <2>2
    <3>2. conn = "open" => nsend[s] - 1 = nrecv[r] + (i - k) - 1
      BY <1>1, <1>4, <1>5, <2>2
    <3>3. p[i] = ct /\ sent'[s][g + (i - k)] = ct.m
      BY <1>2, <1>3, <2>2, <3>1
    <3>4. ct.type = "data" /\ ct.c = RecvCipher(r) /\ ct.n = nsend[s] - 1
      BY <1>1
    <3> QED
      BY <3>2, <3>3, <3>4
  <2>3. i \in k+1..l \/ i = l + 1
    BY <1>1, <1>2, <1>5, <1>6
  <2> QED
    BY <2>1, <2>2, <2>3
<1>7. /\ Len(p) >= k /\ Len(sent'[s]) = g + (Len(p) - k)
      /\ conn = "open" => nsend[s] = nrecv[r] + (Len(p) - k)
  BY <1>1, <1>2, <1>3, <1>4, <1>5
<1>8. nrecv'[r] = nrecv[r] /\ got'[r] = got[r] /\ nsend'[s] = nsend[s] /\ conn' = conn
  OBVIOUS
<1> QED
  BY <1>4, <1>6, <1>7, <1>8 DEF Stream, p, g

(* The writer sends what it has encrypted and releases the lock.           *)
LEMMA WriteOutStep ==
    ASSUME LinkInv, IdInv', NEW w \in Writer, WriteOut(w)
    PROVE  LinkInv'
<1> DEFINE s == SideOf[w] r == Peer(s) ct == writer[w].ct
<1>1. /\ writer[w].at = "write" /\ writer' = [writer EXCEPT ![w] = Rest]
      /\ lock' = [lock EXCEPT ![s] = Nobody]
      /\ queue' = [queue EXCEPT ![r] = Append(@, ct)]
      /\ sent' = [sent EXCEPT ![s] = Append(@, ct.m)]
      /\ UNCHANGED <<idVars, conn, dials, hs, peer, nsend, nrecv, got>>
  BY DEF WriteOut, Unlock, WriteMsg
<1>2. s \in End /\ r \in End /\ s = Peer(r) /\ lock[s] = w /\ nsend[s] \in 1..MaxSend
      /\ ct = Cipher(SendCipher(s), nsend[s] - 1, nsend[s])
  BY <1>1, Sides, Ends DEF LinkInv, LockInv
<1>3. ct \in CipherT /\ ct.c = RecvCipher(r) /\ ct.n = nsend[s] - 1 /\ ct.m \in Payload
  <2>1. SendCipher(s) = RecvCipher(r) /\ SendCipher(s) \in {"c0", "c1"}
    BY <1>2, Ends DEF SendCipher
  <2>2. nsend[s] - 1 \in 0..MaxSend /\ nsend[s] \in Payload
    BY <1>2, Bounds DEF Payload
  <2> HIDE DEF s, r, ct
  <2> QED
    BY <1>2, <2>1, <2>2 DEF Cipher, CipherT
<1>4. /\ writer'[w] = Rest
      /\ \A v \in Writer : v # w => writer'[v] = writer[v] /\ (SideOf[v] = s => writer[v] = Rest)
  BY <1>1, <1>2 DEF LinkInv, SecureTypeOK, LockInv
<1>5. /\ queue'[r] = Append(queue[r], ct) /\ sent'[s] = Append(sent[s], ct.m)
      /\ lock'[s] = Nobody
      /\ \A e \in End : /\ e # r => queue'[e] = queue[e]
                        /\ e # s => sent'[e] = sent[e] /\ lock'[e] = lock[e]
  BY <1>1, <1>2 DEF LinkInv, SecureTypeOK
<1>6. SecureTypeOK'
  <2>1. Append(queue[r], ct) \in Seq(MsgT) /\ Append(sent[s], ct.m) \in Seq(Payload)
    BY <1>2, <1>3, MsgFacts, AppendFacts DEF LinkInv, SecureTypeOK
  <2>2. Rest \in [at : {"rest", "encrypt", "write"}, ct : CipherT \cup {Msg2}]
    BY DEF Rest
  <2> HIDE DEF s, r, ct
  <2> QED
    BY <1>1, <1>2, <2>1, <2>2 DEF LinkInv, SecureTypeOK, IdInv
<1>7. LockInv'
  <2>1. ASSUME NEW v \in Writer, v # w, writer[v].at # "rest"
        PROVE  lock'[SideOf[v]] = v
    BY <1>4, <1>5, <2>1, Sides DEF LinkInv, LockInv, Rest
  <2>2. writer'[w] = Rest /\ Rest.at = "rest"
    BY <1>4 DEF Rest
  <2>3. UNCHANGED nsend
    BY <1>1
  <2> HIDE DEF s, r, ct
  <2> QED
    BY <1>4, <2>1, <2>2, <2>3 DEF LinkInv, LockInv
<1>8. ASSUME NEW e \in End, NEW k \in {0, 1}, Stream(e, k)
      PROVE  Stream(e, k)'
  <2>1. CASE e = r
    <3>1. \A v \in Writer : SideOf[v] = s => writer'[v].at # "write"
      BY <1>4 DEF Rest
    <3>2. UNCHANGED <<conn, nsend, nrecv, got>> /\ SecureTypeOK /\ SideOf[w] = s
      BY <1>1 DEF LinkInv
    <3>3. r \in End /\ s \in End /\ s = Peer(r) /\ Stream(r, k) /\ writer[w].at = "write"
      BY <1>1, <1>2, <1>8, <2>1
    <3> HIDE DEF s, r, ct
    <3> QED
      BY <1>3, <1>5, <2>1, <3>1, <3>2, <3>3, StreamGrows
  <2>2. CASE e # r
    <3>1. Peer(e) # s
      BY <1>2, <2>2, Ends
    <3> HIDE DEF s, r, ct
    <3>2. sent'[Peer(e)] = sent[Peer(e)] /\ queue'[e] = queue[e]
      BY <1>5, <2>2, <3>1, Ends
    <3>3. \A v \in Writer : SideOf[v] = Peer(e) => writer'[v] = writer[v]
      BY <1>4, <3>1 DEF s
    <3>4. UNCHANGED <<conn, nsend, nrecv, got>>
      BY <1>1
    <3> QED
      BY <1>8, <3>2, <3>3, <3>4, StreamKept
  <2> QED
    BY <2>1, <2>2
<1>9. queue["agent"] # <<>> => queue'["agent"] # <<>>
  <2>0. queue[r] \in Seq(MsgT) /\ ct \in MsgT
    BY <1>2, <1>3, MsgFacts DEF LinkInv, SecureTypeOK
  <2> HIDE DEF s, r, ct
  <2>1. Append(queue[r], ct) # <<>>
    BY <2>0, AppendFacts
  <2>2. r = "agent" => queue'["agent"] # <<>>
    BY <1>5, <2>1
  <2>3. r # "agent" => queue'["agent"] = queue["agent"]
    BY <1>5, Ends
  <2> QED
    BY <2>2, <2>3
<1>10. SideOf[w] = "broker" /\ AtRest("agent") =>
         sent'["agent"] = sent["agent"] /\ AtRest("agent")'
  BY <1>4, <1>5, Ends DEF AtRest
<1> QED
  BY <1>1, <1>6, <1>7, <1>8, <1>9, <1>10, WriterStep

(* The message at the head of the queue is read into got.                  *)
LEMMA StreamReads ==
    ASSUME SecureTypeOK, NEW r \in End, Stream(r, 0), queue[r] # <<>>,
           queue'[r] = Tail(queue[r]), nrecv'[r] = nrecv[r] + 1,
           got'[r] = Append(got[r], Head(queue[r]).m), Head(queue[r]).m \in Payload,
           UNCHANGED <<conn, nsend, writer, sent>>
    PROVE  Stream(r, 0)'
<1> DEFINE s == Peer(r) q == queue[r] p == queue'[r]
           g == Len(got[r]) h == Len(got'[r]) l == Len(q)
<1>1. /\ q \in Seq(MsgT) /\ g \in Nat /\ l \in Nat /\ nsend[s] \in Nat /\ nrecv[r] \in Nat
      /\ h = g + 1
  <2>1. /\ queue[r] \in Seq(MsgT) /\ got[r] \in Seq(Payload)
        /\ nsend[s] \in Nat /\ nrecv[r] \in Nat
    BY Ends DEF SecureTypeOK
  <2>2. h = g + 1
    BY <2>1, AppendFacts
  <2> QED
    BY <2>1, <2>2
<1>2. l >= 1 /\ Len(p) = l - 1 /\ \A i \in 1..l-1 : p[i] = q[i + 1]
  BY <1>1, TailFacts
<1>3. /\ nrecv[r] = g /\ Len(sent[s]) = g + (l - 0)
      /\ \A i \in 1..l : /\ q[i].type = "data" /\ q[i].c = RecvCipher(r)
                         /\ q[i].m = sent[s][g + (i - 0)]
                         /\ conn = "open" => q[i].n = nrecv[r] + (i - 0) - 1
      /\ conn = "open" =>
           /\ \A w \in Writer : SideOf[w] = s /\ writer[w].at = "write" =>
                nsend[s] = nrecv[r] + (l - 0) + 1
           /\ (\A w \in Writer : SideOf[w] = s => writer[w].at # "write") =>
                nsend[s] = nrecv[r] + (l - 0)
  <2>1. 0 + 1 = 1
    OBVIOUS
  <2> QED
    BY <2>1 DEF Stream
<1>4. conn' = conn /\ nsend'[s] = nsend[s] /\ writer' = writer /\ sent'[s] = sent[s]
      /\ nrecv'[r] = nrecv[r] + 1
  OBVIOUS
<1> HIDE DEF q, p, g, h, l, s
<1>5. ASSUME NEW i \in 1..Len(p)
      PROVE  /\ p[i].type = "data" /\ p[i].c = RecvCipher(r)
             /\ p[i].m = sent[s][h + (i - 0)]
             /\ conn = "open" => p[i].n = nrecv'[r] + (i - 0) - 1
  <2>1. \A a \in Nat : a >= 1 => \A j \in 1..(a - 1) : j + 1 \in 1..a /\ j \in Nat
    OBVIOUS
  <2>2. i + 1 \in 1..l /\ i \in Nat /\ p[i] = q[i + 1]
    BY <1>1, <1>2, <2>1
  <2>3. g + ((i + 1) - 0) = h + (i - 0) /\ nrecv[r] + ((i + 1) - 0) - 1 = nrecv'[r] + (i - 0) - 1
    BY <1>1, <1>4, <2>2
  <2>4. /\ q[i + 1].m = sent[s][g + ((i + 1) - 0)]
        /\ conn = "open" => q[i + 1].n = nrecv[r] + ((i + 1) - 0) - 1
        /\ q[i + 1].type = "data" /\ q[i + 1].c = RecvCipher(r)
    BY <1>3, <2>2
  <2> QED
    BY <2>2, <2>3, <2>4, Zenon
<1>6. /\ nrecv'[r] = h /\ Len(p) >= 0 /\ Len(sent[s]) = h + (Len(p) - 0)
      /\ nrecv'[r] + (Len(p) - 0) = nrecv[r] + (l - 0)
  BY <1>1, <1>2, <1>3, <1>4
<1>7. conn = "open" =>
        /\ \A w \in Writer : SideOf[w] = s /\ writer[w].at = "write" =>
             nsend[s] = nrecv'[r] + (Len(p) - 0) + 1
        /\ (\A w \in Writer : SideOf[w] = s => writer[w].at # "write") =>
             nsend[s] = nrecv'[r] + (Len(p) - 0)
  BY <1>3, <1>6
<1>8. 0 + 1 = 1
  OBVIOUS
<1> QED
  BY <1>4, <1>5, <1>6, <1>7, <1>8 DEF Stream, p, h, s

(* A session that reads takes the next message of its stream, or is given  *)
(* up together with the link; in both cases the other direction is as it   *)
(* was.                                                                    *)
LEMMA ReadStep ==
    ASSUME LinkInv, IdInv', NEW e \in End, Read(e)
    PROVE  LinkInv'
<1> DEFINE ct == Head(queue[e])
<1>1. /\ hs[e] = "done" /\ queue[e] # <<>> /\ queue' = [queue EXCEPT ![e] = Tail(@)]
      /\ UNCHANGED <<idVars, dials, peer, nsend, lock, writer, sent>>
      /\ \/ /\ nrecv' = [nrecv EXCEPT ![e] = @ + 1]
            /\ got' = [got EXCEPT ![e] = Append(@, ct.m)]
            /\ UNCHANGED <<conn, hs>>
         \/ /\ conn' = "closed" /\ hs' = [hs EXCEPT ![e] = "failed"]
            /\ UNCHANGED <<nrecv, got>>
  BY DEF Read, ReadMsg
<1>2. Stream(e, 0) /\ queue[e] \in Seq(MsgT) /\ proc[e] = "up"
  BY <1>1 DEF LinkInv, StreamInv, SecureTypeOK, ProcInv
<1>3. ct.m \in Payload /\ Tail(queue[e]) \in Seq(MsgT)
  <2>1. ct \in MsgT /\ ct = queue[e][1] /\ Tail(queue[e]) \in Seq(MsgT)
        /\ Len(queue[e]) \in Nat /\ Len(queue[e]) >= 1
    BY <1>1, <1>2, TailFacts
  <2>2. 1 \in 0+1..Len(queue[e])
    BY <2>1
  <2>3. queue[e][1].type = "data"
    BY <1>2, <2>2 DEF Stream
  <2> HIDE DEF ct
  <2> QED
    BY <2>1, <2>3, MsgFacts DEF CipherT
<1>4. hs["broker"] \notin {"msg1", "msg2"} /\ hs["agent"] # "msg1"
  BY <1>1, Ends DEF LinkInv, EarlyInv, AgentInv
<1>5. hs["agent"] = "msg2" => e = "broker" /\ queue["agent"] # <<>>
  BY <1>1, Ends DEF LinkInv, AgentInv
<1>6. \A d \in End : /\ hs'[d] = hs[d] \/ (d = e /\ hs'[d] = "failed")
                     /\ d # e => queue'[d] = queue[d] /\ nrecv'[d] = nrecv[d] /\ got'[d] = got[d]
  BY <1>1 DEF LinkInv, SecureTypeOK
<1>7. conn' \in {conn, "closed"} /\ (conn' = "open" => UNCHANGED hs)
  BY <1>1
<1>8. SecureTypeOK'
  <2>1. Append(got[e], ct.m) \in Seq(Payload)
    BY <1>3, AppendFacts DEF LinkInv, SecureTypeOK
  <2> HIDE DEF ct
  <2>2. queue' \in [End -> Seq(MsgT)] /\ conn' \in {"none", "open", "closed"}
    BY <1>1, <1>3 DEF LinkInv, SecureTypeOK
  <2>3. /\ hs' \in [End -> {"idle", "msg1", "msg2", "done", "failed"}]
        /\ nrecv' \in [End -> Nat] /\ got' \in [End -> Seq(Payload)]
    <3>1. /\ hs \in [End -> {"idle", "msg1", "msg2", "done", "failed"}]
          /\ nrecv \in [End -> Nat] /\ got \in [End -> Seq(Payload)]
      BY DEF LinkInv, SecureTypeOK
    <3>2. /\ [hs EXCEPT ![e] = "failed"] \in [End -> {"idle", "msg1", "msg2", "done", "failed"}]
          /\ [nrecv EXCEPT ![e] = @ + 1] \in [End -> Nat]
          /\ [got EXCEPT ![e] = Append(@, ct.m)] \in [End -> Seq(Payload)]
      BY <2>1, <3>1
    <3> QED
      BY <1>1, <3>1, <3>2
  <2> QED
    BY <1>1, <2>2, <2>3 DEF LinkInv, SecureTypeOK, IdInv
<1>9. ProcInv' /\ LockInv' /\ OpenInv' /\ AgreeInv'
  <2> HIDE DEF ct
  <2>1. ProcInv'
    BY <1>1, <1>2, <1>6 DEF LinkInv, ProcInv, idVars
  <2>2. LockInv'
    BY <1>1 DEF LinkInv, LockInv
  <2>3. OpenInv' /\ AgreeInv'
    BY <1>1, <1>6, <1>7, Ends DEF LinkInv, OpenInv, AgreeInv, authorized, idVars
  <2> QED
    BY <2>1, <2>2, <2>3
<1>10. \A d \in End : \A k \in {0, 1} : d # e /\ Stream(d, k) => Stream(d, k)'
  <2>1. UNCHANGED <<nsend, writer, sent>>
    BY <1>1
  <2> QED
    BY <1>6, <1>7, <2>1, StreamKept
<1>11. EarlyInv' /\ AgentInv'
  <2>1. EarlyInv'
    BY <1>4, <1>6, Ends DEF EarlyInv
  <2>2. hs'["agent"] = "msg2" =>
          /\ queue'["agent"] = queue["agent"] /\ queue["agent"] # <<>>
          /\ Stream("agent", 1)'
    BY <1>5, <1>6, <1>10, Ends DEF LinkInv, AgentInv
  <2>3. hs'["agent"] = "msg2" =>
          sent'["agent"] = <<>> /\ nsend'["agent"] = 0 /\ AtRest("agent")'
    BY <1>1, <1>6, Ends DEF LinkInv, AgentInv, AtRest
  <2> QED
    BY <1>4, <1>6, <2>1, <2>2, <2>3, Ends DEF AgentInv
<1>12. hs'[e] = "done" => Stream(e, 0)'
  <2>1. CASE hs'[e] = "failed"
    BY <2>1
  <2>2. CASE hs'[e] # "failed"
    <3>1. /\ nrecv' = [nrecv EXCEPT ![e] = @ + 1]
          /\ got' = [got EXCEPT ![e] = Append(@, ct.m)]
          /\ UNCHANGED <<conn, nsend, writer, sent>>
      BY <1>1, <2>2 DEF LinkInv, SecureTypeOK
    <3>2. queue'[e] = Tail(queue[e]) /\ nrecv'[e] = nrecv[e] + 1 /\ got'[e] = Append(got[e], ct.m)
      BY <1>1, <3>1 DEF LinkInv, SecureTypeOK
    <3>3. SecureTypeOK
      BY DEF LinkInv
    <3> QED
      BY <1>1, <1>2, <1>3, <3>1, <3>2, <3>3, StreamReads
  <2> QED
    BY <2>1, <2>2
<1>13. StreamInv'
  BY <1>6, <1>10, <1>12 DEF LinkInv, StreamInv
<1> QED
  BY <1>8, <1>9, <1>11, <1>13 DEF LinkInv

-----------------------------------------------------------------------------
(* Every step keeps the invariant.                                         *)
LEMMA LinkInvStep == LinkInv /\ [SecureNext]_secureVars => LinkInv'
<1> SUFFICES ASSUME LinkInv, [SecureNext]_secureVars PROVE LinkInv'
  OBVIOUS
<1>0. IdInv'
  BY IdInvStep DEF LinkInv
<1>1. CASE UNCHANGED secureVars
  <2> USE <1>1 DEF secureVars, linkVars, idVars
  <2>1. (SecureTypeOK /\ ProcInv /\ OpenInv)'
    BY DEF LinkInv, SecureTypeOK, IdTypeOK, ProcInv, OpenInv
  <2>2. LockInv'
    BY DEF LinkInv, LockInv, SendCipher
  <2>3. (EarlyInv /\ AgreeInv)'
    BY DEF LinkInv, EarlyInv, AgreeInv, AtRest, Unused, authorized
  <2>4. /\ \A e \in End, k \in 0..1 : Stream(e, k) => Stream(e, k)'
        /\ \A e, f \in End : Unused(e, f) => Unused(e, f)'
        /\ \A e \in End : AtRest(e) => AtRest(e)'
    <3>1. \A e \in End, k \in 0..1 : Stream(e, k) => Stream(e, k)'
      <4> SUFFICES ASSUME NEW e \in End, NEW k \in 0..1, Stream(e, k) PROVE Stream(e, k)'
        OBVIOUS
      <4>1. UNCHANGED <<nrecv, got, queue, sent, conn, writer, nsend>>
        OBVIOUS
      <4> QED
        BY ONLY <4>1, Stream(e, k) DEF Stream, RecvCipher
    <3>2. \A e, f \in End : Unused(e, f) => Unused(e, f)'
      BY DEF Unused, AtRest
    <3>3. \A e \in End : AtRest(e) => AtRest(e)'
      BY DEF AtRest
    <3> QED
      BY <3>1, <3>2, <3>3
  <2>5. AgentInv' /\ StreamInv'
    BY <2>4, Ends DEF LinkInv, AgentInv, StreamInv
  <2> QED
    BY <1>0, <2>1, <2>2, <2>3, <2>5 DEF LinkInv
<1>2. CASE IdNext /\ UNCHANGED linkVars
  BY <1>0, <1>2, IdStep
<1>3. CASE Connect \/ WriteMsg1 \/ ReadMsg1 \/ WriteMsg2 \/ ReadMsg2
  BY <1>0, <1>3, ConnectStep, WriteMsg1Step, ReadMsg1Step, WriteMsg2Step, ReadMsg2Step
<1>4. CASE \E w \in Writer : Lock(w) \/ Encrypt(w) \/ WriteOut(w) \/ WriteFails(w)
  BY <1>0, <1>4, LockStep, EncryptStep, WriteOutStep, WriteFailsStep
<1>5. CASE Close \/ \E e \in End : HandshakeFails(e) \/ ReadFails(e)
  BY <1>0, <1>5, FailStep
<1>6. CASE \E e \in End : Read(e)
  BY <1>0, <1>6, ReadStep
<1>7. CASE \E e \in End : Kill(e)
  BY <1>0, <1>7, KillStep
<1> QED
  BY <1>1, <1>2, <1>3, <1>4, <1>5, <1>6, <1>7 DEF SecureNext, LinkNext

(* LinkInv holds throughout.                                               *)
THEOREM LinkInvariant == SecureSpec => []LinkInv
  BY LinkInvInit, LinkInvStep, PTL DEF SecureSpec

(* Every variable of the link has its type; in particular what is sent and *)
(* read are payloads and the queues hold handshake messages and            *)
(* ciphertexts only.                                                       *)
THEOREM SecureTypeCorrect == SecureSpec => []SecureTypeOK
<1>1. LinkInv => SecureTypeOK
  BY DEF LinkInv
<1> QED
  BY <1>1, LinkInvariant, PTL

(* When the initiator has a session over an open link, the responder has   *)
(* one too, each has authenticated the other, and the initiator is         *)
(* authorized (secure.go:177).                                             *)
THEOREM PeersAgreeCorrect == SecureSpec => []PeersAgree
<1>1. LinkInv => PeersAgree
  BY Ends DEF LinkInv, EarlyInv, AgentInv, AgreeInv, OpenInv, PeersAgree, authorized
<1> QED
  BY <1>1, LinkInvariant, PTL

(* Over an open link the ciphertexts lie in each queue in the order of     *)
(* their nonces, the next one with the nonce its reader expects: the locks *)
(* around Write (broker.go:47, agent.go:101) keep encrypting and sending   *)
(* together.                                                               *)
THEOREM InNonceOrderCorrect == SecureSpec => []InNonceOrder
<1>1. LinkInv => InNonceOrder
  <2> SUFFICES ASSUME LinkInv, NEW e \in End, conn = "open", hs[e] = "done",
                      NEW i \in 1..Len(queue[e])
               PROVE  /\ queue[e][i].type = "data" /\ queue[e][i].c = RecvCipher(e)
                      /\ queue[e][i].n = nrecv[e] + i - 1
    BY DEF InNonceOrder
  <2>1. Stream(e, 0) /\ 0 + 1 = 1 /\ nrecv[e] \in Nat
    BY DEF LinkInv, StreamInv, SecureTypeOK
  <2>2. /\ queue[e][i].type = "data" /\ queue[e][i].c = RecvCipher(e)
        /\ queue[e][i].n = nrecv[e] + (i - 0) - 1
    BY <2>1 DEF Stream
  <2>3. nrecv[e] + (i - 0) - 1 = nrecv[e] + i - 1
    BY <2>1
  <2> QED
    BY <2>2, <2>3
<1> QED
  BY <1>1, LinkInvariant, PTL

-----------------------------------------------------------------------------
(* What a step of the link does to the direction that r reads, in the      *)
(* words of MsgChannel.                                                    *)
ChannelStep(r) ==
    LET s == Peer(r) IN
    \/ conn # "open" /\ conn' = "open" /\ sent'[s] = <<>> /\ got'[r] = <<>>
    \/ /\ \E m \in Payload : sent'[s] = Append(sent[s], m)
       /\ conn' = conn /\ got'[r] = got[r]
    \/ /\ Len(got[r]) < Len(sent[s])
       /\ got'[r] = Append(got[r], sent[s][Len(got[r]) + 1])
       /\ conn' = conn /\ sent'[s] = sent[s]
    \/ conn = "open" /\ conn' # "open" /\ sent'[s] = sent[s] /\ got'[r] = got[r]
    \/ (conn = "open" <=> conn' = "open") /\ sent'[s] = sent[s] /\ got'[r] = got[r]

(* A write that succeeds is a Send of its direction.                       *)
LEMMA WriteOutSends ==
    ASSUME LinkInv, NEW w \in Writer, WriteOut(w), NEW r \in End
    PROVE  ChannelStep(r)
<1>1. /\ sent' = [sent EXCEPT ![SideOf[w]] = Append(@, writer[w].ct.m)]
      /\ UNCHANGED <<conn, got>> /\ writer[w].at = "write"
  BY DEF WriteOut
<1>2. writer[w].ct.m \in Payload
  <2>1. /\ nsend[SideOf[w]] \in 1..MaxSend
        /\ writer[w].ct = Cipher(SendCipher(SideOf[w]), nsend[SideOf[w]] - 1, nsend[SideOf[w]])
    BY <1>1 DEF LinkInv, LockInv
  <2>2. \A c, n, m : Cipher(c, n, m).m = m
    BY DEF Cipher
  <2> QED
    BY <2>1, <2>2 DEF Payload
<1>3. sent'[Peer(r)] = IF Peer(r) = SideOf[w] THEN Append(sent[Peer(r)], writer[w].ct.m)
                                              ELSE sent[Peer(r)]
  BY <1>1, Ends DEF LinkInv, SecureTypeOK
<1> QED
  BY <1>1, <1>2, <1>3 DEF ChannelStep

(* A message that is decrypted is the next one that was sent, so reading   *)
(* it is a Deliver; a failed read closes the link.                         *)
LEMMA ReadDelivers ==
    ASSUME LinkInv, NEW e \in End, Read(e), NEW r \in End
    PROVE  ChannelStep(r)
<1> DEFINE ct == Head(queue[e])
<1>1. /\ hs[e] = "done" /\ queue[e] # <<>> /\ UNCHANGED sent
      /\ \/ /\ got' = [got EXCEPT ![e] = Append(@, ct.m)] /\ UNCHANGED conn
         \/ conn' = "closed" /\ UNCHANGED got
  BY DEF Read, ReadMsg
<1>2. ct.m = sent[Peer(e)][Len(got[e]) + 1] /\ Len(got[e]) < Len(sent[Peer(e)])
  <2>1. Stream(e, 0) /\ queue[e] \in Seq(MsgT) /\ Len(got[e]) \in Nat
    BY <1>1 DEF LinkInv, StreamInv, SecureTypeOK
  <2>2. ct = queue[e][1] /\ Len(queue[e]) \in Nat /\ Len(queue[e]) >= 1
    BY <1>1, <2>1, TailFacts
  <2>3. 1 \in 0+1..Len(queue[e]) /\ 1 - 0 = 1
    BY <2>2
  <2>4. queue[e][1].m = sent[Peer(e)][Len(got[e]) + (1 - 0)]
        /\ Len(sent[Peer(e)]) = Len(got[e]) + (Len(queue[e]) - 0)
    BY <2>1, <2>3 DEF Stream
  <2>5. Len(got[e]) < Len(got[e]) + (Len(queue[e]) - 0)
    <3>1. \A a, b \in Nat : b >= 1 => a < a + (b - 0)
      OBVIOUS
    <3> QED
      BY <2>1, <2>2, <3>1
  <2> HIDE DEF ct
  <2> QED
    BY <2>2, <2>3, <2>4, <2>5
<1> HIDE DEF ct
<1>3. CASE conn' = "closed" /\ UNCHANGED got
  BY <1>1, <1>3 DEF ChannelStep, LinkInv, SecureTypeOK
<1>4. CASE got' = [got EXCEPT ![e] = Append(@, ct.m)] /\ UNCHANGED conn
  <2>1. got'[r] = IF r = e THEN Append(got[r], ct.m) ELSE got[r]
    BY <1>4 DEF LinkInv, SecureTypeOK
  <2> QED
    BY <1>1, <1>2, <1>4, <2>1 DEF ChannelStep
<1> QED
  BY <1>1, <1>3, <1>4

(* Every other step of a link opens it, closes it or leaves its two        *)
(* directions alone.                                                       *)
LEMMA LinkTakesChannelStep ==
    ASSUME LinkInv, [SecureNext]_secureVars, NEW r \in End
    PROVE  ChannelStep(r)
<1>1. CASE \E w \in Writer : WriteOut(w)
  BY <1>1, WriteOutSends
<1>2. CASE \E e \in End : Read(e)
  BY <1>2, ReadDelivers
<1>3. CASE Connect
  BY <1>3, Ends DEF Connect, ChannelStep
<1>4. CASE ReadMsg1 \/ Close \/ \E e \in End : Kill(e)
  <2>1. UNCHANGED <<sent, got>> /\ conn' \in {conn, "closed"}
    BY <1>4 DEF ReadMsg1, Close, Kill
  <2> QED
    BY <2>1 DEF ChannelStep
<1>5. CASE UNCHANGED <<conn, sent, got>>
  BY <1>5 DEF ChannelStep
<1>6. CASE UNCHANGED secureVars \/ (IdNext /\ UNCHANGED linkVars)
  BY <1>5, <1>6 DEF secureVars, linkVars
<1>7. CASE WriteMsg1 \/ WriteMsg2 \/ ReadMsg2
  BY <1>5, <1>7 DEF WriteMsg1, WriteMsg2, ReadMsg2
<1>8. CASE \E w \in Writer : Lock(w) \/ Encrypt(w) \/ WriteFails(w)
  BY <1>5, <1>8 DEF Lock, Encrypt, WriteFails
<1>9. CASE \E e \in End : HandshakeFails(e) \/ ReadFails(e)
  BY <1>5, <1>9 DEF HandshakeFails, ReadFails
<1> QED
  BY <1>1, <1>2, <1>3, <1>4, <1>6, <1>7, <1>8, <1>9 DEF SecureNext, LinkNext

(* Each direction of a session is a message channel: every step of the     *)
(* link opens it, shuts it, sends, delivers the next message, or leaves it *)
(* alone, so messages are read once, in order and none is skipped          *)
(* (transport.go:13-14). That they arrive at all is a liveness property,   *)
(* which TLC checks.                                                       *)
THEOREM ChannelsImplementedSafely ==
    SecureSpec => /\ ToBroker!Init /\ [][ToBroker!Next]_(ToBroker!channelVars)
                  /\ ToAgent!Init /\ [][ToAgent!Next]_(ToAgent!channelVars)
<1>1. SecureInit => ToBroker!Init /\ ToAgent!Init
  BY Ends DEF SecureInit, ToBroker!Init, ToAgent!Init
<1>2. LinkInv /\ [SecureNext]_secureVars => [ToBroker!Next]_(ToBroker!channelVars)
  <2> SUFFICES ASSUME LinkInv, [SecureNext]_secureVars
               PROVE  [ToBroker!Next]_(ToBroker!channelVars)
    OBVIOUS
  <2>1. ChannelStep("broker")
    BY LinkTakesChannelStep, Ends
  <2> QED
    BY <2>1, Ends DEF ChannelStep, ToBroker!Next, ToBroker!Open, ToBroker!Send, ToBroker!Deliver,
       ToBroker!Shut, ToBroker!channelVars
<1>3. LinkInv /\ [SecureNext]_secureVars => [ToAgent!Next]_(ToAgent!channelVars)
  <2> SUFFICES ASSUME LinkInv, [SecureNext]_secureVars
               PROVE  [ToAgent!Next]_(ToAgent!channelVars)
    OBVIOUS
  <2>1. ChannelStep("agent")
    BY LinkTakesChannelStep, Ends
  <2> QED
    BY <2>1, Ends DEF ChannelStep, ToAgent!Next, ToAgent!Open, ToAgent!Send, ToAgent!Deliver,
       ToAgent!Shut, ToAgent!channelVars
<1> QED
  BY <1>1, <1>2, <1>3, LinkInvariant, PTL DEF SecureSpec

=============================================================================
