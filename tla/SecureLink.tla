----------------------------- MODULE SecureLink -----------------------------
(***************************************************************************)
(* secure.Session over a transport.MsgConn: the Noise IK handshake between *)
(* one agent and the broker, then the encrypted messages of several        *)
(* goroutines at each end, over the two bounded queues of transport.Pipe   *)
(* (a WebSocket differs in where it buffers). Identity supplies the keys.  *)
(*                                                                         *)
(* Noise is external. Handshake message 1 can be read with the static key  *)
(* it was made for only. A ciphertext decrypts under the cipher and the    *)
(* nonce it was made with; Encrypt and Decrypt count nonces, and a failed  *)
(* Decrypt does not advance.                                               *)
(***************************************************************************)
EXTENDS Identity, Sequences

CONSTANTS
    Writer,      \* goroutines that write
    Nobody,
    SideOf,      \* the end of each
    Authorized,  \* cfg.Authorized of the responder; empty accepts any peer
    Capacity,    \* messages a queue holds (16)
    MaxSend,     \* bound: messages each end sends over a link
    MaxDials     \* bound: links

ASSUME Sides == SideOf \in [Writer -> End] /\ Nobody \notin Writer
ASSUME Bounds == Capacity \in Nat \ {0} /\ MaxSend \in Nat /\ MaxDials \in Nat

VARIABLES
    conn,     \* the MsgConn
    dials,    \* the bound's counter
    hs,       \* where the handshake is at each end
    peer,     \* Session.PeerStatic
    queue,    \* what each end has not read yet
    nsend,    \* nonces of Session.send ...
    nrecv,    \* ... and Session.recv
    lock,     \* agentConn.mu and Agent.wmu
    writer,   \* where each goroutine is in Write, and its ciphertext
    sent,     \* payloads WriteMsg has taken, per sending end
    got       \* payloads Read has returned, per receiving end

linkVars == <<conn, dials, hs, peer, queue, nsend, nrecv, lock, writer, sent, got>>
secureVars == <<idVars, linkVars>>

Payload == 1..MaxSend
Msg1(to, from) == [type |-> "msg1", to |-> to, from |-> from]
Msg2 == [type |-> "msg2"]
Cipher(c, n, m) == [type |-> "data", c |-> c, n |-> n, m |-> m]
CipherT == [type : {"data"}, c : {"c0", "c1"}, n : 0..MaxSend, m : Payload]
MsgT == [type : {"msg1"}, to : Key, from : Key] \cup {Msg2} \cup CipherT
Rest == [at |-> "rest", ct |-> Msg2]

SecureTypeOK ==
    /\ IdTypeOK
    /\ conn \in {"none", "open", "closed"} /\ dials \in 0..MaxDials
    /\ hs \in [End -> {"idle", "msg1", "msg2", "done", "failed"}]
    /\ peer \in [End -> Key \cup {NoKey}]
    /\ queue \in [End -> Seq(MsgT)]
    /\ nsend \in [End -> Nat] /\ nrecv \in [End -> Nat]
    /\ lock \in [End -> Writer \cup {Nobody}]
    /\ writer \in [Writer -> [at : {"rest", "encrypt", "write"}, ct : CipherT \cup {Msg2}]]
    /\ sent \in [End -> Seq(Payload)] /\ got \in [End -> Seq(Payload)]

SecureInit ==
    /\ IdInit
    /\ conn = "none" /\ dials = 0
    /\ hs = [e \in End |-> "idle"] /\ peer = [e \in End |-> NoKey]
    /\ queue = [e \in End |-> <<>>]
    /\ nsend = [e \in End |-> 0] /\ nrecv = [e \in End |-> 0]
    /\ lock = [e \in End |-> Nobody] /\ writer = [w \in Writer |-> Rest]
    /\ sent = [e \in End |-> <<>>] /\ got = [e \in End |-> <<>>]

-----------------------------------------------------------------------------
(* MsgConn. WriteMsg blocks while the queue is full; ReadMsg takes the     *)
(* oldest message. After Close both may fail or, where room or a message   *)
(* is left, go on: select takes either branch.                             *)

(* A mutant: a full queue drops the message and WriteMsg reports success.  *)
WriteMsgDrops(e, m) ==
    queue' = IF Len(queue[e]) < Capacity THEN [queue EXCEPT ![e] = Append(@, m)] ELSE queue

WriteMsg(e, m) ==
    /\ Len(queue[e]) < Capacity
    /\ queue' = [queue EXCEPT ![e] = Append(@, m)]

ReadMsg(e) == queue[e] # <<>> /\ queue' = [queue EXCEPT ![e] = Tail(@)]

MsgFails == conn = "closed"

(* The agent dials and both ends call Handshake.                           *)
Connect ==
    /\ proc["agent"] = "up" /\ proc["broker"] = "up"
    /\ conn # "open" /\ dials < MaxDials
    /\ conn' = "open" /\ dials' = dials + 1
    /\ hs' = [e \in End |-> "msg1"] /\ peer' = [e \in End |-> NoKey]
    /\ queue' = [e \in End |-> <<>>]
    /\ nsend' = [e \in End |-> 0] /\ nrecv' = [e \in End |-> 0]
    /\ lock' = [e \in End |-> Nobody] /\ writer' = [w \in Writer |-> Rest]
    /\ sent' = [e \in End |-> <<>>] /\ got' = [e \in End |-> <<>>]
    /\ UNCHANGED idVars

(* The initiator writes message 1, made for the key it has pinned.         *)
WriteMsg1 ==
    /\ hs["agent"] = "msg1"
    /\ WriteMsg("broker", Msg1(pin, static["agent"]))
    /\ hs' = [hs EXCEPT !["agent"] = "msg2"]
    /\ UNCHANGED <<idVars, conn, dials, peer, nsend, nrecv, lock, writer, sent, got>>

(* A mutant: an unlisted peer is let in.                                   *)
authorizedAny(p) == p \in Key

authorized(p) == Authorized = {} \/ p \in Authorized

(* The responder reads it, and closes the link unless it can and the       *)
(* initiator is authorized.                                                *)
ReadMsg1 ==
    /\ hs["broker"] = "msg1" /\ ReadMsg("broker")
    /\ LET m == Head(queue["broker"]) IN
       IF m.to = static["broker"] /\ authorized(m.from)
         THEN /\ hs' = [hs EXCEPT !["broker"] = "msg2"]
              /\ peer' = [peer EXCEPT !["broker"] = m.from]
              /\ UNCHANGED conn
         ELSE /\ hs' = [hs EXCEPT !["broker"] = "failed"]
              /\ conn' = "closed"
              /\ UNCHANGED peer
    /\ UNCHANGED <<idVars, dials, nsend, nrecv, lock, writer, sent, got>>

(* The responder writes message 2 and has a session.                       *)
WriteMsg2 ==
    /\ hs["broker"] = "msg2"
    /\ WriteMsg("agent", Msg2)
    /\ hs' = [hs EXCEPT !["broker"] = "done"]
    /\ UNCHANGED <<idVars, conn, dials, peer, nsend, nrecv, lock, writer, sent, got>>

(* The initiator reads it and has one.                                     *)
ReadMsg2 ==
    /\ hs["agent"] = "msg2" /\ ReadMsg("agent")
    /\ hs' = [hs EXCEPT !["agent"] = "done"]
    /\ peer' = [peer EXCEPT !["agent"] = pin]
    /\ UNCHANGED <<idVars, conn, dials, nsend, nrecv, lock, writer, sent, got>>

(* A ReadMsg or WriteMsg of the handshake fails.                           *)
HandshakeFails(e) ==
    /\ hs[e] \in {"msg1", "msg2"} /\ MsgFails
    /\ hs' = [hs EXCEPT ![e] = "failed"]
    /\ UNCHANGED <<idVars, conn, dials, peer, queue, nsend, nrecv, lock, writer, sent, got>>

-----------------------------------------------------------------------------
(* c0 encrypts from the initiator to the responder, c1 the other way.      *)
SendCipher(e) == IF e = "agent" THEN "c0" ELSE "c1"
RecvCipher(e) == IF e = "agent" THEN "c1" ELSE "c0"

(* A mutant: nobody holds the write lock.                                  *)
LockNothing(w) ==
    /\ hs[SideOf[w]] = "done" /\ writer[w] = Rest
    /\ Len(sent[SideOf[w]]) < MaxSend /\ nsend[SideOf[w]] < MaxSend
    /\ writer' = [writer EXCEPT ![w].at = "encrypt"]
    /\ UNCHANGED <<idVars, conn, dials, hs, peer, queue, nsend, nrecv, lock, sent, got>>

(* agentConn.send and Agent.write lock, and call Write.                    *)
Lock(w) ==
    /\ hs[SideOf[w]] = "done" /\ writer[w] = Rest
    /\ lock[SideOf[w]] = Nobody /\ nsend[SideOf[w]] < MaxSend
    /\ lock' = [lock EXCEPT ![SideOf[w]] = w]
    /\ writer' = [writer EXCEPT ![w].at = "encrypt"]
    /\ UNCHANGED <<idVars, conn, dials, hs, peer, queue, nsend, nrecv, sent, got>>

(* Write encrypts ...                                                      *)
Encrypt(w) ==
    LET e == SideOf[w] IN
    /\ writer[w].at = "encrypt"
    /\ writer' = [writer EXCEPT ![w] =
                    [at |-> "write", ct |-> Cipher(SendCipher(e), nsend[e], nsend[e] + 1)]]
    /\ nsend' = [nsend EXCEPT ![e] = @ + 1]
    /\ UNCHANGED <<idVars, conn, dials, hs, peer, queue, nrecv, lock, sent, got>>

Unlock(w) ==
    /\ writer' = [writer EXCEPT ![w] = Rest]
    /\ lock' = [lock EXCEPT ![SideOf[w]] = Nobody]

(* ... and sends.                                                          *)
WriteOut(w) ==
    /\ writer[w].at = "write"
    /\ WriteMsg(Peer(SideOf[w]), writer[w].ct)
    /\ sent' = [sent EXCEPT ![SideOf[w]] = Append(@, writer[w].ct.m)]
    /\ Unlock(w)
    /\ UNCHANGED <<idVars, conn, dials, hs, peer, nsend, nrecv, got>>

WriteFails(w) ==
    /\ writer[w].at = "write" /\ MsgFails
    /\ Unlock(w)
    /\ UNCHANGED <<idVars, conn, dials, hs, peer, queue, nsend, nrecv, sent, got>>

Decrypts(e, ct) == ct.type = "data" /\ ct.c = RecvCipher(e) /\ ct.n = nrecv[e]

(* Read returns the next message, or its end gives the link up.            *)
Read(e) ==
    /\ hs[e] = "done" /\ ReadMsg(e)
    /\ LET ct == Head(queue[e]) IN
       IF Decrypts(e, ct)
         THEN /\ nrecv' = [nrecv EXCEPT ![e] = @ + 1]
              /\ got' = [got EXCEPT ![e] = Append(@, ct.m)]
              /\ UNCHANGED <<conn, hs>>
         ELSE /\ conn' = "closed" /\ hs' = [hs EXCEPT ![e] = "failed"]
              /\ UNCHANGED <<nrecv, got>>
    /\ UNCHANGED <<idVars, dials, peer, nsend, lock, writer, sent>>

ReadFails(e) ==
    /\ hs[e] = "done" /\ MsgFails
    /\ hs' = [hs EXCEPT ![e] = "failed"]
    /\ UNCHANGED <<idVars, conn, dials, peer, queue, nsend, nrecv, lock, writer, sent, got>>

(* Either end calls Close, or the network fails.                           *)
Close ==
    /\ conn = "open" /\ conn' = "closed"
    /\ UNCHANGED <<idVars, dials, hs, peer, queue, nsend, nrecv, lock, writer, sent, got>>

(* A killed process takes its link, its goroutines and its locks with it.  *)
Kill(e) ==
    /\ KillProc(e)
    /\ conn' = IF conn = "open" THEN "closed" ELSE conn
    /\ hs' = [hs EXCEPT ![e] = "idle"]
    /\ lock' = [lock EXCEPT ![e] = Nobody]
    /\ writer' = [w \in Writer |-> IF SideOf[w] = e THEN Rest ELSE writer[w]]
    /\ UNCHANGED <<dials, peer, queue, nsend, nrecv, sent, got>>

LinkNext ==
    \/ Connect \/ WriteMsg1 \/ ReadMsg1 \/ WriteMsg2 \/ ReadMsg2 \/ Close
    \/ \E w \in Writer : Lock(w) \/ Encrypt(w) \/ WriteOut(w) \/ WriteFails(w)
    \/ \E e \in End : HandshakeFails(e) \/ Read(e) \/ ReadFails(e)

SecureNext ==
    \/ IdNext /\ UNCHANGED linkVars
    \/ LinkNext
    \/ \E e \in End : Kill(e)

(* The goroutines of the two ends run, and each end keeps reading.         *)
SecureSpec ==
    /\ SecureInit /\ [][SecureNext]_secureVars
    /\ WF_secureVars(ReadMsg2) /\ WF_secureVars(ReadMsg1)
    /\ \A e \in End : WF_secureVars(Read(e))

-----------------------------------------------------------------------------
(* secure.go:177: "The initiator pins the responder ...; the responder     *)
(* authenticates the initiator". When the initiator has a session, the     *)
(* responder has one too, each has the other's key, and the initiator is   *)
(* authorized: no later message or restart changes that under an open link.*)
PeersAgree ==
    conn = "open" /\ hs["agent"] = "done" =>
      /\ hs["broker"] = "done"
      /\ peer["agent"] = static["broker"] /\ peer["broker"] = static["agent"]
      /\ Authorized # {} => static["agent"] \in Authorized

(* What is under way can be decrypted when its turn comes: ciphertexts lie *)
(* in each queue in the order of their nonces and under the cipher that    *)
(* the other end reads with, however many goroutines write, because Write  *)
(* is called with the end's lock held (broker.go:47, agent.go:101).        *)
InNonceOrder ==
    \A e \in End : conn = "open" /\ hs[e] = "done" =>
      \A i \in 1..Len(queue[e]) :
        LET ct == queue[e][i] IN
        ct.type = "data" /\ ct.c = RecvCipher(e) /\ ct.n = nrecv[e] + i - 1

ToBroker == INSTANCE MsgChannel WITH
    sent <- sent["agent"], got <- got["broker"], open <- (conn = "open")
ToAgent == INSTANCE MsgChannel WITH
    sent <- sent["broker"], got <- got["agent"], open <- (conn = "open")

(* Both directions of the session are message channels: each message is    *)
(* read once, in order, and eventually unless the link is closed           *)
(* (transport.go:13-14: "each WriteMsg is delivered to the peer as exactly *)
(* one ReadMsg").                                                          *)
ChannelsImplemented == ToBroker!Spec /\ ToAgent!Spec

=============================================================================
