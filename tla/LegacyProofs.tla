---------------------------- MODULE LegacyProofs ----------------------------
(***************************************************************************)
(* Proofs about the prototype, for any browsers, shells, devices, buffers  *)
(* and numbers of messages: how sessions get their ports and channels, and *)
(* how messages pass the hubs.                                             *)
(***************************************************************************)
EXTENDS LegacyBroker, FiniteSetTheorems, TLAPS

(* Sessions are numbered as browsers get them, each for one browser; and a *)
(* port is opened for a session whose browser has authenticated.           *)
Named0 == {c \in Client : client[c].sid # 0}
SidInv ==
    /\ nsid = Cardinality(Named0)
    /\ \A c \in Client :
         /\ client[c].sid = 0 <=> client[c].at \in {"away", "queued", "refused"}
         /\ client[c].sid <= nsid
         /\ client[c].at = "acked" => source # 0
         /\ \A e \in Client : client[c].sid # 0 /\ client[c].sid = client[e].sid => c = e
    /\ \A s \in Sid :
         channel[s] # "none" => \E c \in Client : client[c] = [at |-> "acked", sid |-> s]

(* A port number given to device d is that of a session for d.             *)
PortOf(s, d) == \E c \in Client : client[c] = [at |-> "acked", sid |-> s] /\ Wants[c] = d

(* Who has joined which channelIO.                                         *)
JoinInv ==
    /\ \A d \in Device : port[d] # 0 => PortOf(port[d], d)
    /\ \A h \in Shell :
         /\ dial[h].port # 0 => PortOf(dial[h].port, dial[h].dev)
         /\ sock[h].hub # "none" => dial[h].port # 0 /\ sock[h].cio = dial[h].port
    /\ \A c \in Client :
         sock[c].hub # "none" =>
           sock[c].cio # 0 /\ (c \in strayed \/ sock[c].cio = client[c].sid)
    /\ \A x \in Socket : sock[x].hub = "none" => sock[x].cio = 0 /\ sock[x].hand = <<>>

-----------------------------------------------------------------------------
LEMMA SocketIs == (Client \subseteq Socket) /\ (Shell \subseteq Socket)
BY DEF Socket

LEMMA SidIs ==
    /\ Cardinality(Client) \in Nat /\ Sid \subseteq Cio /\ 0 \notin Sid
    /\ Sid = {n \in Nat : 1 <= n /\ n <= Cardinality(Client)}
<1>1. Cardinality(Client) \in Nat /\ MaxSid \in Nat /\ Cardinality(Client) <= MaxSid
  BY SessionBound, ChannelBounds, FS_CardinalityType
<1> QED
  BY <1>1 DEF Sid, Cio

LEMMA HeadTail ==
    ASSUME NEW S, NEW q \in Seq(S), q # <<>>
    PROVE  /\ Head(q) \in S /\ Tail(q) \in Seq(S) /\ Len(q) \in Nat \ {0}
           /\ Len(Tail(q)) = Len(q) - 1
OBVIOUS

LEMMA AppendType ==
    ASSUME NEW S, NEW q \in Seq(S), NEW e \in S
    PROVE  /\ Append(q, e) \in Seq(S) /\ Len(q) \in Nat
           /\ Len(Append(q, e)) = Len(q) + 1
OBVIOUS

LEMMA MessageIs ==
    /\ \A x \in Socket, n \in Nat : n <= MaxRead[x] => <<x, n>> \in Message
    /\ \A m \in Message : m = <<m[1], m[2]>> /\ m[1] \in Socket /\ m[2] \in Nat
<1>1. \A x \in Socket, n \in Nat : n <= MaxRead[x] => <<x, n>> \in Message
  BY ChannelBounds DEF Message
<1>2. ASSUME NEW m \in Message
      PROVE  m = <<m[1], m[2]>> /\ m[1] \in Socket /\ m[2] \in Nat
  <2>1. PICK x \in Socket : m \in {x} \X (0..MaxRead[x])
    BY DEF Message
  <2> QED
    BY <2>1, ChannelBounds
<1> QED
  BY <1>1, <1>2

(* The process that has ended keeps nothing.                               *)
LEMMA EndsAll ==
    ASSUME NEW why \in {"authUnreachable", "portTaken", "mapRace"}, Ends(why)
    PROVE  SidInv' /\ JoinInv' /\ LegacyTypeOK'
<1>1. Named0' = {}
  BY DEF Ends, Named0
<1>2. SidInv'
  <2>1. nsid' = Cardinality(Named0') /\ nsid' = 0
    BY <1>1, FS_EmptySet DEF Ends
  <2>2. /\ client' = [c \in Client |-> [at |-> "away", sid |-> 0]]
        /\ channel' = [s \in Sid |-> "none"]
    BY DEF Ends
  <2> QED
    BY <2>1, <2>2 DEF SidInv
<1>3. JoinInv'
  BY DEF Ends, JoinInv, Apart, Socket
<1>4. ChannelTypeOK'
  <2>1. Apart \in SocketT /\ Apart.hand = <<>>
    BY ChannelBounds DEF Apart, SocketT, Hub
  <2>2. <<>> \in Seq(Message) /\ Len(<<>>) = 0 /\ 0 <= Capacity
    BY ChannelBounds
  <2>3. /\ queue' = [s \in Cio |-> [k \in Chan |-> <<>>]]
        /\ sock' = [x \in Socket |-> Apart]
        /\ sent' = [x \in Socket |-> 0] /\ got' = [x \in Socket |-> <<>>] /\ lost' = {}
    BY DEF Ends
  <2> QED
    BY <2>1, <2>2, <2>3 DEF ChannelTypeOK
<1>5. LegacyTypeOK'
  BY <1>4 DEF Ends, LegacyTypeOK, Stage, Named, Sid0
<1> QED
  BY <1>2, <1>3, <1>5

(* A message enters a channel that has room, or leaves one.                *)
LEMMA PutType ==
    ASSUME ChannelTypeOK, NEW x \in Socket, NEW k \in Chan, NEW m \in Message,
           sock[x].cio # 0, Room(x, k), Put(x, k, m)
    PROVE  /\ queue' \in [Cio -> [Chan -> Seq(Message)]]
           /\ \A s \in Cio, j \in Chan : Len(queue'[s][j]) <= Capacity
<1>1. sock[x].cio \in Cio /\ Capacity \in Nat
  BY ChannelBounds DEF ChannelTypeOK, SocketT, Cio
<1> DEFINE s == sock[x].cio
           q == queue[s][k]
<1>2. q \in Seq(Message) /\ Len(q) < Capacity
  BY <1>1 DEF ChannelTypeOK, Room, Chans
<1>3. queue' = [queue EXCEPT ![s] = [queue[s] EXCEPT ![k] = Append(q, m)]]
  BY <1>1 DEF Put, ChannelTypeOK
<1> HIDE DEF s, q
<1>4. s \in Cio
  BY <1>1 DEF s
<1>5. Append(q, m) \in Seq(Message) /\ Len(Append(q, m)) <= Capacity
  BY <1>1, <1>2, AppendType
<1>6. [queue[s] EXCEPT ![k] = Append(q, m)] \in [Chan -> Seq(Message)]
  BY <1>4, <1>5 DEF ChannelTypeOK
<1> QED
  BY <1>3, <1>4, <1>5, <1>6 DEF ChannelTypeOK

LEMMA TakeType ==
    ASSUME ChannelTypeOK, NEW x \in Socket, NEW k \in Chan,
           sock[x].cio # 0, Chans(x)[k] # <<>>, Take(x, k)
    PROVE  /\ queue' \in [Cio -> [Chan -> Seq(Message)]]
           /\ \A s \in Cio, j \in Chan : Len(queue'[s][j]) <= Capacity
           /\ Head(Chans(x)[k]) \in Message
<1>1. sock[x].cio \in Cio /\ Capacity \in Nat
  BY ChannelBounds DEF ChannelTypeOK, SocketT, Cio
<1> DEFINE s == sock[x].cio
           q == queue[s][k]
<1>2. q \in Seq(Message) /\ Len(q) <= Capacity /\ q # <<>> /\ Head(Chans(x)[k]) = Head(q)
  BY <1>1 DEF ChannelTypeOK, Chans
<1>3. queue' = [queue EXCEPT ![s] = [queue[s] EXCEPT ![k] = Tail(q)]]
  BY <1>1 DEF Take, ChannelTypeOK
<1> HIDE DEF s, q
<1>4. s \in Cio
  BY <1>1 DEF s
<1>5. Head(q) \in Message /\ Tail(q) \in Seq(Message) /\ Len(Tail(q)) <= Capacity
  BY <1>1, <1>2, HeadTail
<1>6. [queue[s] EXCEPT ![k] = Tail(q)] \in [Chan -> Seq(Message)]
  BY <1>4, <1>5 DEF ChannelTypeOK
<1> QED
  BY <1>2, <1>3, <1>4, <1>5, <1>6 DEF ChannelTypeOK

(* What a hub does with a message from the other side: it goes to the      *)
(* socket, or it is gone.                                                  *)
LEMMA WriteOutcomes ==
    ASSUME ChannelTypeOK, NEW x \in Socket, WriteMessage(x)
    PROVE  LET m == Head(Chans(x)[For(x)]) IN
           /\ sock[x].cio # 0 /\ sock[x].hub # "none" /\ Chans(x)[For(x)] # <<>> /\ Take(x, For(x))
           /\ UNCHANGED <<sock, sent>> /\ broker' \in {broker, "nilClient"} /\ m \in Message
           /\ UNCHANGED got \/ (m[2] > 0 /\ got' = [got EXCEPT ![x] = Append(got[x], m)])
           /\ lost' \in {lost, lost \cup {m}}
<1> DEFINE m == Head(Chans(x)[For(x)])
<1>1. sock[x].hub \in {"new", "set"}
  BY DEF WriteMessage, Joined
<1>2. For(x) \in Chan
  BY DEF For, Chan
<1>3. sock[x].cio # 0 /\ Chans(x)[For(x)] # <<>> /\ Take(x, For(x))
  BY DEF WriteMessage, Joined
<1>4. m \in Message
  BY <1>2, <1>3, TakeType
<1>5. m[2] \in Nat
  BY <1>4, MessageIs
<1>6. /\ UNCHANGED <<sock, sent>> /\ broker' \in {broker, "nilClient"}
      /\ UNCHANGED got \/ (m[2] > 0 /\ got' = [got EXCEPT ![x] = Append(@, m)])
      /\ lost' \in {lost, lost \cup {m}}
  <2> HIDE DEF m
  <2> USE <1>1, <1>5 DEF WriteMessage
  <2>1. CASE sock[x].hub = "new"
    BY <2>1 DEF m
  <2>2. CASE sock[x].hub = "set" /\ m[2] = 0
    BY <2>2 DEF m
  <2>3. CASE sock[x].hub = "set" /\ m[2] > 0 /\ sock[x].up
    BY <2>3 DEF m
  <2>4. CASE sock[x].hub = "set" /\ m[2] > 0 /\ ~sock[x].up
    BY <2>4 DEF m
  <2> QED
    BY <2>1, <2>2, <2>3, <2>4
<1>7. got \in [Socket -> Seq(Message)]
  BY DEF ChannelTypeOK
<1> QED
  BY <1>1, <1>3, <1>4, <1>6, <1>7

(* A step of a hub, a handler or a page keeps types, sessions and joins.   *)
LEMMA ChannelSteps ==
    ASSUME LegacyTypeOK, SidInv, JoinInv, ChannelStep, UNCHANGED legacyOnly
    PROVE  LegacyTypeOK' /\ SidInv' /\ JoinInv'
<1> DEFINE Goal == /\ ChannelTypeOK'
                   /\ broker' \in {"up", "nilClient", "authUnreachable", "portTaken", "mapRace"}
                   /\ \A x \in Socket :
                        /\ sock'[x].cio = sock[x].cio
                        /\ sock'[x].hub = "none" <=> sock[x].hub = "none"
                        /\ sock[x].hub = "none" => sock'[x].hand = sock[x].hand
<1>0. /\ ChannelTypeOK /\ lost \subseteq Message
      /\ broker \in {"up", "nilClient", "authUnreachable", "portTaken", "mapRace"}
      /\ \A x \in Socket : /\ sock[x] \in SocketT /\ sock[x].hand \in Seq(Message)
                           /\ {From(x), Into(x), For(x)} \subseteq Chan
  BY DEF LegacyTypeOK, ChannelTypeOK, SocketT, From, Into, For, Chan
<1> HIDE DEF Goal
<1>1. ASSUME NEW x \in Socket, NewConnection(x) PROVE Goal
  BY <1>0, <1>1 DEF NewConnection, Joined, ChannelTypeOK, SocketT, Hub, Goal
<1>2. ASSUME NEW x \in Socket, ReadMessage(x) PROVE Goal
  <2>1. /\ Room(x, From(x)) /\ Put(x, From(x), <<x, sent[x] + 1>>)
        /\ sent[x] < MaxRead[x] /\ sent' = [sent EXCEPT ![x] = sent[x] + 1]
        /\ sock[x].cio # 0 /\ UNCHANGED <<broker, sock, got, lost>>
    BY <1>0, <1>2 DEF ReadMessage, Joined, ChannelTypeOK
  <2>2. sent[x] \in Nat /\ MaxRead[x] \in Nat
    BY ChannelBounds DEF LegacyTypeOK, ChannelTypeOK
  <2>3. <<x, sent[x] + 1>> \in Message
    BY <2>1, <2>2, MessageIs
  <2>4. /\ queue' \in [Cio -> [Chan -> Seq(Message)]]
        /\ \A s \in Cio, j \in Chan : Len(queue'[s][j]) <= Capacity
    BY <1>0, <2>1, <2>3, PutType
  <2>5. sent' \in [Socket -> Nat]
    BY <2>1, <2>2 DEF LegacyTypeOK, ChannelTypeOK
  <2> QED
    BY <1>0, <2>1, <2>4, <2>5 DEF ChannelTypeOK, Goal
<1>3. ASSUME NEW x \in Socket, Forward(x) PROVE Goal
  <2>1. /\ sock[x].cio # 0 /\ Chans(x)[From(x)] # <<>> /\ Take(x, From(x)) /\ sock[x].hub # "none"
        /\ sock' = [sock EXCEPT ![x] = [sock[x] EXCEPT !.hand = <<Head(Chans(x)[From(x)])>>]]
        /\ UNCHANGED <<broker, sent, got, lost>>
    BY <1>0, <1>3 DEF Forward, Joined, ChannelTypeOK
  <2>2. /\ queue' \in [Cio -> [Chan -> Seq(Message)]]
        /\ \A s \in Cio, j \in Chan : Len(queue'[s][j]) <= Capacity
        /\ Head(Chans(x)[From(x)]) \in Message
    BY <1>0, <2>1, TakeType
  <2> DEFINE m == Head(Chans(x)[From(x)])
  <2>3. sock' \in [Socket -> SocketT] /\ \A y \in Socket : Len(sock'[y].hand) <= 1
    <3>1. <<m>> \in Seq(Message) /\ Len(<<m>>) = 1
      BY <2>2
    <3> HIDE DEF m
    <3>2. sock' = [sock EXCEPT ![x] = [sock[x] EXCEPT !.hand = <<m>>]]
      BY <2>1 DEF m
    <3>3. [sock[x] EXCEPT !.hand = <<m>>] \in SocketT
      BY <1>0, <3>1 DEF SocketT
    <3> QED
      BY <1>0, <3>1, <3>2, <3>3 DEF ChannelTypeOK, SocketT
  <2>4. \A y \in Socket : /\ sock'[y].cio = sock[y].cio
                          /\ sock'[y].hub = sock[y].hub
                          /\ sock[y].hub = "none" => sock'[y].hand = sock[y].hand
    <3> HIDE DEF m
    <3>1. sock' = [sock EXCEPT ![x] = [sock[x] EXCEPT !.hand = <<m>>]]
      BY <2>1 DEF m
    <3> QED
      BY <1>0, <2>1, <3>1 DEF ChannelTypeOK, SocketT
  <2> QED
    BY <1>0, <2>1, <2>2, <2>3, <2>4 DEF ChannelTypeOK, Goal
<1>4. ASSUME NEW x \in Socket, PassOn(x) PROVE Goal
  <2>1. /\ sock[x].cio # 0 /\ sock[x].hub # "none" /\ sock[x].hand # <<>> /\ Room(x, Into(x))
        /\ Put(x, Into(x), Head(sock[x].hand))
        /\ sock' = [sock EXCEPT ![x] = [sock[x] EXCEPT !.hand = Tail(sock[x].hand)]]
        /\ UNCHANGED <<broker, sent, got, lost>>
    BY <1>0, <1>4 DEF PassOn, Joined, ChannelTypeOK
  <2>2. /\ Head(sock[x].hand) \in Message /\ Tail(sock[x].hand) \in Seq(Message)
        /\ Len(Tail(sock[x].hand)) <= 1
    <3>1. sock[x].hand \in Seq(Message) /\ Len(sock[x].hand) <= 1
      BY <1>0 DEF ChannelTypeOK
    <3> QED
      BY <2>1, <3>1, HeadTail
  <2>3. /\ queue' \in [Cio -> [Chan -> Seq(Message)]]
        /\ \A s \in Cio, j \in Chan : Len(queue'[s][j]) <= Capacity
    BY <1>0, <2>1, <2>2, PutType
  <2> QED
    BY <1>0, <2>1, <2>2, <2>3 DEF ChannelTypeOK, SocketT, Goal
<1>5. ASSUME NEW x \in Socket, WriteMessage(x) PROVE Goal
  <2> DEFINE m == Head(Chans(x)[For(x)])
  <2>1. /\ sock[x].cio # 0 /\ Chans(x)[For(x)] # <<>> /\ Take(x, For(x))
        /\ UNCHANGED <<sock, sent>> /\ broker' \in {broker, "nilClient"}
        /\ got' \in {got, [got EXCEPT ![x] = Append(got[x], m)]} /\ lost' \in {lost, lost \cup {m}}
    BY <1>0, <1>5, WriteOutcomes
  <2>2. /\ queue' \in [Cio -> [Chan -> Seq(Message)]]
        /\ \A s \in Cio, j \in Chan : Len(queue'[s][j]) <= Capacity
        /\ m \in Message
    BY <1>0, <2>1, TakeType
  <2> HIDE DEF m
  <2>3. got' \in [Socket -> Seq(Message)]
    <3>1. got \in [Socket -> Seq(Message)] /\ got[x] \in Seq(Message)
      BY <1>0 DEF ChannelTypeOK
    <3>2. Append(got[x], m) \in Seq(Message)
      BY <2>2, <3>1, AppendType
    <3> QED
      BY <2>1, <3>1, <3>2
  <2>4. lost' \subseteq Message
    BY <1>0, <2>1, <2>2
  <2>5. broker' \in {"up", "nilClient", "authUnreachable", "portTaken", "mapRace"}
    BY <1>0, <2>1
  <2> QED
    BY <1>0, <2>1, <2>2, <2>3, <2>4, <2>5 DEF ChannelTypeOK, Goal
<1>6. ASSUME NEW c \in Client, ReadFails(c) PROVE Goal
  <2>0. c \in Socket
    BY SocketIs
  <2>1. /\ Room(c, From(c)) /\ Put(c, From(c), <<c, 0>>)
        /\ sent[c] < MaxRead[c] /\ sent' = [sent EXCEPT ![c] = sent[c] + 1]
        /\ sock[c].cio # 0 /\ UNCHANGED <<broker, sock, got, lost>>
    BY <2>0, <1>0, <1>6 DEF ReadFails, Joined, ChannelTypeOK, From
  <2>2. sent[c] \in Nat /\ MaxRead[c] \in Nat
    BY <2>0, ChannelBounds DEF LegacyTypeOK, ChannelTypeOK
  <2>3. <<c, 0>> \in Message
    BY <2>0, <2>1, <2>2, MessageIs
  <2>4. From(c) \in Chan
    BY <1>0, <2>0
  <2>5. /\ queue' \in [Cio -> [Chan -> Seq(Message)]]
        /\ \A s \in Cio, j \in Chan : Len(queue'[s][j]) <= Capacity
    BY <1>0, <2>0, <2>1, <2>3, <2>4, PutType
  <2>6. sent' \in [Socket -> Nat]
    BY <2>0, <2>1, <2>2 DEF LegacyTypeOK, ChannelTypeOK
  <2> QED
    BY <1>0, <2>1, <2>5, <2>6 DEF ChannelTypeOK, Goal
<1>7. ASSUME NEW c \in Client, PageLeaves(c) PROVE Goal
  <2>1. c \in Socket
    BY SocketIs
  <2> QED
    BY <2>1, <1>0, <1>7 DEF PageLeaves, ChannelTypeOK, SocketT, Goal
<1>8. Goal
  BY <1>1, <1>2, <1>3, <1>4, <1>5, <1>6, <1>7 DEF ChannelStep, HubStep
<1>9. LegacyTypeOK'
  BY <1>8 DEF LegacyTypeOK, legacyOnly, Goal
<1>10. SidInv'
  BY DEF SidInv, Named0, legacyOnly
<1>11. JoinInv'
  BY <1>8, SocketIs DEF JoinInv, PortOf, legacyOnly, Goal
<1> QED
  BY <1>9, <1>10, <1>11

-----------------------------------------------------------------------------
(***************************************************************************)
(* The control path. Each of these steps leaves the channels and the       *)
(* messages alone, except that Dies may cut a shell's socket.              *)
(***************************************************************************)
(* Joining, and what a port stands for: kept as long as browsers that have *)
(* authenticated keep their session.                                       *)
LEMMA DiesKeeps ==
    ASSUME LegacyTypeOK, SidInv, JoinInv, NEW d \in Device \cup {Unknown}, Dies(d),
           UNCHANGED <<broker, queue, sent, got, lost, registered, pending, client, nsid, source,
                       port, channel, strayed>>
    PROVE  LegacyTypeOK' /\ SidInv' /\ JoinInv'
<1>1. SidInv'
  BY DEF SidInv, Named0
<1>2. /\ sock \in [Socket -> SocketT] /\ dial \in [Shell -> [dev : Named, port : Sid0]]
      /\ agent \in [Device -> {"off", "up", "gone"}]
  BY DEF LegacyTypeOK, ChannelTypeOK
<1>3. /\ sock' \in [Socket -> SocketT]
      /\ \A x \in Socket : /\ sock'[x].hand = sock[x].hand /\ sock'[x].cio = sock[x].cio
                           /\ sock'[x].hub = sock[x].hub
  BY <1>2 DEF Dies, SocketT
<1>4. /\ dial' \in [Shell -> [dev : Named, port : Sid0]]
      /\ \A h \in Shell : dial'[h] = dial[h] \/ (dial'[h].port = 0 /\ sock[h].hub = "none")
  BY <1>2 DEF Dies, Sid0
<1>5. agent' \in [Device -> {"off", "up", "gone"}]
  BY <1>2 DEF Dies
<1>6. LegacyTypeOK'
  BY <1>3, <1>4, <1>5 DEF LegacyTypeOK, ChannelTypeOK
<1>7. JoinInv'
  BY <1>3, <1>4, SocketIs DEF JoinInv, PortOf
<1> QED
  BY <1>1, <1>6, <1>7

(* A socket that has no hub yet joins the channelIO of a session.          *)
LEMMA JoinKeeps ==
    ASSUME LegacyTypeOK, NEW x \in Socket, NEW s \in Sid, Join(x, s)
    PROVE  /\ sock' \in [Socket -> SocketT]
           /\ \A y \in Socket : y # x => sock'[y] = sock[y]
           /\ sock'[x].cio = s /\ sock'[x].hub = "new" /\ sock'[x].hand = <<>>
           /\ \A y \in Socket : Len(sock'[y].hand) <= 1
<1> DEFINE r == [cio |-> s, hub |-> "new", up |-> TRUE, hand |-> <<>>]
<1>1. s \in Cio /\ <<>> \in Seq(Message)
  BY SidIs
<1>2. r \in SocketT /\ r.cio = s /\ r.hub = "new" /\ r.hand = <<>>
  BY <1>1, ChannelBounds DEF SocketT, Hub, Cio
<1>3. sock' = [sock EXCEPT ![x] = r]
  BY DEF Join
<1>4. sock \in [Socket -> SocketT] /\ \A y \in Socket : Len(sock[y].hand) <= 1
  BY DEF LegacyTypeOK, ChannelTypeOK
<1> HIDE DEF r
<1> QED
  BY <1>2, <1>3, <1>4

(* A browser goes on; its session stays what it is.                        *)
LEMMA ClientKeepsJoin ==
    ASSUME LegacyTypeOK, JoinInv, UNCHANGED <<sock, dial, strayed>>,
           \A e \in Client : client[e].at = "acked" => client'[e] = client[e],
           \A e \in Client : client[e].sid # 0 => client'[e].sid = client[e].sid,
           \A d \in Device : port'[d] = port[d] \/ PortOf(port[d], d)'
    PROVE  JoinInv'
<1> DEFINE Still(s, d) == \E c \in Client : client'[c] = [at |-> "acked", sid |-> s] /\ Wants[c] = d
<1>1. \A s, d : PortOf(s, d) => Still(s, d)
  BY DEF PortOf
<1>2. \A d \in Device : port'[d] # 0 => Still(port'[d], d)
  <2> SUFFICES ASSUME NEW d \in Device, port'[d] # 0 PROVE Still(port'[d], d)
    OBVIOUS
  <2>1. CASE port'[d] = port[d]
    BY <1>1, <2>1 DEF JoinInv
  <2>2. CASE PortOf(port[d], d)'
    BY <2>2 DEF PortOf
  <2> QED
    BY <2>1, <2>2
<1>3. \A h \in Shell : dial'[h].port # 0 => Still(dial'[h].port, dial'[h].dev)
  BY <1>1 DEF JoinInv
<1>4. \A c \in Client :
         sock[c].hub # "none" =>
           sock[c].cio # 0 /\ (c \in strayed \/ sock[c].cio = client'[c].sid)
  BY DEF JoinInv
<1> QED
  BY <1>2, <1>3, <1>4 DEF JoinInv, PortOf

LEMMA ControlSteps ==
    ASSUME LegacyTypeOK, SidInv, JoinInv, LegacyNext, ~(ChannelStep /\ UNCHANGED legacyOnly)
    PROVE  LegacyTypeOK' /\ SidInv' /\ JoinInv'
<1> DEFINE Goal == LegacyTypeOK' /\ SidInv' /\ JoinInv'
<1> USE DEF channelVars
<1>0. ASSUME UNCHANGED channelVars, UNCHANGED <<client, nsid, source, channel>>
      PROVE  ChannelTypeOK' /\ SidInv'
  BY <1>0 DEF LegacyTypeOK, ChannelTypeOK, SidInv, Named0
<1> HIDE DEF Goal
<1>1. ASSUME NEW d \in Device, Register(d) \/ HandleRegistration(d) PROVE Goal
  <2>1. UNCHANGED channelVars /\ UNCHANGED <<client, nsid, source, channel, port, dial, strayed>>
    BY <1>1 DEF Register, HandleRegistration
  <2>2. LegacyTypeOK'
    BY <1>0, <1>1, <2>1 DEF LegacyTypeOK, Register, HandleRegistration
  <2>3. JoinInv'
    BY <2>1 DEF JoinInv, PortOf
  <2> QED
    BY <1>0, <2>1, <2>2, <2>3 DEF Goal
<1>2. ASSUME NEW why \in {"authUnreachable", "portTaken", "mapRace"}, Ends(why) PROVE Goal
  BY <1>2, EndsAll DEF Goal
<1>3. ASSUME NEW d \in Device, AuthUnreachable(d) PROVE Goal
  BY <1>2, <1>3 DEF AuthUnreachable
<1>4. ASSUME NEW d \in Device, AgentDies(d) PROVE Goal
  BY <1>4, DiesKeeps DEF AgentDies, Goal
<1>5. ASSUME NEW d \in Device, BeaconUnanswered(d) PROVE Goal
  BY <1>2, <1>5, DiesKeeps DEF BeaconUnanswered, Goal
<1>6. ASSUME NEW d \in Device, NEW h \in Shell, Beacon(d, h) PROVE Goal
  <2>1. UNCHANGED channelVars
        /\ UNCHANGED <<agent, registered, pending, client, nsid, source, channel, port, strayed>>
        /\ port[d] # 0 /\ dial[h].dev = Unknown
        /\ dial' = [dial EXCEPT ![h] = [dev |-> d, port |-> port[d]]]
    BY <1>6 DEF Beacon
  <2>2. /\ dial \in [Shell -> [dev : Named, port : Sid0]] /\ port[d] \in Sid0
        /\ d \in Named /\ d # Unknown
    BY WantsDevice DEF LegacyTypeOK, Named
  <2>3. dial' \in [Shell -> [dev : Named, port : Sid0]]
    BY <2>1, <2>2
  <2>4. LegacyTypeOK'
    BY <1>0, <2>1, <2>3 DEF LegacyTypeOK
  <2>5. PortOf(port[d], d)
    BY <2>1 DEF JoinInv
  <2>6. sock[h].hub = "none"
    <3>1. dial[h].port # 0 => PortOf(dial[h].port, dial[h].dev)
      BY DEF JoinInv
    <3>2. dial[h].port = 0
      BY <2>1, <3>1, WantsDevice DEF PortOf
    <3> QED
      BY <3>2 DEF JoinInv
  <2>7. JoinInv'
    BY <2>1, <2>2, <2>5, <2>6 DEF JoinInv, PortOf
  <2> QED
    BY <1>0, <2>1, <2>4, <2>7 DEF Goal
<1>7. ASSUME NEW h \in Shell, DialChannel(h) PROVE Goal
  <2>1. /\ dial[h].port # 0 /\ sock[h].hub = "none" /\ dial[h].port \in Sid
        /\ UNCHANGED <<broker, queue, sent, got, lost, registered, pending, client, nsid, source,
                       port, channel, strayed>>
        /\ dial[h].dev \in Device \cup {Unknown} /\ h \in Socket
    BY <1>7, SocketIs DEF DialChannel, LegacyTypeOK, Sid0, Named
  <2>2. CASE Dies(dial[h].dev)
    BY <2>1, <2>2, DiesKeeps DEF Goal
  <2>3. CASE Join(h, dial[h].port) /\ UNCHANGED <<agent, dial>>
    <3>1. /\ sock' \in [Socket -> SocketT]
          /\ \A y \in Socket : y # h => sock'[y] = sock[y]
          /\ sock'[h].cio = dial[h].port /\ sock'[h].hub = "new" /\ sock'[h].hand = <<>>
          /\ \A y \in Socket : Len(sock'[y].hand) <= 1
      BY <2>1, <2>3, JoinKeeps
    <3>2. LegacyTypeOK'
      BY <2>1, <2>3, <3>1 DEF LegacyTypeOK, ChannelTypeOK
    <3>3. SidInv'
      BY <2>1 DEF SidInv, Named0
    <3>4. h \notin Client
      BY SocketKinds
    <3>5. JoinInv'
      BY <2>1, <2>3, <3>1, <3>4, SocketIs DEF JoinInv, PortOf
    <3> QED
      BY <3>2, <3>3, <3>5 DEF Goal
  <2> QED
    BY <1>7, <2>2, <2>3 DEF DialChannel
<1>8. ASSUME NEW c \in Client, OpenPage(c) PROVE Goal
  <2>1. /\ client[c].at = "acked" /\ sock[c].hub = "none" /\ Join(c, source) /\ c \in Socket
        /\ strayed' = IF source = client[c].sid THEN strayed ELSE strayed \cup {c}
        /\ UNCHANGED <<broker, queue, sent, got, lost, agent, registered, pending, client, nsid,
                       source, port, channel, dial>>
    BY <1>8, SocketIs DEF OpenPage
  <2>2. source \in Sid
    BY <2>1 DEF SidInv, LegacyTypeOK, Sid0
  <2>3. /\ sock' \in [Socket -> SocketT]
        /\ \A y \in Socket : y # c => sock'[y] = sock[y]
        /\ sock'[c].cio = source /\ sock'[c].hub = "new" /\ sock'[c].hand = <<>>
        /\ \A y \in Socket : Len(sock'[y].hand) <= 1
    BY <2>1, <2>2, JoinKeeps
  <2>4. LegacyTypeOK'
    <3>1. strayed' \subseteq Client
      BY <2>1 DEF LegacyTypeOK
    <3> QED
      BY <2>1, <2>3, <3>1 DEF LegacyTypeOK, ChannelTypeOK
  <2>5. SidInv'
    BY <2>1 DEF SidInv, Named0
  <2>6. c \notin Shell /\ source # 0
    BY SocketKinds, <2>2, SidIs
  <2>7. \A e \in Client : e # c => (e \in strayed' <=> e \in strayed)
    BY <2>1
  <2>8. c \in strayed' \/ source = client[c].sid
    BY <2>1
  <2>9. JoinInv'
    BY <2>1, <2>3, <2>6, <2>7, <2>8, SocketIs DEF JoinInv, PortOf
  <2> QED
    BY <2>4, <2>5, <2>9 DEF Goal
<1>9. ASSUME NEW c \in Client, NEW t \in {"queued", "refused"},
             client[c].at \in {"away", "queued"}, Advance(c, t), UNCHANGED channelVars,
             UNCHANGED <<agent, registered, pending, nsid, source, port, channel, dial, strayed>>
      PROVE  Goal
  <2>1. client \in [Client -> [at : Stage, sid : Sid0]] /\ client[c].sid = 0
    BY <1>9 DEF LegacyTypeOK, SidInv
  <2>2. /\ client'[c].at = t /\ client'[c].sid = 0
        /\ \A e \in Client : e # c => client'[e] = client[e]
        /\ client' \in [Client -> [at : Stage, sid : Sid0]]
    BY <1>9, <2>1 DEF Advance, Stage
  <2>3. ChannelTypeOK'
    BY <1>9 DEF LegacyTypeOK, ChannelTypeOK
  <2>4. LegacyTypeOK'
    BY <1>9, <2>2, <2>3 DEF LegacyTypeOK
  <2>5. Named0' = Named0
    BY <2>1, <2>2 DEF Named0
  <2>6. SidInv'
    BY <1>9, <2>1, <2>2, <2>5 DEF SidInv
  <2>7. JoinInv'
    BY <1>9, <2>1, <2>2, ClientKeepsJoin
  <2> QED
    BY <2>4, <2>6, <2>7 DEF Goal
<1>10. ASSUME NEW c \in Client, OpenControl(c) PROVE Goal
  BY <1>9, <1>10 DEF OpenControl
<1>11. ASSUME NEW c \in Client, HandleSession(c) PROVE Goal
  <2>1. CASE Advance(c, "refused") /\ UNCHANGED nsid
    BY <1>9, <1>11, <2>1 DEF HandleSession
  <2>2. CASE nsid' = nsid + 1 /\ client' = [client EXCEPT ![c].at = "asking", ![c].sid = nsid']
    <3>1. /\ client \in [Client -> [at : Stage, sid : Sid0]] /\ client[c].sid = 0 /\ nsid \in Sid0
          /\ \A e \in Client : client[e].sid <= nsid /\ client[e].sid \in Nat
          /\ nsid = Cardinality(Named0)
          /\ UNCHANGED channelVars
          /\ UNCHANGED <<agent, registered, pending, source, port, channel, dial, strayed>>
      BY <1>11, SidIs DEF LegacyTypeOK, SidInv, HandleSession, Sid0
    <3>2. nsid \in Nat /\ nsid + 1 # 0 /\ nsid' = nsid + 1
      BY <2>2, <3>1, SidIs DEF Sid0
    <3>3. /\ client'[c].at = "asking" /\ client'[c].sid = nsid + 1
          /\ \A e \in Client : e # c => client'[e] = client[e]
      BY <2>2, <3>1
    <3>4. /\ Named0' = Named0 \cup {c} /\ c \notin Named0
          /\ Named0 \subseteq Client /\ Named0' \subseteq Client
      BY <3>1, <3>2, <3>3 DEF Named0
    <3>5. Cardinality(Named0') = Cardinality(Named0) + 1 /\ Cardinality(Named0') <= Cardinality(Client)
      <4>1. IsFiniteSet(Named0)
        BY <3>4, SessionBound, FS_Subset
      <4>2. Cardinality(Named0 \cup {c}) = Cardinality(Named0) + 1
        BY <3>4, <4>1, FS_AddElement
      <4>3. Cardinality(Named0') <= Cardinality(Client)
        BY <3>4, SessionBound, FS_Subset
      <4> QED
        BY <3>4, <4>2, <4>3
    <3>6. nsid' \in Sid /\ nsid' = Cardinality(Named0')
      BY <3>1, <3>2, <3>5, SidIs
    <3>7. client' \in [Client -> [at : Stage, sid : Sid0]]
      <4>1. [client[c] EXCEPT !.at = "asking", !.sid = nsid'] \in [at : Stage, sid : Sid0]
        BY <3>1, <3>6 DEF Stage, Sid0
      <4>2. client' = [client EXCEPT ![c] = [client[c] EXCEPT !.at = "asking", !.sid = nsid']]
        BY <2>2, <3>1
      <4> QED
        BY <3>1, <4>1, <4>2
    <3>8. ChannelTypeOK'
      BY <3>1 DEF LegacyTypeOK, ChannelTypeOK
    <3>9. LegacyTypeOK'
      BY <3>1, <3>6, <3>7, <3>8 DEF LegacyTypeOK, Sid0
    <3>10. SidInv'
      <4>1. \A e \in Client :
              /\ client'[e].sid = 0 <=> client'[e].at \in {"away", "queued", "refused"}
              /\ client'[e].sid <= nsid'
              /\ client'[e].at = "acked" => source' # 0
        BY <3>1, <3>2, <3>3 DEF SidInv
      <4>2. \A e, f \in Client : client'[e].sid # 0 /\ client'[e].sid = client'[f].sid => e = f
        <5>1. \A e \in Client : e # c => client'[e].sid # nsid + 1
          BY <3>1, <3>2, <3>3
        <5> QED
          BY <3>3, <5>1 DEF SidInv
      <4>3. \A s \in Sid : channel'[s] # "none" =>
              \E e \in Client : client'[e] = [at |-> "acked", sid |-> s]
        <5> SUFFICES ASSUME NEW s \in Sid, channel[s] # "none"
                     PROVE  \E e \in Client : client'[e] = [at |-> "acked", sid |-> s]
          BY <3>1
        <5>1. PICK e \in Client : client[e] = [at |-> "acked", sid |-> s]
          BY DEF SidInv
        <5>2. e # c
          BY <1>11, <5>1 DEF HandleSession
        <5> QED
          BY <3>3, <5>1, <5>2
      <4> QED
        BY <3>6, <4>1, <4>2, <4>3 DEF SidInv
    <3>11. JoinInv'
      <4>1. client[c].at # "acked"
        BY <1>11 DEF HandleSession
      <4> QED
        BY <3>1, <3>3, <4>1, ClientKeepsJoin
    <3> QED
      BY <3>9, <3>10, <3>11 DEF Goal
  <2> QED
    BY <1>11, <2>1, <2>2 DEF HandleSession
<1>12. ASSUME NEW c \in Client, HandleAuth(c) PROVE Goal
  <2> DEFINE s == client[c].sid
  <2>1. CASE channel[s] # "none"
    BY <1>2, <1>12, <2>1 DEF HandleAuth
  <2>2. CASE channel[s] = "none"
    <3>1. /\ client \in [Client -> [at : Stage, sid : Sid0]] /\ client[c].at = "asking"
          /\ s \in Sid /\ s # 0
          /\ client' = [client EXCEPT ![c] = [client[c] EXCEPT !.at = "acked"]]
          /\ source' = s /\ port' = [port EXCEPT ![Wants[c]] = s]
          /\ channel' = [channel EXCEPT ![s] = "starting"]
          /\ UNCHANGED channelVars
          /\ UNCHANGED <<agent, registered, pending, nsid, dial, strayed>>
      BY <1>12, <2>2 DEF HandleAuth, Advance, LegacyTypeOK, SidInv, Sid0
    <3>2. /\ client'[c] = [at |-> "acked", sid |-> s] /\ client'[c].sid = s
          /\ \A e \in Client : e # c => client'[e] = client[e]
          /\ client' \in [Client -> [at : Stage, sid : Sid0]]
      BY <3>1 DEF Stage
    <3> HIDE DEF s
    <3>3. ChannelTypeOK'
      BY <3>1 DEF LegacyTypeOK, ChannelTypeOK
    <3>4. LegacyTypeOK'
      <4>1. Wants[c] \in Device
        BY WantsDevice
      <4> QED
        BY <3>1, <3>2, <3>3, <4>1 DEF LegacyTypeOK, Sid0
    <3>5. Named0' = Named0 /\ client[c].sid = s
      BY <3>1, <3>2 DEF Named0, s
    <3>6. SidInv'
      <4>1. \A e \in Client :
              /\ client'[e].sid = 0 <=> client'[e].at \in {"away", "queued", "refused"}
              /\ client'[e].sid = client[e].sid
              /\ client'[e].at = "acked" => source' # 0
        BY <3>1, <3>2, <3>5 DEF SidInv
      <4>2. \A k \in Sid : channel'[k] # "none" =>
              \E e \in Client : client'[e] = [at |-> "acked", sid |-> k]
        <5> SUFFICES ASSUME NEW k \in Sid, channel'[k] # "none"
                     PROVE  \E e \in Client : client'[e] = [at |-> "acked", sid |-> k]
          OBVIOUS
        <5>1. CASE k = s
          BY <3>2, <5>1
        <5>2. CASE k # s
          <6>1. channel'[k] = channel[k]
            BY <3>1, <5>2 DEF LegacyTypeOK
          <6>2. PICK e \in Client : client[e] = [at |-> "acked", sid |-> k]
            BY <6>1 DEF SidInv
          <6>3. e # c
            BY <3>1, <6>2
          <6> QED
            BY <3>2, <6>2, <6>3
        <5> QED
          BY <5>1, <5>2
      <4> QED
        BY <3>1, <3>5, <4>1, <4>2 DEF SidInv
    <3>7. JoinInv'
      <4>2. \A d \in Device : port'[d] = port[d] \/ PortOf(port[d], d)'
        BY <3>1, <3>2 DEF LegacyTypeOK, PortOf
      <4> QED
        BY <3>1, <3>2, <3>5, <4>2, ClientKeepsJoin
    <3> QED
      BY <3>4, <3>6, <3>7 DEF Goal
  <2> QED
    BY <2>1, <2>2
<1>13. ASSUME NEW s \in Sid, Listen(s) PROVE Goal
  <2>1. /\ channel[s] = "starting" /\ channel' = [channel EXCEPT ![s] = "serving"]
        /\ UNCHANGED channelVars
        /\ UNCHANGED <<agent, registered, pending, client, nsid, source, port, dial, strayed>>
    BY <1>13 DEF Listen
  <2>2. LegacyTypeOK'
    BY <2>1 DEF LegacyTypeOK, ChannelTypeOK
  <2>3. SidInv'
    BY <2>1 DEF SidInv, Named0, LegacyTypeOK
  <2>4. JoinInv'
    BY <2>1 DEF JoinInv, PortOf
  <2> QED
    BY <2>2, <2>3, <2>4 DEF Goal
<1>14. ASSUME MapRace PROVE Goal
  BY <1>2, <1>14 DEF MapRace
<1> QED
  BY <1>1, <1>3, <1>4, <1>5, <1>6, <1>7, <1>8, <1>10, <1>11, <1>12, <1>13, <1>14
     DEF LegacyNext, Goal

(* A step keeps types, sessions and joins.                                 *)
LEMMA KeepsSessions ==
    ASSUME LegacyTypeOK, SidInv, JoinInv, [LegacyNext]_legacyVars
    PROVE  LegacyTypeOK' /\ SidInv' /\ JoinInv'
<1>1. CASE UNCHANGED legacyVars
  BY <1>1 DEF legacyVars, legacyOnly, channelVars, LegacyTypeOK, ChannelTypeOK, SidInv, Named0,
     JoinInv, PortOf
<1> QED
  BY <1>1, ChannelSteps, ControlSteps

(* A browser that asks is the first to ask in its session, so the port it  *)
(* gets is free.                                                           *)
LEMMA PortIsFree ==
    ASSUME LegacyTypeOK, SidInv, NEW c \in Client, client[c].at = "asking"
    PROVE  channel[client[c].sid] = "none"
<1>1. client[c].sid \in Sid
  BY DEF SidInv, LegacyTypeOK, Sid0
<1> SUFFICES ASSUME channel[client[c].sid] # "none" PROVE FALSE
  OBVIOUS
<1>2. PICK e \in Client : client[e] = [at |-> "acked", sid |-> client[c].sid]
  BY <1>1 DEF SidInv
<1>3. e = c
  BY <1>1, <1>2, SidIs DEF SidInv
<1> QED
  BY <1>2, <1>3

LEMMA KeepsPorts ==
    ASSUME LegacyTypeOK, SidInv, PortsAreApart, [LegacyNext]_legacyVars
    PROVE  PortsAreApart'
<1> USE DEF PortsAreApart, channelVars
<1>1. CASE UNCHANGED legacyVars
  BY <1>1 DEF legacyVars
<1>2. CASE ChannelStep
  <2>1. ASSUME NEW x \in Socket, WriteMessage(x) PROVE PortsAreApart'
    BY <2>1, WriteOutcomes DEF LegacyTypeOK
  <2> QED
    BY <1>2, <2>1 DEF ChannelStep, HubStep, NewConnection, ReadMessage, ReadFails, Forward,
       PassOn, PageLeaves
<1>3. ASSUME NEW d \in Device, Register(d) \/ AgentDies(d) \/ BeaconUnanswered(d)
        \/ HandleRegistration(d) \/ AuthUnreachable(d)
      PROVE  PortsAreApart'
  BY <1>3 DEF Register, AgentDies, BeaconUnanswered, HandleRegistration, AuthUnreachable, Ends
<1>4. ASSUME NEW d \in Device, NEW h \in Shell, Beacon(d, h) \/ DialChannel(h)
      PROVE  PortsAreApart'
  BY <1>4 DEF Beacon, DialChannel
<1>5. ASSUME NEW h \in Shell, DialChannel(h) PROVE PortsAreApart'
  BY <1>5 DEF DialChannel
<1>6. ASSUME NEW c \in Client, OpenControl(c) \/ HandleSession(c) \/ OpenPage(c)
      PROVE  PortsAreApart'
  BY <1>6 DEF OpenControl, HandleSession, OpenPage
<1>7. ASSUME NEW c \in Client, HandleAuth(c) PROVE PortsAreApart'
  BY <1>7, PortIsFree DEF HandleAuth
<1>8. ASSUME NEW s \in Sid, Listen(s) PROVE PortsAreApart'
  BY <1>8 DEF Listen
<1>9. CASE MapRace
  BY <1>9 DEF MapRace, Ends
<1> QED
  BY <1>1, <1>2, <1>3, <1>4, <1>5, <1>6, <1>7, <1>8, <1>9 DEF LegacyNext

-----------------------------------------------------------------------------
(***************************************************************************)
(* Messages. A message is in one place: a channel, a hub's hand or what a  *)
(* socket was sent. It moves from rank 3, the channel its handler fills,   *)
(* over a hub's hand and the channel to the other side to rank 0, its      *)
(* receiver, and always from the head of one place to the end of the next. *)
(***************************************************************************)
Place ==
    ({"queue"} \X Cio \X Chan) \cup {<<"hand", x, x>> : x \in Socket}
      \cup {<<"got", x, x>> : x \in Socket}

At(p) ==
    CASE p[1] = "queue" -> queue[p[2]][p[3]]
      [] p[1] = "hand" -> sock[p[2]].hand
      [] p[1] = "got" -> got[p[2]]

Rank(p) ==
    CASE p[1] = "queue" /\ p[3] \in {"cout", "outgoing"} -> 3
      [] p[1] = "hand" -> 2
      [] p[1] = "queue" /\ p[3] \in {"incoming", "cin"} -> 1
      [] p[1] = "got" -> 0

(* A message keeps to the channelIO its sender has joined, and to its      *)
(* direction.                                                              *)
Fits(p, m) ==
    LET y == m[1] IN
    /\ m[2] <= sent[y] /\ sock[y].hub # "none" /\ sock[y].cio # 0
    /\ p[1] = "queue" =>
         p[2] = sock[y].cio /\ (y \in Client <=> p[3] \in {"cout", "incoming"})
    /\ p[1] = "hand" => sock[p[2]].cio = sock[y].cio /\ (y \in Client <=> p[2] \in Client)
    /\ p[1] = "got" =>
         sock[p[2]].cio = sock[y].cio /\ (y \in Client <=> p[2] \notin Client) /\ m[2] > 0

WhereInv == \A p \in Place : \A i \in 1..Len(At(p)) : Fits(p, At(p)[i])

(* No message is in two places, or twice in one.                           *)
OnceInv ==
    \A p, q \in Place : \A i \in 1..Len(At(p)), j \in 1..Len(At(q)) :
        At(p)[i] = At(q)[j] /\ At(p)[i][2] > 0 => p = q /\ i = j

(* Of a sender that shares its channelIO with no other of its kind, the    *)
(* numbers rise from place to place.                                       *)
Sole(y) == Fellows(y) = {y}
OrderInv ==
    \A p, q \in Place : \A i \in 1..Len(At(p)), j \in 1..Len(At(q)) :
        /\ At(p)[i][1] = At(q)[j][1] /\ Sole(At(p)[i][1])
        /\ At(p)[i][2] > 0 /\ At(q)[j][2] > 0
        /\ Rank(p) < Rank(q) \/ (p = q /\ i < j)
        => At(p)[i][2] < At(q)[j][2]

MessageInv == WhereInv /\ OnceInv /\ OrderInv

-----------------------------------------------------------------------------
(* A step moves a message, takes one away, brings a new one, or leaves all *)
(* where they are.                                                         *)
Rest(P) == \A r \in Place \ P : At(r)' = At(r)
Moves(p, q) ==
    /\ p # q /\ At(p) # <<>> /\ Rest({p, q})
    /\ At(p)' = Tail(At(p)) /\ At(q)' = Append(At(q), Head(At(p)))
Drops(p) == At(p) # <<>> /\ At(p)' = Tail(At(p)) /\ Rest({p})
Arrives(p, m) == At(p)' = Append(At(p), m) /\ Rest({p})

(* A socket that has joined a channelIO stays.                             *)
Stays ==
    \A x \in Socket :
        /\ sock[x].hub # "none" => sock'[x].hub # "none" /\ sock'[x].cio = sock[x].cio
        /\ sent[x] <= sent'[x]

LEMMA PlaceIs ==
    /\ \A s \in Cio, k \in Chan : <<"queue", s, k>> \in Place /\ At(<<"queue", s, k>>) = queue[s][k]
    /\ \A x \in Socket : <<"hand", x, x>> \in Place /\ At(<<"hand", x, x>>) = sock[x].hand
    /\ \A x \in Socket : <<"got", x, x>> \in Place /\ At(<<"got", x, x>>) = got[x]
    /\ \A p \in Place :
         \/ \E s \in Cio, k \in Chan : p = <<"queue", s, k>>
         \/ \E x \in Socket : p = <<"hand", x, x>>
         \/ \E x \in Socket : p = <<"got", x, x>>
<1>1. \A s \in Cio, k \in Chan : <<"queue", s, k>> \in Place /\ At(<<"queue", s, k>>) = queue[s][k]
  BY DEF Place, At
<1>2. \A x \in Socket : <<"hand", x, x>> \in Place /\ At(<<"hand", x, x>>) = sock[x].hand
  BY DEF Place, At
<1>3. \A x \in Socket : <<"got", x, x>> \in Place /\ At(<<"got", x, x>>) = got[x]
  BY DEF Place, At
<1>4. \A p \in Place :
         \/ \E s \in Cio, k \in Chan : p = <<"queue", s, k>>
         \/ \E x \in Socket : p = <<"hand", x, x>>
         \/ \E x \in Socket : p = <<"got", x, x>>
  BY DEF Place
<1> QED
  BY <1>1, <1>2, <1>3, <1>4

LEMMA AtIs ==
    ASSUME LegacyTypeOK, NEW p \in Place
    PROVE  /\ At(p) \in Seq(Message) /\ Len(At(p)) \in Nat
           /\ \A i \in 1..Len(At(p)) : /\ At(p)[i] \in Message /\ At(p)[i][1] \in Socket
                                       /\ At(p)[i][2] \in Nat
<1>1. At(p) \in Seq(Message)
  <2>0. /\ queue \in [Cio -> [Chan -> Seq(Message)]] /\ got \in [Socket -> Seq(Message)]
        /\ \A x \in Socket : sock[x].hand \in Seq(Message)
    BY DEF LegacyTypeOK, ChannelTypeOK, SocketT
  <2>1. CASE \E s \in Cio, k \in Chan : p = <<"queue", s, k>>
    BY <2>0, <2>1, PlaceIs
  <2>2. CASE \E x \in Socket : p = <<"hand", x, x>>
    BY <2>0, <2>2, PlaceIs
  <2>3. CASE \E x \in Socket : p = <<"got", x, x>>
    BY <2>0, <2>3, PlaceIs
  <2> QED
    BY <2>1, <2>2, <2>3, PlaceIs
<1>2. \A i \in 1..Len(At(p)) : At(p)[i] \in Message
  BY <1>1
<1> QED
  BY <1>1, <1>2, MessageIs

LEMMA RankIs == \A p \in Place : Rank(p) \in 0..3
<1>1. \A s \in Cio, k \in Chan : Rank(<<"queue", s, k>>) \in 0..3
  BY DEF Rank, Chan
<1>2. \A x \in Socket : Rank(<<"hand", x, x>>) \in 0..3 /\ Rank(<<"got", x, x>>) \in 0..3
  BY DEF Rank
<1> QED
  BY <1>1, <1>2, PlaceIs

(* What a place that changed holds was there before.                       *)
LEMMA OnceThere ==
    ASSUME NEW S, NEW q \in Seq(S)
    PROVE  /\ q # <<>> => /\ Tail(q) \in Seq(S) /\ Len(Tail(q)) = Len(q) - 1 /\ Len(q) >= 1
                          /\ \A i \in 1..Len(Tail(q)) : i + 1 \in 1..Len(q) /\ Tail(q)[i] = q[i + 1]
                          /\ Head(q) = q[1] /\ Head(q) \in S
           /\ \A e \in S : /\ Append(q, e) \in Seq(S) /\ Len(Append(q, e)) = Len(q) + 1
                           /\ \A i \in 1..Len(q) : Append(q, e)[i] = q[i]
                           /\ Append(q, e)[Len(q) + 1] = e
           /\ Len(q) \in Nat
OBVIOUS

(* While a joined sender is alone of its kind, it always was.              *)
LEMMA SoleBefore ==
    ASSUME Stays, JoinInv, NEW y \in Socket, sock[y].cio # 0, sock[y].hub # "none", Sole(y)'
    PROVE  Sole(y)
<1>1. \A x \in Fellows(y) : x \in Socket /\ sock[x].hub # "none" /\ sock'[x].cio = sock'[y].cio
  BY DEF Stays, JoinInv, Fellows
<1>2. \A x \in Fellows(y) : x \in Fellows(y)'
  BY <1>1 DEF Fellows
<1> QED
  BY <1>2 DEF Sole, Fellows

-----------------------------------------------------------------------------
(* Where each message of a place that changed was before.                  *)
LEMMA Origin ==
    ASSUME LegacyTypeOK, NEW p \in Place, NEW q \in Place, Moves(p, q),
           NEW r \in Place, NEW i \in 1..Len(At(r)')
    PROVE  \/ r = p /\ i + 1 \in 1..Len(At(p)) /\ At(r)'[i] = At(p)[i + 1]
           \/ r = q /\ i = Len(At(q)) + 1 /\ 1 \in 1..Len(At(p)) /\ At(r)'[i] = At(p)[1]
           \/ r # p /\ i \in 1..Len(At(r)) /\ At(r)'[i] = At(r)[i]
<1>1. /\ At(p) \in Seq(Message) /\ At(q) \in Seq(Message) /\ At(r) \in Seq(Message)
      /\ At(p) # <<>> /\ p # q /\ At(p)' = Tail(At(p)) /\ At(q)' = Append(At(q), Head(At(p)))
  BY AtIs DEF Moves
<1> DEFINE a == At(p)
           b == At(q)
           c == At(r)
<1>2. CASE r = p
  <2>1. i \in 1..Len(Tail(a))
    BY <1>1, <1>2
  <2> HIDE DEF a
  <2>2. i + 1 \in 1..Len(a) /\ Tail(a)[i] = a[i + 1]
    BY <1>1, <2>1, OnceThere DEF a
  <2> QED
    BY <1>1, <1>2, <2>2 DEF a
<1>3. CASE r = q
  <2>1. i \in 1..Len(Append(b, Head(a)))
    BY <1>1, <1>3
  <2> HIDE DEF a, b
  <2>2. /\ a \in Seq(Message) /\ b \in Seq(Message) /\ a # <<>> /\ Head(a) \in Message
        /\ 1 \in 1..Len(a) /\ Head(a) = a[1]
    BY <1>1, OnceThere DEF a, b
  <2>3. \/ i = Len(b) + 1 /\ Append(b, Head(a))[i] = a[1]
        \/ i \in 1..Len(b) /\ Append(b, Head(a))[i] = b[i]
    BY <2>1, <2>2, OnceThere
  <2> QED
    BY <1>1, <1>3, <2>2, <2>3 DEF a, b
<1>4. CASE r # p /\ r # q
  <2>1. At(r)' = At(r)
    BY <1>4 DEF Moves, Rest
  <2> QED
    BY <1>4, <2>1
<1> QED
  BY <1>2, <1>3, <1>4

LEMMA DropOrigin ==
    ASSUME LegacyTypeOK, NEW p \in Place, Drops(p), NEW r \in Place, NEW i \in 1..Len(At(r)')
    PROVE  \/ r = p /\ i + 1 \in 1..Len(At(p)) /\ At(r)'[i] = At(p)[i + 1]
           \/ r # p /\ i \in 1..Len(At(r)) /\ At(r)'[i] = At(r)[i]
<1>1. At(p) \in Seq(Message) /\ At(p) # <<>> /\ At(p)' = Tail(At(p))
  BY AtIs DEF Drops
<1>2. CASE r = p
  <2> DEFINE a == At(p)
  <2>1. i \in 1..Len(Tail(a))
    BY <1>1, <1>2
  <2> HIDE DEF a
  <2>2. i + 1 \in 1..Len(a) /\ Tail(a)[i] = a[i + 1]
    BY <1>1, <2>1, OnceThere DEF a
  <2> QED
    BY <1>1, <1>2, <2>2 DEF a
<1>3. CASE r # p
  BY <1>3 DEF Drops, Rest
<1> QED
  BY <1>2, <1>3

LEMMA ArriveOrigin ==
    ASSUME LegacyTypeOK, NEW p \in Place, NEW m \in Message, Arrives(p, m),
           NEW r \in Place, NEW i \in 1..Len(At(r)')
    PROVE  \/ r = p /\ i = Len(At(p)) + 1 /\ At(r)'[i] = m
           \/ i \in 1..Len(At(r)) /\ At(r)'[i] = At(r)[i]
<1>1. At(p) \in Seq(Message) /\ At(p)' = Append(At(p), m)
  BY AtIs DEF Arrives
<1>2. CASE r = p
  <2> DEFINE a == At(p)
  <2>1. i \in 1..Len(Append(a, m))
    BY <1>1, <1>2
  <2> HIDE DEF a
  <2>2. \/ i = Len(a) + 1 /\ Append(a, m)[i] = m
        \/ i \in 1..Len(a) /\ Append(a, m)[i] = a[i]
    BY <1>1, <2>1, OnceThere DEF a
  <2> QED
    BY <1>1, <1>2, <2>2 DEF a
<1>3. CASE r # p
  BY <1>3 DEF Arrives, Rest
<1> QED
  BY <1>2, <1>3

(* What fits a place goes on to fit it.                                    *)
LEMMA FitsStays ==
    ASSUME LegacyTypeOK, LegacyTypeOK', JoinInv, Stays, NEW p \in Place, NEW m \in Message, Fits(p, m)
    PROVE  Fits(p, m)'
<1>1. /\ m[1] \in Socket /\ m[2] \in Nat /\ m[2] <= sent[m[1]]
      /\ sock[m[1]].hub # "none" /\ sock[m[1]].cio # 0
  BY MessageIs DEF Fits
<1>2. sent[m[1]] \in Nat /\ sent'[m[1]] \in Nat /\ sent[m[1]] <= sent'[m[1]]
  BY <1>1 DEF Stays, LegacyTypeOK, ChannelTypeOK
<1>3. sock'[m[1]].hub # "none" /\ sock'[m[1]].cio = sock[m[1]].cio /\ m[2] <= sent'[m[1]]
  BY <1>1, <1>2 DEF Stays
<1>4. p[1] \in {"hand", "got"} => sock'[p[2]].cio = sock'[m[1]].cio
  <2> SUFFICES ASSUME p[1] \in {"hand", "got"} PROVE sock'[p[2]].cio = sock'[m[1]].cio
    OBVIOUS
  <2>1. p[2] \in Socket
    BY PlaceIs
  <2>2. sock[p[2]].cio = sock[m[1]].cio
    BY DEF Fits
  <2>3. sock[p[2]].hub # "none"
    BY <1>1, <2>1, <2>2 DEF JoinInv
  <2> QED
    BY <1>3, <2>1, <2>2, <2>3 DEF Stays
<1> QED
  BY <1>1, <1>3, <1>4 DEF Fits

-----------------------------------------------------------------------------
(***************************************************************************)
(* MessageInv, for each kind of step.                                      *)
(***************************************************************************)
(* A move goes one rank down, to a place the message fits; and if the      *)
(* sender is alone, its messages of that rank are all where it came from.  *)
Route(p, q) ==
    LET m == Head(At(p)) IN
    /\ Rank(p) = Rank(q) + 1 /\ Fits(q, m)
    /\ Sole(m[1]) =>
         \A r \in Place : \A i \in 1..Len(At(r)) :
             Rank(r) = Rank(p) /\ At(r)[i][1] = m[1] => r = p

(* A new message has a new number, or none, and is far from its goal.      *)
Fresh(p, m) ==
    /\ Rank(p) = 3 /\ Fits(p, m)'
    /\ m[2] > 0 => m[2] = sent[m[1]] + 1

LEMMA MoveKeeps ==
    ASSUME LegacyTypeOK, LegacyTypeOK', JoinInv, Stays, MessageInv,
           NEW p \in Place, NEW q \in Place, Moves(p, q), Route(p, q)
    PROVE  MessageInv'
<1> USE DEF MessageInv
<1>0. /\ p # q /\ 1 \in 1..Len(At(p)) /\ Head(At(p)) = At(p)[1] /\ At(p)[1] \in Message
      /\ \A r \in Place : Rank(r) \in 0..3 /\ Len(At(r)) \in Nat
  BY AtIs, OnceThere, RankIs DEF Moves
<1>1. WhereInv'
  <2> SUFFICES ASSUME NEW r \in Place, NEW i \in 1..Len(At(r)') PROVE Fits(r, At(r)[i])'
    BY DEF WhereInv
  <2>1. PICK m : m \in Message /\ m = At(r)'[i] /\ Fits(r, m)
    <3>1. CASE r = q /\ i = Len(At(q)) + 1 /\ At(r)'[i] = At(p)[1]
      BY <1>0, <3>1 DEF Route
    <3>2. CASE \E k \in 1..Len(At(r)) : At(r)'[i] = At(r)[k]
      BY <3>2, AtIs DEF WhereInv
    <3> QED
      BY <3>1, <3>2, Origin
  <2>2. Fits(r, m)'
    BY <2>1, FitsStays
  <2> QED
    BY <2>1, <2>2 DEF Fits
<1>2. OnceInv'
  <2> SUFFICES ASSUME NEW a \in Place, NEW b \in Place,
                      NEW i \in 1..Len(At(a)'), NEW j \in 1..Len(At(b)'),
                      At(a)'[i] = At(b)'[j], At(a)'[i][2] > 0
               PROVE  a = b /\ i = j
    BY DEF OnceInv
  <2>1. \/ a = p /\ i + 1 \in 1..Len(At(p)) /\ At(a)'[i] = At(p)[i + 1]
        \/ a = q /\ i = Len(At(q)) + 1 /\ At(a)'[i] = At(p)[1]
        \/ a # p /\ i \in 1..Len(At(a)) /\ At(a)'[i] = At(a)[i]
    BY Origin
  <2>2. \/ b = p /\ j + 1 \in 1..Len(At(p)) /\ At(b)'[j] = At(p)[j + 1]
        \/ b = q /\ j = Len(At(q)) + 1 /\ At(b)'[j] = At(p)[1]
        \/ b # p /\ j \in 1..Len(At(b)) /\ At(b)'[j] = At(b)[j]
    BY Origin
  <2>3. i \in Nat \ {0} /\ j \in Nat \ {0}
    BY <2>1, <2>2, <1>0
  <2> QED
    BY <1>0, <2>1, <2>2, <2>3 DEF OnceInv
<1>3. OrderInv'
  <2> SUFFICES ASSUME NEW a \in Place, NEW b \in Place,
                      NEW i \in 1..Len(At(a)'), NEW j \in 1..Len(At(b)'),
                      At(a)'[i][1] = At(b)'[j][1], Sole(At(a)[i][1])',
                      At(a)'[i][2] > 0, At(b)'[j][2] > 0,
                      Rank(a) < Rank(b) \/ (a = b /\ i < j)
               PROVE  At(a)'[i][2] < At(b)'[j][2]
    BY DEF OrderInv
  <2>1. \/ a = p /\ i + 1 \in 1..Len(At(p)) /\ At(a)'[i] = At(p)[i + 1]
        \/ a = q /\ i = Len(At(q)) + 1 /\ At(a)'[i] = At(p)[1]
        \/ a # p /\ i \in 1..Len(At(a)) /\ At(a)'[i] = At(a)[i]
    BY Origin
  <2>2. \/ b = p /\ j + 1 \in 1..Len(At(p)) /\ At(b)'[j] = At(p)[j + 1]
        \/ b = q /\ j = Len(At(q)) + 1 /\ At(b)'[j] = At(p)[1]
        \/ b # p /\ j \in 1..Len(At(b)) /\ At(b)'[j] = At(b)[j]
    BY Origin
  <2>3. i \in Nat \ {0} /\ j \in Nat \ {0}
    BY <2>1, <2>2, <1>0
  <2>4. PICK y : y = At(a)'[i][1] /\ Sole(y)' /\ y = At(b)'[j][1]
    BY DEF Sole, Fellows
  <2>5. Rank(p) = Rank(q) + 1
    BY DEF Route
  <2>6. CASE a = q /\ i = Len(At(q)) + 1 /\ At(a)'[i] = At(p)[1]
    <3>1. At(p)[1][1] \in Socket /\ Fits(p, At(p)[1])
      BY <1>0, AtIs DEF WhereInv
    <3>2. Sole(At(p)[1][1])
      BY <2>4, <2>6, <3>1, SoleBefore DEF Fits, Sole, Fellows
    <3>3. \A r \in Place : \A k \in 1..Len(At(r)) :
             Rank(r) = Rank(p) /\ At(r)[k][1] = At(p)[1][1] => r = p
      BY <1>0, <3>2 DEF Route
    <3>4. CASE b = p /\ j + 1 \in 1..Len(At(p)) /\ At(b)'[j] = At(p)[j + 1]
      <4>1. 1 < j + 1
        BY <2>3
      <4> QED
        BY <1>0, <2>6, <3>2, <3>4, <4>1 DEF OrderInv
    <3>5. CASE b # p /\ j \in 1..Len(At(b)) /\ At(b)'[j] = At(b)[j]
      <4>1. ~(a = b /\ i < j)
        BY <1>0, <2>6, <3>5
      <4>2. Rank(b) # Rank(p)
        BY <2>6, <3>3, <3>5
      <4>3. Rank(p) < Rank(b)
        BY <1>0, <2>5, <2>6, <4>1, <4>2
      <4> QED
        BY <1>0, <2>6, <3>2, <3>5, <4>3 DEF OrderInv
    <3>6. CASE b = q /\ j = Len(At(q)) + 1
      BY <1>0, <2>6, <3>6
    <3> QED
      BY <2>2, <3>4, <3>5, <3>6
  <2>7. CASE \E k \in 1..Len(At(a)) :
                /\ At(a)'[i] = At(a)[k]
                /\ (a = p /\ k = i + 1) \/ (a # p /\ k = i)
    <3>1. PICK k \in 1..Len(At(a)) :
                /\ At(a)'[i] = At(a)[k]
                /\ (a = p /\ k = i + 1) \/ (a # p /\ k = i)
      BY <2>7
    <3>2. /\ Fits(a, At(a)[k]) /\ At(a)[k][1] \in Socket
      BY AtIs DEF WhereInv
    <3>3. Sole(At(a)[k][1])
      BY <2>4, <3>1, <3>2, SoleBefore DEF Fits, Sole, Fellows
    <3>4. CASE b = q /\ j = Len(At(q)) + 1 /\ At(b)'[j] = At(p)[1]
      <4>1. Rank(a) < Rank(p)
        BY <1>0, <2>5, <3>4
      <4> QED
        BY <1>0, <3>1, <3>3, <3>4, <4>1 DEF OrderInv
    <3>5. CASE b = p /\ j + 1 \in 1..Len(At(p)) /\ At(b)'[j] = At(p)[j + 1]
      <4>1. Rank(a) < Rank(b) \/ (a = b /\ k < j + 1)
        BY <2>3, <3>1, <3>5
      <4> QED
        BY <3>1, <3>3, <3>5, <4>1 DEF OrderInv
    <3>6. CASE b # p /\ j \in 1..Len(At(b)) /\ At(b)'[j] = At(b)[j]
      <4>1. Rank(a) < Rank(b) \/ (a = b /\ k < j)
        BY <3>1, <3>6
      <4> QED
        BY <3>1, <3>3, <3>6, <4>1 DEF OrderInv
    <3> QED
      BY <2>2, <3>4, <3>5, <3>6
  <2> QED
    BY <2>1, <2>6, <2>7
<1> QED
  BY <1>1, <1>2, <1>3

LEMMA DropKeeps ==
    ASSUME LegacyTypeOK, LegacyTypeOK', JoinInv, Stays, MessageInv,
           NEW p \in Place, Drops(p)
    PROVE  MessageInv'
<1> USE DEF MessageInv
<1>0. \A r \in Place : \A i \in 1..Len(At(r)') :
        \E k \in 1..Len(At(r)) :
           At(r)'[i] = At(r)[k] /\ i \in Nat /\ k \in Nat /\ k = (IF r = p THEN i + 1 ELSE i)
  <2> SUFFICES ASSUME NEW r \in Place, NEW i \in 1..Len(At(r)')
               PROVE  \E k \in 1..Len(At(r)) :
                        At(r)'[i] = At(r)[k] /\ i \in Nat /\ k \in Nat
                          /\ k = (IF r = p THEN i + 1 ELSE i)
    OBVIOUS
  <2>1. i \in Nat
    OBVIOUS
  <2> QED
    BY <2>1, DropOrigin
<1>1. WhereInv'
  <2> SUFFICES ASSUME NEW r \in Place, NEW i \in 1..Len(At(r)') PROVE Fits(r, At(r)[i])'
    BY DEF WhereInv
  <2>1. PICK m : m \in Message /\ m = At(r)'[i] /\ Fits(r, m)
    BY <1>0, AtIs DEF WhereInv
  <2>2. Fits(r, m)'
    BY <2>1, FitsStays
  <2> QED
    BY <2>1, <2>2 DEF Fits
<1>2. OnceInv'
  <2> SUFFICES ASSUME NEW a \in Place, NEW b \in Place,
                      NEW i \in 1..Len(At(a)'), NEW j \in 1..Len(At(b)'),
                      At(a)'[i] = At(b)'[j], At(a)'[i][2] > 0
               PROVE  a = b /\ i = j
    BY DEF OnceInv
  <2>1. PICK k \in 1..Len(At(a)) :
           At(a)'[i] = At(a)[k] /\ i \in Nat /\ k \in Nat /\ k = (IF a = p THEN i + 1 ELSE i)
    BY <1>0
  <2>2. PICK l \in 1..Len(At(b)) :
           At(b)'[j] = At(b)[l] /\ j \in Nat /\ l \in Nat /\ l = (IF b = p THEN j + 1 ELSE j)
    BY <1>0
  <2>3. At(a)[k] = At(b)[l] /\ At(a)[k][2] > 0
    BY <2>1, <2>2
  <2>4. a = b /\ k = l
    BY <2>3 DEF OnceInv
  <2> QED
    BY <2>1, <2>2, <2>4
<1>3. OrderInv'
  <2> SUFFICES ASSUME NEW a \in Place, NEW b \in Place,
                      NEW i \in 1..Len(At(a)'), NEW j \in 1..Len(At(b)'),
                      At(a)'[i][1] = At(b)'[j][1], Sole(At(a)[i][1])',
                      At(a)'[i][2] > 0, At(b)'[j][2] > 0,
                      Rank(a) < Rank(b) \/ (a = b /\ i < j)
               PROVE  At(a)'[i][2] < At(b)'[j][2]
    BY DEF OrderInv
  <2>1. PICK k \in 1..Len(At(a)) :
           At(a)'[i] = At(a)[k] /\ i \in Nat /\ k \in Nat /\ k = (IF a = p THEN i + 1 ELSE i)
    BY <1>0
  <2>2. PICK l \in 1..Len(At(b)) :
           At(b)'[j] = At(b)[l] /\ j \in Nat /\ l \in Nat /\ l = (IF b = p THEN j + 1 ELSE j)
    BY <1>0
  <2>3. PICK y : y = At(a)'[i][1] /\ Sole(y)'
    BY DEF Sole, Fellows
  <2>4. /\ Fits(a, At(a)[k]) /\ At(a)[k][1] \in Socket
    BY AtIs DEF WhereInv
  <2>5. Sole(At(a)[k][1])
    BY <2>1, <2>3, <2>4, SoleBefore DEF Fits, Sole, Fellows
  <2>6. Rank(a) < Rank(b) \/ (a = b /\ k < l)
    BY <2>1, <2>2
  <2> QED
    BY <2>1, <2>2, <2>5, <2>6 DEF OrderInv
<1> QED
  BY <1>1, <1>2, <1>3

LEMMA QuietKeeps ==
    ASSUME LegacyTypeOK, LegacyTypeOK', JoinInv, Stays, MessageInv, Rest({})
    PROVE  MessageInv'
<1> USE DEF MessageInv
<1>0. \A r \in Place : At(r)' = At(r)
  BY DEF Rest
<1>1. WhereInv'
  <2> SUFFICES ASSUME NEW r \in Place, NEW i \in 1..Len(At(r)') PROVE Fits(r, At(r)[i])'
    BY DEF WhereInv
  <2>1. PICK m : m \in Message /\ m = At(r)'[i] /\ Fits(r, m)
    BY <1>0, AtIs DEF WhereInv
  <2>2. Fits(r, m)'
    BY <2>1, FitsStays
  <2> QED
    BY <2>1, <2>2 DEF Fits
<1>2. OnceInv'
  BY <1>0 DEF OnceInv
<1>3. OrderInv'
  <2> SUFFICES ASSUME NEW a \in Place, NEW b \in Place,
                      NEW i \in 1..Len(At(a)'), NEW j \in 1..Len(At(b)'),
                      At(a)'[i][1] = At(b)'[j][1], Sole(At(a)[i][1])',
                      At(a)'[i][2] > 0, At(b)'[j][2] > 0,
                      Rank(a) < Rank(b) \/ (a = b /\ i < j)
               PROVE  At(a)'[i][2] < At(b)'[j][2]
    BY DEF OrderInv
  <2>1. At(a)' = At(a) /\ At(b)' = At(b)
    BY <1>0
  <2>2. PICK y : y = At(a)'[i][1] /\ Sole(y)'
    BY DEF Sole, Fellows
  <2>3. /\ Fits(a, At(a)[i]) /\ At(a)[i][1] \in Socket
    BY <2>1, AtIs DEF WhereInv
  <2>4. Sole(At(a)[i][1])
    BY <2>1, <2>2, <2>3, SoleBefore DEF Fits, Sole, Fellows
  <2> QED
    BY <2>1, <2>4 DEF OrderInv
<1> QED
  BY <1>1, <1>2, <1>3

LEMMA ArriveKeeps ==
    ASSUME LegacyTypeOK, LegacyTypeOK', JoinInv, Stays, MessageInv,
           NEW p \in Place, NEW m \in Message, Arrives(p, m), Fresh(p, m)
    PROVE  MessageInv'
<1> USE DEF MessageInv
<1>0. /\ m[1] \in Socket /\ m[2] \in Nat /\ Rank(p) = 3
      /\ \A r \in Place : Rank(r) \in 0..3 /\ Len(At(r)) \in Nat
  BY MessageIs, AtIs, RankIs DEF Fresh
<1>1. \A r \in Place : \A i \in 1..Len(At(r)') :
        \/ r = p /\ i = Len(At(p)) + 1 /\ At(r)'[i] = m
        \/ i \in 1..Len(At(r)) /\ At(r)'[i] = At(r)[i]
  BY ArriveOrigin
<1>2. \A r \in Place : \A i \in 1..Len(At(r)) : At(r)[i][1] = m[1] /\ m[2] > 0 => At(r)[i][2] < m[2]
  <2> SUFFICES ASSUME NEW r \in Place, NEW i \in 1..Len(At(r)), At(r)[i][1] = m[1], m[2] > 0
               PROVE  At(r)[i][2] < m[2]
    OBVIOUS
  <2>1. At(r)[i][2] \in Nat /\ At(r)[i][2] <= sent[m[1]]
    BY AtIs DEF WhereInv, Fits
  <2>2. sent[m[1]] \in Nat /\ m[2] = sent[m[1]] + 1
    BY <1>0 DEF Fresh, LegacyTypeOK, ChannelTypeOK
  <2> QED
    BY <2>1, <2>2
<1>3. WhereInv'
  <2> SUFFICES ASSUME NEW r \in Place, NEW i \in 1..Len(At(r)') PROVE Fits(r, At(r)[i])'
    BY DEF WhereInv
  <2>1. PICK e : e \in Message /\ e = At(r)'[i] /\ (Fits(r, e) \/ (r = p /\ e = m))
    BY <1>1, AtIs DEF WhereInv
  <2>2. Fits(r, e)'
    <3>1. CASE Fits(r, e)
      BY <2>1, <3>1, FitsStays
    <3>2. CASE r = p /\ e = m
      BY <3>2 DEF Fresh, Fits
    <3> QED
      BY <2>1, <3>1, <3>2
  <2> QED
    BY <2>1, <2>2 DEF Fits
<1>4. OnceInv'
  <2> SUFFICES ASSUME NEW a \in Place, NEW b \in Place,
                      NEW i \in 1..Len(At(a)'), NEW j \in 1..Len(At(b)'),
                      At(a)'[i] = At(b)'[j], At(a)'[i][2] > 0
               PROVE  a = b /\ i = j
    BY DEF OnceInv
  <2>1. CASE a = p /\ i = Len(At(p)) + 1 /\ At(a)'[i] = m
    <3>1. CASE b = p /\ j = Len(At(p)) + 1
      BY <2>1, <3>1
    <3>2. CASE j \in 1..Len(At(b)) /\ At(b)'[j] = At(b)[j]
      BY <1>0, <1>2, <2>1, <3>2
    <3> QED
      BY <1>1, <3>1, <3>2
  <2>2. CASE i \in 1..Len(At(a)) /\ At(a)'[i] = At(a)[i]
    <3>1. CASE b = p /\ j = Len(At(p)) + 1 /\ At(b)'[j] = m
      <4>1. At(a)[i] = m /\ m[2] > 0
        BY <2>2, <3>1
      <4>2. At(a)[i][2] < m[2]
        BY <1>2, <2>2, <4>1
      <4> QED
        BY <1>0, <4>1, <4>2
    <3>2. CASE j \in 1..Len(At(b)) /\ At(b)'[j] = At(b)[j]
      <4>1. At(a)[i] = At(b)[j] /\ At(a)[i][2] > 0
        BY <2>2, <3>2
      <4> QED
        BY <2>2, <3>2, <4>1 DEF OnceInv
    <3> QED
      BY <1>1, <3>1, <3>2
  <2> QED
    BY <1>1, <2>1, <2>2
<1>5. OrderInv'
  <2> SUFFICES ASSUME NEW a \in Place, NEW b \in Place,
                      NEW i \in 1..Len(At(a)'), NEW j \in 1..Len(At(b)'),
                      At(a)'[i][1] = At(b)'[j][1], Sole(At(a)[i][1])',
                      At(a)'[i][2] > 0, At(b)'[j][2] > 0,
                      Rank(a) < Rank(b) \/ (a = b /\ i < j)
               PROVE  At(a)'[i][2] < At(b)'[j][2]
    BY DEF OrderInv
  <2>1. PICK y : y = At(a)'[i][1] /\ y = At(b)'[j][1] /\ Sole(y)'
    BY DEF Sole, Fellows
  <2>2. CASE i \in 1..Len(At(a)) /\ At(a)'[i] = At(a)[i]
    <3>1. CASE b = p /\ j = Len(At(p)) + 1 /\ At(b)'[j] = m
      BY <1>2, <2>1, <2>2, <3>1
    <3>2. CASE j \in 1..Len(At(b)) /\ At(b)'[j] = At(b)[j]
      <4>1. Fits(a, At(a)[i]) /\ At(a)[i][1] \in Socket
        BY <2>2, AtIs DEF WhereInv
      <4>2. Sole(At(a)[i][1])
        BY <2>1, <2>2, <4>1, SoleBefore DEF Fits, Sole, Fellows
      <4> QED
        BY <2>2, <3>2, <4>2 DEF OrderInv
    <3> QED
      BY <1>1, <3>1, <3>2
  <2>3. CASE a = p /\ i = Len(At(p)) + 1 /\ At(a)'[i] = m
    <3>1. Rank(b) <= 3 /\ Rank(a) = 3 /\ Rank(b) \in Nat
      BY <1>0, <2>3
    <3>2. a = b /\ i < j
      BY <3>1
    <3> QED
      BY <1>0, <1>1, <2>3, <3>2
  <2> QED
    BY <1>1, <2>2, <2>3
<1> QED
  BY <1>3, <1>4, <1>5

-----------------------------------------------------------------------------
(***************************************************************************)
(* The steps of the channels and hubs, as steps of messages.               *)
(***************************************************************************)
Q(x, k) == <<"queue", sock[x].cio, k>>
H(x) == <<"hand", x, x>>
G(x) == <<"got", x, x>>

LEMMA QueueIs ==
    ASSUME ChannelTypeOK, NEW x \in Socket, NEW k \in Chan, sock[x].cio # 0
    PROVE  /\ sock[x].cio \in Cio /\ Q(x, k) \in Place /\ At(Q(x, k)) = Chans(x)[k]
           /\ At(Q(x, k)) = queue[sock[x].cio][k]
           /\ \A s \in Cio, j \in Chan : <<"queue", s, j>> = Q(x, k) => s = sock[x].cio /\ j = k
<1>1. sock[x].cio \in Cio
  BY ChannelBounds DEF ChannelTypeOK, SocketT, Cio
<1> QED
  BY <1>1, PlaceIs DEF Q, Chans

LEMMA QueueMoves ==
    ASSUME ChannelTypeOK, NEW x \in Socket, NEW k \in Chan, sock[x].cio # 0
    PROVE  /\ \A m : Put(x, k, m) =>
                /\ queue'[sock[x].cio][k] = Append(queue[sock[x].cio][k], m)
                /\ \A s \in Cio, j \in Chan :
                     <<"queue", s, j>> # Q(x, k) => queue'[s][j] = queue[s][j]
           /\ Take(x, k) =>
                /\ queue'[sock[x].cio][k] = Tail(queue[sock[x].cio][k])
                /\ \A s \in Cio, j \in Chan :
                     <<"queue", s, j>> # Q(x, k) => queue'[s][j] = queue[s][j]
<1>1. sock[x].cio \in Cio /\ queue \in [Cio -> [Chan -> Seq(Message)]]
  BY QueueIs DEF ChannelTypeOK
<1>2. \A s \in Cio, j \in Chan :
         <<"queue", s, j>> # Q(x, k) => ~(s = sock[x].cio /\ j = k)
  BY DEF Q
<1>3. ASSUME NEW m, Put(x, k, m)
      PROVE  /\ queue'[sock[x].cio][k] = Append(queue[sock[x].cio][k], m)
             /\ \A s \in Cio, j \in Chan :
                  <<"queue", s, j>> # Q(x, k) => queue'[s][j] = queue[s][j]
  BY <1>1, <1>2, <1>3 DEF Put
<1>4. ASSUME Take(x, k)
      PROVE  /\ queue'[sock[x].cio][k] = Tail(queue[sock[x].cio][k])
             /\ \A s \in Cio, j \in Chan :
                  <<"queue", s, j>> # Q(x, k) => queue'[s][j] = queue[s][j]
  BY <1>1, <1>2, <1>4 DEF Take
<1> QED
  BY <1>3, <1>4

(* What stays where it is.                                                 *)
LEMMA RestIs ==
    ASSUME NEW P,
           \A s \in Cio, j \in Chan : <<"queue", s, j>> \notin P => queue'[s][j] = queue[s][j],
           \A x \in Socket : H(x) \notin P => sock'[x].hand = sock[x].hand,
           \A x \in Socket : G(x) \notin P => got'[x] = got[x]
    PROVE  Rest(P)
<1> SUFFICES ASSUME NEW r \in Place, r \notin P PROVE At(r)' = At(r)
  BY DEF Rest
<1>1. ASSUME NEW s \in Cio, NEW j \in Chan, r = <<"queue", s, j>> PROVE At(r)' = At(r)
  BY <1>1 DEF At
<1>2. ASSUME NEW x \in Socket, r = H(x) PROVE At(r)' = At(r)
  BY <1>2 DEF At, H
<1>3. ASSUME NEW x \in Socket, r = G(x) PROVE At(r)' = At(r)
  BY <1>3 DEF At, G
<1> QED
  BY <1>1, <1>2, <1>3, PlaceIs DEF H, G

(* The channels of a socket, by its kind.                                  *)
LEMMA KindIs ==
    ASSUME NEW x \in Socket
    PROVE  /\ {From(x), Into(x), For(x)} \subseteq Chan
           /\ From(x) = (IF x \in Client THEN "cout" ELSE "outgoing")
           /\ Into(x) = (IF x \in Client THEN "incoming" ELSE "cin")
           /\ For(x) = (IF x \in Client THEN "cin" ELSE "incoming")
           /\ Rank(Q(x, From(x))) = 3 /\ Rank(Q(x, Into(x))) = 1 /\ Rank(Q(x, For(x))) = 1
           /\ Rank(H(x)) = 2 /\ Rank(G(x)) = 0
BY DEF From, Into, For, Chan, Rank, Q, H, G

(* The place of a rank.                                                    *)
LEMMA PlaceOf ==
    ASSUME NEW p \in Place
    PROVE  /\ p[1] = "queue" => /\ p = <<"queue", p[2], p[3]>> /\ p[2] \in Cio /\ p[3] \in Chan
                                /\ Rank(p) = (IF p[3] \in {"cout", "outgoing"} THEN 3 ELSE 1)
           /\ p[1] = "hand" => p = <<"hand", p[2], p[2]>> /\ p[2] \in Socket /\ Rank(p) = 2
           /\ p[1] = "got" => p = <<"got", p[2], p[2]>> /\ p[2] \in Socket /\ Rank(p) = 0
           /\ p[1] \in {"queue", "hand", "got"}
<1>1. CASE \E s \in Cio, k \in Chan : p = <<"queue", s, k>>
  BY <1>1 DEF Rank, Chan
<1>2. CASE \E x \in Socket : p = <<"hand", x, x>>
  BY <1>2 DEF Rank
<1>3. CASE \E x \in Socket : p = <<"got", x, x>>
  BY <1>3 DEF Rank
<1> QED
  BY <1>1, <1>2, <1>3, PlaceIs

(* A sender alone of its kind has at each rank one place.                  *)
LEMMA OnlyHere ==
    ASSUME LegacyTypeOK, JoinInv, WhereInv, NEW p \in Place, NEW r \in Place,
           NEW i \in 1..Len(At(p)), NEW j \in 1..Len(At(r)),
           At(p)[i][1] = At(r)[j][1], Sole(At(p)[i][1]), Rank(p) = Rank(r), Rank(p) # 0
    PROVE  r = p
<1> DEFINE y == At(p)[i][1]
<1>1. Fits(p, At(p)[i]) /\ Fits(r, At(r)[j]) /\ y \in Socket /\ y = At(r)[j][1] /\ Sole(y)
  BY AtIs DEF WhereInv
<1> HIDE DEF y
<1>2. CASE p[1] = "queue"
  <2>1. Rank(p) # 2
    BY <1>2, PlaceOf
  <2>2. r[1] = "queue"
    BY <2>1, PlaceOf
  <2>3. p[2] = r[2] /\ (p[3] \in {"cout", "incoming"} <=> r[3] \in {"cout", "incoming"})
    BY <1>1, <1>2, <2>2 DEF Fits, y
  <2>4. p[3] \in {"cout", "outgoing"} <=> r[3] \in {"cout", "outgoing"}
    BY <1>2, <2>2, PlaceOf
  <2>5. p[3] = r[3]
    BY <1>2, <2>2, <2>3, <2>4, PlaceOf DEF Chan
  <2> QED
    BY <1>2, <2>2, <2>3, <2>5, PlaceOf
<1>3. CASE p[1] = "hand"
  <2>1. Rank(r) = 2
    BY <1>3, PlaceOf
  <2>2. r[1] = "hand"
    BY <2>1, PlaceOf
  <2>3. p[2] \in Fellows(y) /\ r[2] \in Fellows(y)
    BY <1>1, <1>3, <2>2, PlaceOf DEF Fits, Fellows, y
  <2>4. p[2] = r[2]
    BY <1>1, <2>3 DEF Sole
  <2> QED
    BY <1>3, <2>2, <2>4, PlaceOf
<1> QED
  BY <1>2, <1>3, PlaceOf

(* So the head of a place that moves one rank down is on a route.          *)
LEMMA RouteIs ==
    ASSUME LegacyTypeOK, JoinInv, WhereInv, NEW p \in Place, NEW q \in Place, At(p) # <<>>,
           Rank(p) = Rank(q) + 1, Fits(q, Head(At(p)))
    PROVE  Route(p, q)
<1>1. Head(At(p)) = At(p)[1] /\ 1 \in 1..Len(At(p))
  BY AtIs, OnceThere
<1>2. Rank(p) # 0
  BY RankIs
<1> QED
  BY <1>1, <1>2, OnlyHere DEF Route

(* Every step of a hub, a handler or a page.                               *)
LEMMA ChannelKeepsMessages ==
    ASSUME LegacyTypeOK, LegacyTypeOK', JoinInv, MessageInv, ChannelStep
    PROVE  MessageInv'
<1> DEFINE Goal == MessageInv'
<1>0. /\ ChannelTypeOK /\ WhereInv /\ sock \in [Socket -> SocketT] /\ sent \in [Socket -> Nat]
      /\ got \in [Socket -> Seq(Message)]
  BY DEF LegacyTypeOK, ChannelTypeOK, MessageInv
<1>a. ASSUME \A x \in Socket : sock'[x].hub = "none" => sock[x].hub = "none",
             \A x \in Socket : sock'[x].cio = sock[x].cio, \A x \in Socket : sent[x] <= sent'[x]
      PROVE  Stays
  BY <1>a DEF Stays
<1>s. \A x \in Socket : sent[x] <= sent[x]
  BY <1>0
<1> HIDE DEF Goal
<1>1. ASSUME NEW x \in Socket, NewConnection(x) PROVE Goal
  <2>1. Stays
    BY <1>0, <1>1, <1>s DEF NewConnection, Joined, SocketT, Stays
  <2>2. Rest({})
    <3>1. UNCHANGED <<queue, got>> /\ \A z \in Socket : sock'[z].hand = sock[z].hand
      BY <1>0, <1>1 DEF NewConnection, SocketT
    <3> QED
      BY <3>1, RestIs
  <2> QED
    BY <2>1, <2>2, QuietKeeps DEF Goal
<1>2. ASSUME NEW c \in Client, PageLeaves(c) PROVE Goal
  <2>1. Stays
    BY <1>0, <1>2, <1>s DEF PageLeaves, SocketT, Stays
  <2>2. Rest({})
    <3>1. UNCHANGED <<queue, got>> /\ \A z \in Socket : sock'[z].hand = sock[z].hand
      BY <1>0, <1>2 DEF PageLeaves, SocketT
    <3> QED
      BY <3>1, RestIs
  <2> QED
    BY <2>1, <2>2, QuietKeeps DEF Goal
<1>3. ASSUME NEW x \in Socket, NEW n \in {0, sent[x] + 1}, sent[x] < MaxRead[x], Joined(x),
             sent' = [sent EXCEPT ![x] = @ + 1], Put(x, From(x), <<x, n>>), UNCHANGED <<sock, got>>
      PROVE  Goal
  <2> DEFINE m == <<x, n>>
             p == Q(x, From(x))
  <2>1. /\ sent[x] \in Nat /\ MaxRead[x] \in Nat /\ n \in Nat /\ n <= sent[x] + 1 /\ n <= MaxRead[x]
        /\ From(x) \in Chan /\ sock[x].cio # 0 /\ sock[x].hub # "none"
        /\ sent'[x] = sent[x] + 1
    <3>1. sent[x] \in Nat /\ MaxRead[x] \in Nat
      BY <1>0, ChannelBounds
    <3>2. From(x) \in Chan
      BY KindIs
    <3>3. sock[x].cio # 0 /\ sock[x].hub # "none" /\ sent'[x] = sent[x] + 1
      BY <1>0, <1>3 DEF Joined
    <3> QED
      BY <1>3, <3>1, <3>2, <3>3
  <2>2. m \in Message /\ m[1] = x /\ m[2] = n
    BY <2>1, MessageIs
  <2>3. p \in Place /\ At(p) = queue[sock[x].cio][From(x)] /\ sock[x].cio \in Cio
    BY <1>0, <2>1, QueueIs
  <2>4. Stays
    <3>1. \A z \in Socket : sent[z] <= sent'[z]
      BY <1>0, <1>3
    <3> QED
      BY <1>3, <3>1 DEF Stays
  <2>5. Arrives(p, m)
    <3>1. At(p)' = Append(At(p), m)
      <4>1. At(p)' = queue'[sock[x].cio][From(x)]
        BY <1>3 DEF At, Q
      <4> QED
        <5>1. Put(x, From(x), m)
          BY <1>3
        <5>2. queue'[sock[x].cio][From(x)] = Append(queue[sock[x].cio][From(x)], m)
          BY <1>0, <2>1, <5>1, QueueMoves
        <5> QED
          BY <2>3, <4>1, <5>2
    <3>2. Rest({p})
      <4>1. \A s \in Cio, j \in Chan : <<"queue", s, j>> \notin {p} => queue'[s][j] = queue[s][j]
        BY <1>0, <1>3, <2>1, QueueMoves
      <4> QED
        BY <1>3, <4>1, RestIs
    <3> QED
      BY <3>1, <3>2 DEF Arrives
  <2>6. Fresh(p, m)
    <3>1. Fits(p, m)'
      BY <1>3, <2>1, KindIs DEF Fits, Q
    <3> QED
      BY <1>3, <2>1, <2>2, <3>1, KindIs DEF Fresh
  <2> QED
    BY <2>2, <2>3, <2>4, <2>5, <2>6, ArriveKeeps DEF Goal
<1>4. ASSUME NEW x \in Socket, ReadMessage(x) PROVE Goal
  <2>1. sent'[x] = sent[x] + 1
    BY <1>0, <1>4 DEF ReadMessage
  <2> QED
    BY <1>3, <1>4, <2>1 DEF ReadMessage
<1>5. ASSUME NEW c \in Client, ReadFails(c) PROVE Goal
  BY <1>3, <1>5, SocketIs DEF ReadFails, From
<1>6. ASSUME NEW x \in Socket, Forward(x) PROVE Goal
  <2> DEFINE p == Q(x, From(x))
             q == H(x)
  <2>1. /\ sock[x].cio # 0 /\ sock[x].hub # "none" /\ sock[x].hand = <<>> /\ From(x) \in Chan
        /\ Chans(x)[From(x)] # <<>> /\ Take(x, From(x)) /\ UNCHANGED <<sent, got>>
        /\ sock' = [sock EXCEPT ![x] = [sock[x] EXCEPT !.hand = <<Head(Chans(x)[From(x)])>>]]
    BY <1>0, <1>6, KindIs DEF Forward, Joined
  <2>2. /\ p \in Place /\ q \in Place /\ At(p) = Chans(x)[From(x)] /\ sock[x].cio \in Cio
        /\ At(p) = queue[sock[x].cio][From(x)] /\ At(q) = <<>>
    BY <1>0, <2>1, QueueIs, PlaceIs DEF H
  <2>3. /\ \A z \in Socket : sock'[z].cio = sock[z].cio /\ sock'[z].hub = sock[z].hub
        /\ \A z \in Socket : z # x => sock'[z].hand = sock[z].hand
        /\ sock'[x].hand = <<Head(At(p))>>
    BY <1>0, <2>1, <2>2 DEF SocketT
  <2>4. Stays
    BY <1>s, <2>1, <2>3 DEF Stays
  <2>5. Moves(p, q)
    <3>1. At(p)' = Tail(At(p))
      <4>1. At(p)' = queue'[sock[x].cio][From(x)]
        BY <2>3 DEF At, Q
      <4> QED
        BY <1>0, <2>1, <2>2, <4>1, QueueMoves
    <3>2. At(q)' = Append(At(q), Head(At(p)))
      <4>1. At(q)' = <<Head(At(p))>>
        BY <2>3 DEF At, H
      <4>2. Append(<<>>, Head(At(p))) = <<Head(At(p))>>
        OBVIOUS
      <4> QED
        BY <2>2, <4>1, <4>2
    <3>3. Rest({p, q})
      <4>1. \A s \in Cio, j \in Chan : <<"queue", s, j>> \notin {p, q} => queue'[s][j] = queue[s][j]
        BY <1>0, <2>1, QueueMoves
      <4>2. \A z \in Socket : H(z) \notin {p, q} => sock'[z].hand = sock[z].hand
        BY <2>3
      <4> QED
        BY <2>1, <4>1, <4>2, RestIs
    <3> QED
      BY <2>1, <2>2, <3>1, <3>2, <3>3 DEF Moves, Q, H
  <2>6. Route(p, q)
    <3>1. Head(At(p)) = At(p)[1] /\ 1 \in 1..Len(At(p))
      BY <2>1, <2>2, AtIs, OnceThere
    <3>2. Fits(p, Head(At(p)))
      BY <1>0, <2>2, <3>1 DEF WhereInv
    <3>3. Fits(q, Head(At(p)))
      BY <3>2, KindIs DEF Fits, Q, H
    <3>4. Rank(p) = 3 /\ Rank(q) = 2 /\ At(p) # <<>>
      BY <2>1, <2>2, KindIs
    <3> QED
      BY <1>0, <2>2, <3>3, <3>4, RouteIs
  <2> QED
    BY <2>2, <2>4, <2>5, <2>6, MoveKeeps DEF Goal
<1>7. ASSUME NEW x \in Socket, PassOn(x) PROVE Goal
  <2> DEFINE p == H(x)
             q == Q(x, Into(x))
  <2>1. /\ sock[x].cio # 0 /\ sock[x].hub # "none" /\ sock[x].hand # <<>> /\ Into(x) \in Chan
        /\ Put(x, Into(x), Head(sock[x].hand)) /\ UNCHANGED <<sent, got>>
        /\ sock' = [sock EXCEPT ![x] = [sock[x] EXCEPT !.hand = Tail(sock[x].hand)]]
    BY <1>0, <1>7, KindIs DEF PassOn, Joined
  <2>2. /\ p \in Place /\ q \in Place /\ sock[x].cio \in Cio
        /\ At(p) = sock[x].hand /\ At(q) = queue[sock[x].cio][Into(x)]
    BY <1>0, <2>1, QueueIs, PlaceIs DEF H
  <2>3. /\ \A z \in Socket : sock'[z].cio = sock[z].cio /\ sock'[z].hub = sock[z].hub
        /\ \A z \in Socket : z # x => sock'[z].hand = sock[z].hand
        /\ sock'[x].hand = Tail(At(p))
    BY <1>0, <2>1, <2>2 DEF SocketT
  <2>4. Stays
    BY <1>s, <2>1, <2>3 DEF Stays
  <2>5. Moves(p, q)
    <3>1. At(q)' = Append(At(q), Head(At(p)))
      <4>1. At(q)' = queue'[sock[x].cio][Into(x)]
        BY <2>3 DEF At, Q
      <4> QED
        BY <1>0, <2>1, <2>2, <4>1, QueueMoves
    <3>2. At(p)' = Tail(At(p))
      BY <2>2, <2>3 DEF At, H
    <3>3. Rest({p, q})
      <4>1. \A s \in Cio, j \in Chan : <<"queue", s, j>> \notin {p, q} => queue'[s][j] = queue[s][j]
        BY <1>0, <2>1, QueueMoves
      <4>2. \A z \in Socket : H(z) \notin {p, q} => sock'[z].hand = sock[z].hand
        BY <2>3
      <4> QED
        BY <2>1, <4>1, <4>2, RestIs
    <3> QED
      BY <2>1, <2>2, <3>1, <3>2, <3>3 DEF Moves, Q, H
  <2>6. Route(p, q)
    <3>1. Head(At(p)) = At(p)[1] /\ 1 \in 1..Len(At(p))
      BY <2>1, <2>2, AtIs, OnceThere
    <3>2. Fits(p, Head(At(p)))
      BY <1>0, <2>2, <3>1 DEF WhereInv
    <3>3. Fits(q, Head(At(p)))
      BY <3>2, KindIs DEF Fits, Q, H
    <3>4. Rank(p) = 2 /\ Rank(q) = 1 /\ At(p) # <<>>
      BY <2>1, <2>2, KindIs
    <3> QED
      BY <1>0, <2>2, <3>3, <3>4, RouteIs
  <2> QED
    BY <2>2, <2>4, <2>5, <2>6, MoveKeeps DEF Goal
<1>8. ASSUME NEW x \in Socket, WriteMessage(x) PROVE Goal
  <2> DEFINE p == Q(x, For(x))
             q == G(x)
             m == Head(Chans(x)[For(x)])
  <2>1. /\ sock[x].cio # 0 /\ sock[x].hub # "none" /\ For(x) \in Chan
        /\ Chans(x)[For(x)] # <<>> /\ Take(x, For(x)) /\ UNCHANGED <<sock, sent>>
        /\ UNCHANGED got \/ (m[2] > 0 /\ got' = [got EXCEPT ![x] = Append(got[x], m)])
    BY <1>0, <1>8, WriteOutcomes, KindIs
  <2>2. /\ p \in Place /\ q \in Place /\ At(p) = Chans(x)[For(x)] /\ sock[x].cio \in Cio
        /\ At(p) = queue[sock[x].cio][For(x)] /\ At(q) = got[x]
    BY <1>0, <2>1, QueueIs, PlaceIs DEF G
  <2>3. Stays
    BY <1>s, <2>1 DEF Stays
  <2>4. At(p)' = Tail(At(p))
    <3>1. At(p)' = queue'[sock[x].cio][For(x)]
      BY <2>1 DEF At, Q
    <3> QED
      BY <1>0, <2>1, <2>2, <3>1, QueueMoves
  <2>5. \A s \in Cio, j \in Chan : <<"queue", s, j>> # p => queue'[s][j] = queue[s][j]
    BY <1>0, <2>1, QueueMoves
  <2>6. CASE UNCHANGED got
    <3>1. Drops(p)
      <4>1. Rest({p})
        BY <2>1, <2>5, <2>6, RestIs
      <4> QED
        BY <2>1, <2>2, <2>4, <4>1 DEF Drops
    <3> QED
      BY <2>2, <2>3, <3>1, DropKeeps DEF Goal
  <2>7. CASE m[2] > 0 /\ got' = [got EXCEPT ![x] = Append(got[x], m)]
    <3>1. Moves(p, q)
      <4>1. At(q)' = Append(At(q), Head(At(p)))
        BY <1>0, <2>2, <2>7 DEF At, G
      <4>2. Rest({p, q})
        <5>1. \A z \in Socket : G(z) \notin {p, q} => got'[z] = got[z]
          BY <1>0, <2>7
        <5>2. \A s \in Cio, j \in Chan : <<"queue", s, j>> \notin {p, q} => queue'[s][j] = queue[s][j]
          BY <2>5
        <5> QED
          BY <2>1, <5>1, <5>2, RestIs
      <4> QED
        BY <2>1, <2>2, <2>4, <4>1, <4>2 DEF Moves, Q, G
    <3>2. Route(p, q)
      <4>1. Head(At(p)) = At(p)[1] /\ 1 \in 1..Len(At(p))
        BY <2>1, <2>2, AtIs, OnceThere
      <4>2. Fits(p, Head(At(p)))
        BY <1>0, <2>2, <4>1 DEF WhereInv
      <4>3. Fits(q, Head(At(p)))
        BY <2>2, <2>7, <4>2, KindIs DEF Fits, Q, G
      <4> QED
        BY <1>0, <2>1, <2>2, <4>3, RouteIs, KindIs
    <3> QED
      BY <2>2, <2>3, <3>1, <3>2, MoveKeeps DEF Goal
  <2> QED
    BY <2>1, <2>6, <2>7
<1> QED
  BY <1>1, <1>2, <1>4, <1>5, <1>6, <1>7, <1>8 DEF ChannelStep, HubStep, Goal

-----------------------------------------------------------------------------
(* The control path moves no message.                                      *)
LEMMA EmptyKeeps ==
    ASSUME \A r \in Place : At(r)' = <<>>
    PROVE  MessageInv'
<1>1. \A r \in Place : Len(At(r)') = 0
  OBVIOUS
<1>2. \A r \in Place : 1..Len(At(r)') = {}
  BY <1>1
<1>3. WhereInv'
  BY <1>2 DEF WhereInv
<1>4. OnceInv'
  BY <1>2 DEF OnceInv
<1>5. OrderInv'
  BY <1>2 DEF OrderInv
<1> QED
  BY <1>3, <1>4, <1>5 DEF MessageInv

LEMMA EndsKeepsMessages ==
    ASSUME NEW why \in {"authUnreachable", "portTaken", "mapRace"}, Ends(why)
    PROVE  MessageInv'
<1>1. /\ queue' = [s \in Cio |-> [k \in Chan |-> <<>>]]
      /\ sock' = [x \in Socket |-> Apart] /\ got' = [x \in Socket |-> <<>>]
  BY DEF Ends
<1> SUFFICES ASSUME NEW r \in Place PROVE At(r)' = <<>>
  BY EmptyKeeps
<1>2. CASE r[1] = "queue"
  BY <1>1, <1>2, PlaceOf DEF At
<1>3. CASE r[1] = "hand"
  BY <1>1, <1>3, PlaceOf DEF At, Apart
<1>4. CASE r[1] = "got"
  BY <1>1, <1>4, PlaceOf DEF At
<1> QED
  BY <1>2, <1>3, <1>4, PlaceOf

LEMMA ControlKeepsMessages ==
    ASSUME LegacyTypeOK, LegacyTypeOK', SidInv, JoinInv, MessageInv, [LegacyNext]_legacyVars,
           ~ChannelStep
    PROVE  MessageInv'
<1>0. sock \in [Socket -> SocketT] /\ sent \in [Socket -> Nat]
  BY DEF LegacyTypeOK, ChannelTypeOK
<1>q. ASSUME UNCHANGED <<queue, got, sent>>, 
             \A x \in Socket : /\ sock'[x].hand = sock[x].hand
                               /\ sock[x].hub # "none" =>
                                    sock'[x].hub # "none" /\ sock'[x].cio = sock[x].cio
      PROVE  MessageInv'
  <2>1. Stays
    BY <1>0, <1>q DEF Stays
  <2>2. Rest({})
    BY <1>q, RestIs
  <2> QED
    BY <2>1, <2>2, QuietKeeps
<1>u. ASSUME UNCHANGED <<queue, sock, got, sent>> PROVE MessageInv'
  BY <1>q, <1>u
<1>e. ASSUME NEW why \in {"authUnreachable", "portTaken", "mapRace"}, Ends(why) PROVE MessageInv'
  BY <1>e, EndsKeepsMessages
<1>d. ASSUME NEW d, Dies(d), UNCHANGED <<queue, got, sent>> PROVE MessageInv'
  <2>1. \A x \in Socket : /\ sock'[x].hand = sock[x].hand /\ sock'[x].hub = sock[x].hub
                          /\ sock'[x].cio = sock[x].cio
    BY <1>0, <1>d DEF Dies, SocketT
  <2> QED
    BY <1>d, <1>q, <2>1
<1>j. ASSUME NEW x \in Socket, NEW s, Join(x, s), sock[x].hub = "none",
             UNCHANGED <<queue, got, sent>>
      PROVE  MessageInv'
  <2>1. sock[x].hand = <<>>
    BY <1>j DEF JoinInv
  <2>2. sock'[x].hand = <<>> /\ \A y \in Socket : y # x => sock'[y] = sock[y]
    BY <1>0, <1>j DEF Join
  <2> QED
    BY <1>j, <1>q, <2>1, <2>2
<1> USE DEF channelVars
<1>1. CASE UNCHANGED legacyVars
  BY <1>u, <1>1 DEF legacyVars
<1>2. ASSUME NEW d \in Device, Register(d) \/ HandleRegistration(d) PROVE MessageInv'
  BY <1>u, <1>2 DEF Register, HandleRegistration
<1>3. ASSUME NEW d \in Device, AgentDies(d) PROVE MessageInv'
  BY <1>d, <1>3 DEF AgentDies
<1>4. ASSUME NEW d \in Device, BeaconUnanswered(d) PROVE MessageInv'
  BY <1>d, <1>e, <1>4 DEF BeaconUnanswered
<1>5. ASSUME NEW d \in Device, AuthUnreachable(d) PROVE MessageInv'
  BY <1>e, <1>5 DEF AuthUnreachable
<1>6. ASSUME NEW d \in Device, NEW h \in Shell, Beacon(d, h) PROVE MessageInv'
  BY <1>u, <1>6 DEF Beacon
<1>7. ASSUME NEW h \in Shell, DialChannel(h) PROVE MessageInv'
  BY <1>d, <1>j, <1>7, SocketIs DEF DialChannel
<1>8. ASSUME NEW c \in Client, OpenControl(c) \/ HandleSession(c) PROVE MessageInv'
  BY <1>u, <1>8 DEF OpenControl, HandleSession
<1>9. ASSUME NEW c \in Client, OpenPage(c) PROVE MessageInv'
  BY <1>j, <1>9, SocketIs DEF OpenPage
<1>10. ASSUME NEW c \in Client, HandleAuth(c) PROVE MessageInv'
  BY <1>u, <1>e, <1>10 DEF HandleAuth
<1>11. ASSUME NEW s \in Sid, Listen(s) PROVE MessageInv'
  BY <1>u, <1>11 DEF Listen
<1>12. CASE MapRace
  BY <1>e, <1>12 DEF MapRace
<1> QED
  BY <1>1, <1>2, <1>3, <1>4, <1>5, <1>6, <1>7, <1>8, <1>9, <1>10, <1>11, <1>12 DEF LegacyNext

-----------------------------------------------------------------------------
(***************************************************************************)
(* The invariant, and what follows from it.                                *)
(***************************************************************************)
LegacyInv == LegacyTypeOK /\ SidInv /\ JoinInv /\ PortsAreApart /\ MessageInv

LEMMA InitLegacy == LegacyInit => LegacyInv
<1> SUFFICES ASSUME LegacyInit PROVE LegacyInv
  OBVIOUS
<1> USE DEF LegacyInit, ChannelInit
<1>1. ChannelTypeOK
  <2>1. Apart \in SocketT /\ Apart.hand = <<>>
    BY ChannelBounds DEF Apart, SocketT, Hub
  <2>2. <<>> \in Seq(Message) /\ Len(<<>>) = 0 /\ 0 <= Capacity
    BY ChannelBounds
  <2> QED
    BY <2>1, <2>2 DEF ChannelTypeOK
<1>2. LegacyTypeOK
  BY <1>1 DEF LegacyTypeOK, Stage, Named, Sid0
<1>3. SidInv
  <2>1. Named0 = {}
    BY DEF Named0
  <2>2. nsid = Cardinality(Named0) /\ nsid = 0
    BY <2>1, FS_EmptySet
  <2> QED
    BY <2>2 DEF SidInv
<1>4. JoinInv
  BY DEF JoinInv, Apart, Socket
<1>5. PortsAreApart
  BY DEF PortsAreApart
<1>6. MessageInv
  <2>1. \A r \in Place : At(r) = <<>>
    <3> SUFFICES ASSUME NEW r \in Place PROVE At(r) = <<>>
      OBVIOUS
    <3>1. CASE r[1] = "queue"
      BY <3>1, PlaceOf DEF At
    <3>2. CASE r[1] = "hand"
      BY <3>2, PlaceOf DEF At, Apart
    <3>3. CASE r[1] = "got"
      BY <3>3, PlaceOf DEF At
    <3> QED
      BY <3>1, <3>2, <3>3, PlaceOf
  <2>2. \A r \in Place : 1..Len(At(r)) = {}
    BY <2>1
  <2> QED
    BY <2>2 DEF MessageInv, WhereInv, OnceInv, OrderInv
<1> QED
  BY <1>2, <1>3, <1>4, <1>5, <1>6 DEF LegacyInv

(* LegacyInv is kept by every step of the broker, the agents and the pages *)
(* of the prototype (_legacy/broker, _legacy/agent).                       *)
THEOREM LegacyInvariant == LegacySpec => []LegacyInv
<1>1. LegacyInit => LegacyInv
  BY InitLegacy
<1>2. LegacyInv /\ [LegacyNext]_legacyVars => LegacyInv'
  <2> SUFFICES ASSUME LegacyInv, [LegacyNext]_legacyVars PROVE LegacyInv'
    OBVIOUS
  <2> USE DEF LegacyInv
  <2>1. LegacyTypeOK' /\ SidInv' /\ JoinInv'
    BY KeepsSessions
  <2>2. PortsAreApart'
    BY KeepsPorts
  <2>3. MessageInv'
    BY <2>1, ChannelKeepsMessages, ControlKeepsMessages
  <2> QED
    BY <2>1, <2>2, <2>3
<1> QED
  BY <1>1, <1>2, PTL DEF LegacySpec

(* The prototype's variables keep their types; no channel holds more than  *)
(* its buffer, no hub more than one message (channelHub.go).               *)
THEOREM LegacyTypeCorrect == LegacySpec => []LegacyTypeOK
BY LegacyInvariant, PTL DEF LegacyInv

(* No session is given a port that is taken, however registrations,        *)
(* sessions and authentications interleave (hub.go, channels.go).          *)
THEOREM PortsAreApartCorrect == LegacySpec => []PortsAreApart
BY LegacyInvariant, PTL DEF LegacyInv

(* A message is written to one socket, once; and in order, if its sender   *)
(* is the only one of its kind on the channelIO (channelHub.go).           *)
THEOREM OnceAndInOrderCorrect == LegacySpec => []OnceAndInOrder
<1>1. ASSUME LegacyInv PROVE OnceAndInOrder
  <2>1. /\ LegacyTypeOK /\ WhereInv /\ OnceInv /\ OrderInv /\ got \in [Socket -> Seq(Message)]
    BY <1>1 DEF LegacyInv, MessageInv, LegacyTypeOK, ChannelTypeOK
  <2>2. \A x \in Socket : G(x) \in Place /\ At(G(x)) = got[x] /\ G(x)[1] = "got"
    BY PlaceIs DEF G
  <2>3. \A x \in Socket : \A i \in 1..Len(got[x]) :
           got[x][i][2] > 0 /\ got[x][i] \in Message /\ got[x][i][1] \in Socket
    <3> SUFFICES ASSUME NEW x \in Socket, NEW i \in 1..Len(got[x])
                 PROVE  got[x][i][2] > 0 /\ got[x][i] \in Message /\ got[x][i][1] \in Socket
      OBVIOUS
    <3>1. Fits(G(x), got[x][i])
      BY <2>1, <2>2 DEF WhereInv
    <3>2. got[x][i] \in Message
      BY <2>1, <2>2, AtIs
    <3> QED
      BY <2>2, <3>1, <3>2, MessageIs DEF Fits
  <2>4. ASSUME NEW x \in Socket, NEW y \in Socket, NEW i \in 1..Len(got[x]),
               NEW j \in 1..Len(got[y]), got[x][i] = got[y][j]
        PROVE  x = y /\ i = j
    <3>1. G(x) = G(y) /\ i = j
      BY <2>1, <2>2, <2>3, <2>4 DEF OnceInv
    <3> QED
      BY <3>1 DEF G
  <2>5. \A x \in Socket : DOMAIN got[x] = 1..Len(got[x])
    BY <2>1
  <2>6. \A x, y \in Socket : x # y => ToSet(got[x]) \cap ToSet(got[y]) = {}
    BY <2>4, <2>5 DEF ToSet
  <2>7. \A x \in Socket : IsInjective(got[x])
    BY <2>4, <2>5 DEF IsInjective
  <2>8. ASSUME NEW x \in Socket, NEW i \in 1..Len(got[x]), NEW j \in 1..Len(got[x]), i < j,
               got[x][i][1] = got[x][j][1], Fellows(got[x][i][1]) = {got[x][i][1]}
        PROVE  got[x][i][2] < got[x][j][2]
    <3>1. Sole(got[x][i][1])
      BY <2>8 DEF Sole
    <3> QED
      BY <2>1, <2>2, <2>3, <2>8, <3>1 DEF OrderInv
  <2> QED
    BY <2>6, <2>7, <2>8 DEF OnceAndInOrder
<1> QED
  BY <1>1, LegacyInvariant, PTL

(* A page and a shell exchange messages only within the page's session and *)
(* on its device, unless the page joined another's (channels.go).          *)
THEOREM OwnSessionCorrect == LegacySpec => []OwnSession
<1>1. ASSUME LegacyInv PROVE OwnSession
  <2>0. /\ LegacyTypeOK /\ SidInv /\ JoinInv /\ WhereInv /\ got \in [Socket -> Seq(Message)]
        /\ dial \in [Shell -> [dev : Named, port : Sid0]]
    BY <1>1 DEF LegacyInv, MessageInv, LegacyTypeOK, ChannelTypeOK
  <2> SUFFICES ASSUME NEW c \in Client, NEW h \in Shell, c \notin strayed,
                      (\E m \in ToSet(got[h]) : m[1] = c) \/ (\E m \in ToSet(got[c]) : m[1] = h)
               PROVE  dial[h] = [dev |-> Wants[c], port |-> client[c].sid]
    BY DEF OwnSession
  <2>1. \A x \in Socket : \A m \in ToSet(got[x]) : Fits(G(x), m)
    <3> SUFFICES ASSUME NEW x \in Socket, NEW m \in ToSet(got[x]) PROVE Fits(G(x), m)
      OBVIOUS
    <3>1. G(x) \in Place /\ At(G(x)) = got[x] /\ DOMAIN got[x] = 1..Len(got[x])
      BY <2>0, PlaceIs DEF G
    <3>2. PICK i \in 1..Len(got[x]) : m = got[x][i]
      BY <3>1 DEF ToSet
    <3> QED
      BY <2>0, <3>1, <3>2 DEF WhereInv
  <2>2. sock[c].cio = sock[h].cio /\ sock[c].cio # 0
    BY <2>1, SocketIs DEF Fits, G
  <2>3. sock[c].hub # "none" /\ sock[h].hub # "none"
    BY <2>0, <2>2, SocketIs DEF JoinInv
  <2>4. client[c].sid # 0 /\ dial[h].port = client[c].sid
    BY <2>0, <2>2, <2>3 DEF JoinInv
  <2>5. PortOf(dial[h].port, dial[h].dev)
    BY <2>0, <2>4 DEF JoinInv
  <2>6. PICK e \in Client : client[e] = [at |-> "acked", sid |-> client[c].sid] /\ Wants[e] = dial[h].dev
    BY <2>4, <2>5 DEF PortOf
  <2>7. e = c
    BY <2>0, <2>4, <2>6 DEF SidInv
  <2> QED
    BY <2>0, <2>4, <2>6, <2>7
<1> QED
  BY <1>1, LegacyInvariant, PTL

=============================================================================
