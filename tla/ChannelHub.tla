----------------------------- MODULE ChannelHub -----------------------------
(***************************************************************************)
(* The data path of the legacy broker (_legacy/broker/channels.go and      *)
(* channelHub.go). A channelIO has four Go channels; every socket that     *)
(* joins it, a browser page or an agent's shell, gets a handler that reads *)
(* the socket and a hub goroutine of its own, and all hubs of a channelIO  *)
(* share the four channels:                                                *)
(*                                                                         *)
(*   page  -> cout     -- hub of a page  --> incoming -> hub of a shell    *)
(*   shell -> outgoing -- hub of a shell --> cin      -> hub of a page     *)
(*                                                                         *)
(* wsChannelHubHandler with runCommon and handlerAdminSecureChannel with   *)
(* run differ in the channels they use and in what a failed read does.     *)
(***************************************************************************)
EXTENDS Naturals, Sequences, SequencesExt, FiniteSets

CONSTANTS
    Client,    \* browsers, each with a control socket and a page
    Shell,     \* sockets an agent opens, each with a shell behind it
    Capacity,  \* buffer of each channel of a channelIO (1)
    MaxSid,    \* bound: channelIOs, one per session
    MaxRead    \* bound: messages read from each socket, empty ones included

Socket == Client \cup Shell

ASSUME SocketKinds == Client \cap Shell = {}
ASSUME ChannelBounds ==
    Capacity \in Nat \ {0} /\ MaxSid \in Nat /\ MaxRead \in [Socket -> Nat]

VARIABLES
    broker,  \* the process: up, or why it ended
    queue,   \* the channels of each channelIO
    sock,    \* the sockets: channelIO, hub, whether it is up, hub's message
    sent,    \* messages read from each socket: the bounds' counter
    got,     \* messages written to each
    lost     \* messages a hub could not write

channelVars == <<broker, queue, sock, sent, got, lost>>

Cio == 1..MaxSid
Chan == {"cout", "incoming", "outgoing", "cin"}

(* A message names its sender and its number; number 0 is the empty one    *)
(* that a failed read of a page leaves.                                    *)
Message == UNION {{x} \X (0..MaxRead[x]) : x \in Socket}
Hub == {"none", "new", "set"}
SocketT == [cio : 0..MaxSid, hub : Hub, up : BOOLEAN, hand : Seq(Message)]
Apart == [cio |-> 0, hub |-> "none", up |-> FALSE, hand |-> <<>>]

(* Types, and that no channel holds more than its buffer and no hub more   *)
(* than one message.                                                       *)
ChannelTypeOK ==
    /\ queue \in [Cio -> [Chan -> Seq(Message)]]
    /\ \A s \in Cio, k \in Chan : Len(queue[s][k]) <= Capacity
    /\ sock \in [Socket -> SocketT]
    /\ \A x \in Socket : Len(sock[x].hand) <= 1
    /\ sent \in [Socket -> Nat]
    /\ got \in [Socket -> Seq(Message)] /\ lost \subseteq Message

ChannelInit ==
    /\ broker = "up"
    /\ queue = [s \in Cio |-> [k \in Chan |-> <<>>]]
    /\ sock = [x \in Socket |-> Apart]
    /\ sent = [x \in Socket |-> 0]
    /\ got = [x \in Socket |-> <<>>] /\ lost = {}

(* newChannelHub: the channels a socket's handler fills and its hub        *)
(* empties into, and the one its hub writes to the socket from.            *)
From(x) == IF x \in Client THEN "cout" ELSE "outgoing"
Into(x) == IF x \in Client THEN "incoming" ELSE "cin"
For(x) == IF x \in Client THEN "cin" ELSE "incoming"

Chans(x) == queue[sock[x].cio]
Joined(x) == broker = "up" /\ sock[x].hub \in {"new", "set"} /\ sock[x].cio # 0
Room(x, k) == Len(Chans(x)[k]) < Capacity
Put(x, k, m) == queue' = [queue EXCEPT ![sock[x].cio][k] = Append(@, m)]
Take(x, k) == queue' = [queue EXCEPT ![sock[x].cio][k] = Tail(@)]

(* The upgrade, newChannelHub and the start of the hub. Without a          *)
(* channelIO the channels are nil and the hub never gets or passes on      *)
(* anything.                                                               *)
Join(x, s) ==
    sock' = [sock EXCEPT ![x] = [cio |-> s, hub |-> "new", up |-> TRUE, hand |-> <<>>]]

(* The hub takes the connection from newConnection. It may take messages   *)
(* first: select chooses among what is ready.                              *)
NewConnection(x) ==
    /\ Joined(x) /\ sock[x].hub = "new"
    /\ sock' = [sock EXCEPT ![x].hub = "set"]
    /\ UNCHANGED <<broker, queue, sent, got, lost>>

(* The handler reads a message and hands it to the hub.                    *)
ReadMessage(x) ==
    /\ Joined(x) /\ sock[x].up /\ sent[x] < MaxRead[x] /\ Room(x, From(x))
    /\ sent' = [sent EXCEPT ![x] = @ + 1]
    /\ Put(x, From(x), <<x, sent'[x]>>)
    /\ UNCHANGED <<broker, sock, got, lost>>

(* The page's handler ignores the error of a read and hands on an empty    *)
(* message, again and again until the library panics and the handler ends. *)
(* The shell's handler returns at once. The hubs stay.                     *)
ReadFails(c) ==
    /\ Joined(c) /\ ~sock[c].up /\ sent[c] < MaxRead[c] /\ Room(c, "cout")
    /\ sent' = [sent EXCEPT ![c] = @ + 1]
    /\ Put(c, "cout", <<c, 0>>)
    /\ UNCHANGED <<broker, sock, got, lost>>

(* A mutant: the hub starts a goroutine per message instead of waiting.    *)
ForwardEager(x) ==
    /\ Joined(x) /\ Chans(x)[From(x)] # <<>>
    /\ sock' = [sock EXCEPT ![x].hand = <<Head(Chans(x)[From(x)])>> \o @]
    /\ Take(x, From(x))
    /\ UNCHANGED <<broker, sent, got, lost>>

(* The hub takes a message that was read ...                               *)
Forward(x) ==
    /\ Joined(x) /\ sock[x].hand = <<>> /\ Chans(x)[From(x)] # <<>>
    /\ sock' = [sock EXCEPT ![x].hand = <<Head(Chans(x)[From(x)])>>]
    /\ Take(x, From(x))
    /\ UNCHANGED <<broker, sent, got, lost>>

(* A mutant: the channel to the other side is unbounded.                   *)
PassOnUnbounded(x) ==
    /\ Joined(x) /\ sock[x].hand # <<>>
    /\ Put(x, Into(x), Head(sock[x].hand))
    /\ sock' = [sock EXCEPT ![x].hand = Tail(@)]
    /\ UNCHANGED <<broker, sent, got, lost>>

(* ... and waits until it can pass it to the other side.                   *)
PassOn(x) ==
    /\ Joined(x) /\ sock[x].hand # <<>> /\ Room(x, Into(x))
    /\ Put(x, Into(x), Head(sock[x].hand))
    /\ sock' = [sock EXCEPT ![x].hand = Tail(@)]
    /\ UNCHANGED <<broker, sent, got, lost>>

(* A mutant: after a failed write the hub's loop ends.                     *)
WriteMessageEnds(x) ==
    /\ Joined(x) /\ sock[x].hand = <<>> /\ Chans(x)[For(x)] # <<>>
    /\ LET m == Head(Chans(x)[For(x)]) IN
       /\ Take(x, For(x))
       /\ IF sock[x].up
            THEN got' = [got EXCEPT ![x] = Append(@, m)] /\ UNCHANGED <<sock, lost>>
            ELSE lost' = lost \cup {m} /\ sock' = [sock EXCEPT ![x].hub = "none"] /\ UNCHANGED got
    /\ UNCHANGED <<broker, sent>>

(* The hub takes a message from the other side and writes it. The client   *)
(* is nil before the connection was taken: the broker ends. An error is    *)
(* logged, and break leaves the select only.                               *)
WriteMessage(x) ==
    /\ Joined(x) /\ sock[x].hand = <<>> /\ Chans(x)[For(x)] # <<>>
    /\ Take(x, For(x))
    /\ LET m == Head(Chans(x)[For(x)]) IN
       CASE sock[x].hub = "new" -> broker' = "nilClient" /\ UNCHANGED <<got, lost>>
         [] sock[x].hub = "set" /\ m[2] = 0 -> UNCHANGED <<broker, got, lost>>
         [] sock[x].hub = "set" /\ m[2] > 0 /\ sock[x].up ->
              got' = [got EXCEPT ![x] = Append(@, m)] /\ UNCHANGED <<broker, lost>>
         [] sock[x].hub = "set" /\ m[2] > 0 /\ ~sock[x].up ->
              lost' = lost \cup {m} /\ UNCHANGED <<broker, got>>
    /\ UNCHANGED <<sock, sent>>

(* A page is closed, or its connection fails.                              *)
PageLeaves(c) ==
    /\ broker = "up" /\ sock[c].up
    /\ sock' = [sock EXCEPT ![c].up = FALSE]
    /\ UNCHANGED <<broker, queue, sent, got, lost>>

HubStep(x) ==
    NewConnection(x) \/ ReadMessage(x) \/ Forward(x) \/ PassOn(x) \/ WriteMessage(x)

ChannelStep ==
    \/ \E x \in Socket : HubStep(x)
    \/ \E c \in Client : ReadFails(c) \/ PageLeaves(c)

(* The hubs run, and Go serves the senders that wait on a channel in turn. *)
ChannelFairness ==
    \A x \in Socket : /\ WF_channelVars(NewConnection(x))
                      /\ WF_channelVars(Forward(x)) /\ SF_channelVars(PassOn(x))
                      /\ WF_channelVars(WriteMessage(x))

-----------------------------------------------------------------------------
Fellows(y) ==
    {x \in Socket : sock[x].cio = sock[y].cio /\ (x \in Client <=> y \in Client)}

(* A message reaches one socket, once; and in the order it was sent in as  *)
(* long as the sender is the only one of its kind on the channelIO. An     *)
(* agent's next beacon adds a second shell (beacon.go:22 looks for a       *)
(* session it never records), a second page of the same session a second   *)
(* hub: from then on two hubs share each channel and may overtake.         *)
OnceAndInOrder ==
    /\ \A x, y \in Socket : x # y => ToSet(got[x]) \cap ToSet(got[y]) = {}
    /\ \A x \in Socket :
         /\ IsInjective(got[x])
         /\ \A i, j \in 1..Len(got[x]) :
              /\ i < j /\ got[x][i][1] = got[x][j][1]
              /\ Fellows(got[x][i][1]) = {got[x][i][1]}
              => got[x][i][2] < got[x][j][2]

UnderWay(m) ==
    \/ \E x \in Socket : m \in ToSet(sock[x].hand)
    \/ \E s \in Cio, k \in Chan : m \in ToSet(queue[s][k])

(* While no shell prints, whatever a page has typed is taken by a shell's  *)
(* hub once there is one, even if that shell or the page is gone. (With    *)
(* traffic both ways, two hubs can wait for room in each other's channel   *)
(* for ever.)                                                              *)
OneWayDelivered ==
    [](\A h \in Shell : sent[h] = 0) =>
      \A m \in {k \in Message : k[1] \in Client /\ k[2] > 0} :
        (UnderWay(m) /\ \E h \in Shell : sock[h].hub # "none" /\ sock[h].cio = sock[m[1]].cio)
          ~> (m \in lost \cup UNION {ToSet(got[h]) : h \in Shell} \/ broker # "up")

=============================================================================
