-------------------------------- MODULE Wire --------------------------------
(***************************************************************************)
(* The wire between the broker and its peers: the frames of                *)
(* internal/protocol, the encrypted control session each agent attachment  *)
(* runs over (internal/secure on internal/transport, one WebSocket), and   *)
(* the link's life.                                                        *)
(*                                                                         *)
(* A Conn is one dial of an agent: one WebSocket, one Noise session, one   *)
(* invocation of agentWS at the broker and one of agent.Run at the device. *)
(* A Session is one terminal: one browser WebSocket, one invocation of     *)
(* connectWS and the fresh id newID() gives it.                            *)
(***************************************************************************)
EXTENDS Naturals, Sequences

CONSTANTS
    Device,    \* device ids (cloud_id.device_id)
    Conn,      \* agent connections, each used once
    Session,   \* terminals, each used once
    None,      \* Go's nil
    Window,    \* frames a link or a browser socket buffers before a write blocks
    MaxChunk   \* bound: chunks of terminal bytes a shell prints

ASSUME ConnNone == None \notin Conn
ASSUME WindowPos == Window \in Nat \ {0}
ASSUME ChunkNat == MaxChunk \in Nat

VARIABLES
    link,      \* [Conn -> LinkState]
    toAgent,   \* [Conn -> Seq(Frame)]: written by the broker, not yet read
    toBroker   \* [Conn -> Seq(Frame)]: written by the agent, not yet read

wireVars == <<link, toAgent, toBroker>>

(* "closed": the broker closed its end. "lost": the agent's end, or the    *)
(* network between them, is gone.                                          *)
LinkState == {"none", "up", "closed", "lost"}

Chunk == 1..MaxChunk

(***************************************************************************)
(* protocol.Msg, one constructor per type that is sent. "resize" is        *)
(* declared in protocol.go and neither sent nor handled.                   *)
(***************************************************************************)
Register(d)   == [type |-> "register", dev |-> d]
Registered    == [type |-> "registered"]
Error         == [type |-> "error"]
Open(s)       == [type |-> "open", sess |-> s]
Input(s, k)   == [type |-> "in", sess |-> s, data |-> k]
Output(s, k)  == [type |-> "out", sess |-> s, data |-> k]
Close(s)      == [type |-> "close", sess |-> s]

AgentFrame ==    \* agent -> broker
    [type : {"register"}, dev : Device]
      \cup [type : {"out"}, sess : Session, data : Chunk]
      \cup [type : {"close"}, sess : Session]

BrokerFrame ==   \* broker -> agent
    [type : {"registered", "error"}]
      \cup [type : {"open", "close"}, sess : Session]
      \cup [type : {"in"}, sess : Session, data : Chunk]

WireTypeOK ==
    /\ link \in [Conn -> LinkState]
    /\ toAgent \in [Conn -> Seq(BrokerFrame)]
    /\ toBroker \in [Conn -> Seq(AgentFrame)]

WireInit ==
    /\ link = [c \in Conn |-> "none"]
    /\ toAgent = [c \in Conn |-> <<>>]
    /\ toBroker = [c \in Conn |-> <<>>]

(***************************************************************************)
(* Session.Write at the broker's end. A write to a link that is up is      *)
(* delivered in order and blocks while the window is full. A write to a    *)
(* dead link may still be swallowed by the kernel (SendOK) or fail; after  *)
(* the broker's own Close it always fails. Encrypt and WriteMsg are one    *)
(* step because every sender holds the session's write mutex across both.  *)
(***************************************************************************)
SendOK(c, f) ==
    \/ /\ link[c] = "up"
       /\ Len(toAgent[c]) < Window
       /\ toAgent' = [toAgent EXCEPT ![c] = Append(@, f)]
    \/ /\ link[c] = "lost"
       /\ UNCHANGED toAgent

SendErr(c) ==
    /\ link[c] \in {"closed", "lost"}
    /\ UNCHANGED toAgent

(* Session.Write at the agent's end: any end of the link may fail it.      *)
WriteOK(c, f) ==
    \/ /\ link[c] = "up"
       /\ Len(toBroker[c]) < Window
       /\ toBroker' = [toBroker EXCEPT ![c] = Append(@, f)]
    \/ /\ link[c] \in {"closed", "lost"}
       /\ UNCHANGED toBroker

WriteErr(c) ==
    /\ link[c] \in {"closed", "lost"}
    /\ UNCHANGED toBroker

(***************************************************************************)
(* Session.Read. Frames buffered before the link died can still be read,   *)
(* or be discarded with it: a reader of a dead link gets the next frame or *)
(* an error.                                                               *)
(***************************************************************************)
Readable(queue) == queue # <<>>

ReadFails(c) == link[c] \in {"closed", "lost"}

(* The network between the two ends fails, or one host vanishes.           *)
LinkLost(c) ==
    /\ link[c] = "up"
    /\ link' = [link EXCEPT ![c] = "lost"]
    /\ UNCHANGED <<toAgent, toBroker>>

=============================================================================
