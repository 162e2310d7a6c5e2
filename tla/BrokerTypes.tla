---------------------------- MODULE BrokerTypes -----------------------------
(***************************************************************************)
(* Type correctness of the broker, handler by handler, for every set of    *)
(* devices, connections and terminals, every window and every bound. What  *)
(* the peers do to the link is up to the modules that extend this one.     *)
(***************************************************************************)
EXTENDS Broker, TLAPS

(* What each phase of a handler knows of its local variables: agentWS has  *)
(* its device once registered and the right kind of frame in hand when it  *)
(* delivers or hangs up; connectWS has the path's device, an agent and the *)
(* bytes it read when it uses them.                                        *)
Phases ==
    /\ \A c \in Conn :
         /\ apc[c] \in {"check", "deny", "attach", "remove"} \cup Attached => adev[c] \in Device
         /\ apc[c] = "write" => held[c] \in [type : {"out"}, sess : Session, data : Chunk]
         /\ apc[c] = "hangup" => held[c] \in [type : {"close"}, sess : Session]
    /\ \A s \in Session :
         /\ cpc[s] = "lookup" => cdev[s] \in Device
         /\ cpc[s] \in {"upgrade"} \cup Bridged => cac[s] \in Conn
         /\ cpc[s] = "input" => cbuf[s] \in Chunk

(* The types, and what makes them inductive.                               *)
TInv == WireTypeOK /\ BrokerTypeOK /\ Phases

-----------------------------------------------------------------------------
(* The queues: taking the head and appending keep their types.             *)
LEMMA HeadTail ==
    ASSUME NEW S, NEW q \in Seq(S), q # <<>>
    PROVE  Head(q) \in S /\ Tail(q) \in Seq(S)
OBVIOUS

LEMMA AppendType ==
    ASSUME NEW S, NEW q \in Seq(S), NEW e \in S
    PROVE  Append(q, e) \in Seq(S)
OBVIOUS

(* Updating one entry of a function keeps its type.                        *)
LEMMA UpdateType ==
    ASSUME NEW D, NEW R, NEW f \in [D -> R], NEW x, NEW e \in R
    PROVE  [f EXCEPT ![x] = e] \in [D -> R]
OBVIOUS

(* Every frame the broker sends is one.                                    *)
LEMMA FrameTypes ==
    /\ Registered \in BrokerFrame /\ Error \in BrokerFrame
    /\ \A s \in Session : Open(s) \in BrokerFrame /\ Close(s) \in BrokerFrame
    /\ \A s \in Session, k \in Chunk : Input(s, k) \in BrokerFrame
BY DEF Registered, Error, Open, Close, Input, BrokerFrame

(* What a frame from an agent has.                                         *)
LEMMA FrameKinds ==
    ASSUME NEW f \in AgentFrame
    PROVE  /\ f.type = "register" => f.dev \in Device
           /\ f.type = "out" => f \in [type : {"out"}, sess : Session, data : Chunk]
           /\ f.type = "close" => f \in [type : {"close"}, sess : Session]
           /\ f.type \in {"register", "out", "close"}
BY DEF AgentFrame

(* Sending one keeps the type of the queues.                               *)
LEMMA SendType ==
    ASSUME WireTypeOK, NEW c \in Conn, NEW f \in BrokerFrame,
           SendOK(c, f) \/ SendErr(c)
    PROVE  toAgent' \in [Conn -> Seq(BrokerFrame)]
<1>1. toAgent[c] \in Seq(BrokerFrame)
  BY DEF WireTypeOK
<1>2. Append(toAgent[c], f) \in Seq(BrokerFrame)
  BY <1>1, AppendType
<1>3. toAgent \in [Conn -> Seq(BrokerFrame)]
  BY DEF WireTypeOK
<1>4. [toAgent EXCEPT ![c] = Append(toAgent[c], f)] \in [Conn -> Seq(BrokerFrame)]
  BY <1>2, <1>3, UpdateType
<1> QED
  BY <1>3, <1>4 DEF SendOK, SendErr

(* Nobody is attached, nobody connected.                                   *)
LEMMA InitTypes == WireInit /\ BrokerInit => TInv
<1> SUFFICES ASSUME WireInit, BrokerInit PROVE TInv
  OBVIOUS
<1>1. WireTypeOK
  BY DEF WireInit, WireTypeOK, LinkState
<1>2. 0 \in 0..MaxTyped
  BY TypedBound, ChunkNat
<1>3. BrokerTypeOK
  BY <1>2 DEF BrokerInit, BrokerTypeOK, AgentPC, TermPC, SocketState
<1>4. Phases
  BY DEF BrokerInit, Phases, Attached, Serving, Bridged
<1> QED
  BY <1>1, <1>3, <1>4 DEF TInv

-----------------------------------------------------------------------------
(* A handler of an agent connection keeps the types and what the phases    *)
(* know.                                                                   *)
LEMMA AgentWSTypes ==
    ASSUME TInv, NEW c \in Conn, Accept(c) \/ AgentWS(c)
    PROVE  TInv'
<1> USE DEF TInv, WireTypeOK, BrokerTypeOK, Phases, LinkState, AgentPC, TermPC,
            SocketState, Attached, Serving, Bridged, GoAgent, GoTerm,
            wireVars, agentSide, termSide, webVars, tables, brokerVars
<1>1. CASE Accept(c)
  BY <1>1 DEF Accept
<1>2. CASE ReadRegister(c)
  BY <1>2, HeadTail, FrameKinds DEF ReadRegister, Readable
<1>3. CASE ReadRegisterFails(c)
  <2>1. toBroker[c] # <<>> => Tail(toBroker[c]) \in Seq(AgentFrame)
    BY HeadTail
  <2>2. \/ UNCHANGED toBroker
        \/ /\ toBroker[c] # <<>>
           /\ toBroker' = [toBroker EXCEPT ![c] = Tail(toBroker[c])]
    BY <1>3 DEF ReadRegisterFails, Readable
  <2>3. toBroker' \in [Conn -> Seq(AgentFrame)]
    BY <2>1, <2>2
  <2> QED
    BY <1>3, <2>3 DEF ReadRegisterFails
<1>4. CASE CheckAgentToken(c)
  BY <1>4 DEF CheckAgentToken
<1>5. CASE Deny(c)
  <2>1. toAgent' \in [Conn -> Seq(BrokerFrame)]
    BY <1>5, SendType, FrameTypes DEF Deny
  <2> QED
    BY <1>5, <2>1 DEF Deny
<1>6. CASE Attach(c)
  BY <1>6 DEF Attach
<1>7. CASE RegAdd(c)
  BY <1>7 DEF RegAdd, RegistryAdd
<1>8. CASE SendRegistered(c)
  <2>1. toAgent' \in [Conn -> Seq(BrokerFrame)]
    BY <1>8, SendType, FrameTypes DEF SendRegistered
  <2> QED
    BY <1>8, <2>1 DEF SendRegistered
<1>9. CASE ServeOutput(c)
  <2> DEFINE m == Head(toBroker[c])
  <2>1. /\ m \in AgentFrame
        /\ toBroker' \in [Conn -> Seq(AgentFrame)]
    BY <1>9, HeadTail DEF ServeOutput, Readable
  <2>2. m \in [type : {"out"}, sess : Session, data : Chunk]
    BY <1>9, <2>1, FrameKinds DEF ServeOutput
  <2> HIDE DEF m
  <2>3. \/ apc' = [apc EXCEPT ![c] = "write"] /\ held' = [held EXCEPT ![c] = m]
        \/ UNCHANGED <<apc, held>>
    BY <1>9 DEF ServeOutput, m
  <2>4. apc[c] = "serve" /\ UNCHANGED <<link, toAgent, adev, tables, termSide, webVars>>
    BY <1>9 DEF ServeOutput
  <2>5. held' \in [Conn -> AgentFrame \cup {None}] /\ apc' \in [Conn -> AgentPC]
    <3>1. [held EXCEPT ![c] = m] \in [Conn -> AgentFrame \cup {None}]
      BY <2>1, UpdateType
    <3>2. [apc EXCEPT ![c] = "write"] \in [Conn -> AgentPC]
      BY UpdateType
    <3> QED
      BY <2>3, <3>1, <3>2
  <2>6. Phases'
    BY <2>2, <2>3, <2>4
  <2> QED
    BY <2>1, <2>4, <2>5, <2>6
<1>10. CASE WriteBrowser(c)
  <2> DEFINE s == held[c].sess
  <2>1. s \in Session /\ held[c].data \in Chunk
    BY <1>10 DEF WriteBrowser
  <2> HIDE DEF s
  <2>2. Append(toBrowser[s], held[c].data) \in Seq(Chunk)
    BY <2>1, AppendType
  <2>3. toBrowser' \in [Session -> Seq(Chunk)]
    BY <1>10, <2>2 DEF WriteBrowser, s
  <2> QED
    BY <1>10, <2>3 DEF WriteBrowser
<1>11. CASE ServeClose(c)
  <2> DEFINE m == Head(toBroker[c])
  <2>1. /\ m \in AgentFrame
        /\ toBroker' \in [Conn -> Seq(AgentFrame)]
    BY <1>11, HeadTail DEF ServeClose, Readable
  <2>2. m \in [type : {"close"}, sess : Session]
    BY <1>11, <2>1, FrameKinds DEF ServeClose
  <2> HIDE DEF m
  <2>3. /\ \/ apc' = [apc EXCEPT ![c] = "hangup"] /\ held' = [held EXCEPT ![c] = m]
           \/ UNCHANGED <<apc, held>>
        /\ sessions' = [sessions EXCEPT ![m.sess] = None]
    BY <1>11 DEF ServeClose, m
  <2>4. apc[c] = "serve" /\ UNCHANGED <<link, toAgent, agents, devices, adev, termSide, webVars>>
    BY <1>11 DEF ServeClose
  <2>5. /\ held' \in [Conn -> AgentFrame \cup {None}] /\ apc' \in [Conn -> AgentPC]
        /\ sessions' \in [Session -> Conn \cup {None}]
    <3>1. [held EXCEPT ![c] = m] \in [Conn -> AgentFrame \cup {None}]
      BY <2>1, UpdateType
    <3>2. [apc EXCEPT ![c] = "hangup"] \in [Conn -> AgentPC]
      BY UpdateType
    <3> QED
      BY <2>3, <3>1, <3>2
  <2>6. Phases'
    BY <2>2, <2>3, <2>4
  <2> QED
    BY <2>1, <2>4, <2>5, <2>6
<1>12. CASE HangUp(c)
  BY <1>12 DEF HangUp
<1>13. CASE ServeIgnored(c)
  BY <1>13, HeadTail DEF ServeIgnored, Readable
<1>14. CASE ServeErr(c)
  BY <1>14 DEF ServeErr
<1>15. CASE Detach(c)
  BY <1>15 DEF Detach
<1>16. CASE RegRemove(c)
  BY <1>16 DEF RegRemove, RegistryRemove
<1> QED
  BY <1>1, <1>2, <1>3, <1>4, <1>5, <1>6, <1>7, <1>8, <1>9, <1>10, <1>11,
     <1>12, <1>13, <1>14, <1>15, <1>16 DEF AgentWS

(* So does a handler of a terminal.                                        *)
LEMMA ConnectWSTypes ==
    ASSUME TInv, NEW s \in Session, ConnectWS(s)
    PROVE  TInv'
<1> USE DEF TInv, WireTypeOK, BrokerTypeOK, Phases, LinkState, AgentPC, TermPC,
            SocketState, Attached, Serving, Bridged, GoAgent, GoTerm,
            wireVars, agentSide, termSide, webVars, tables, brokerVars
<1>1. CASE Lookup(s)
  BY <1>1 DEF Lookup
<1>2. CASE UpgradeFails(s)
  BY <1>2 DEF UpgradeFails
<1>3. CASE Publish(s)
  BY <1>3 DEF Publish
<1>4. CASE SendOpen(s)
  <2>1. toAgent' \in [Conn -> Seq(BrokerFrame)]
    BY <1>4, SendType, FrameTypes DEF SendOpen
  <2>2. cpc' = [cpc EXCEPT ![s] = "read"] \/ cpc' = [cpc EXCEPT ![s] = "end"]
    BY <1>4 DEF SendOpen
  <2>3. /\ UNCHANGED <<link, toBroker, tables, agentSide, cdev, cac, cbuf, webVars>>
        /\ cpc[s] = "open"
    BY <1>4 DEF SendOpen
  <2>4. cpc' \in [Session -> TermPC]
    <3>1. CASE cpc' = [cpc EXCEPT ![s] = "read"]
      BY <3>1
    <3>2. CASE cpc' = [cpc EXCEPT ![s] = "end"]
      BY <3>2
    <3> QED
      BY <2>2, <3>1, <3>2
  <2>5. Phases'
    BY <2>2, <2>3
  <2> QED
    BY <2>1, <2>3, <2>4, <2>5
<1>5. CASE ReadBrowser(s)
  BY <1>5, HeadTail DEF ReadBrowser, Readable
<1>6. CASE ReadBrowserErr(s)
  BY <1>6 DEF ReadBrowserErr
<1>7. CASE SendInput(s)
  <2>1. toAgent' \in [Conn -> Seq(BrokerFrame)]
    BY <1>7, SendType, FrameTypes DEF SendInput
  <2> QED
    <3>1. cpc' = [cpc EXCEPT ![s] = "read"] \/ cpc' = [cpc EXCEPT ![s] = "bye"]
      BY <1>7 DEF SendInput
    <3>2. /\ cbuf' = [cbuf EXCEPT ![s] = None]
          /\ UNCHANGED <<link, toBroker, tables, agentSide, cdev, cac, webVars>>
          /\ cpc[s] = "input"
      BY <1>7 DEF SendInput
    <3>3. cpc' \in [Session -> TermPC] /\ cbuf' \in [Session -> Chunk \cup {None}]
      BY <3>1, <3>2
    <3>4. Phases'
      BY <3>1, <3>2
    <3> QED
      BY <2>1, <3>2, <3>3, <3>4
<1>8. CASE SendClose(s)
  <2>1. toAgent' \in [Conn -> Seq(BrokerFrame)]
    BY <1>8, SendType, FrameTypes DEF SendClose
  <2>2. /\ cpc' = [cpc EXCEPT ![s] = "end"]
        /\ UNCHANGED <<link, toBroker, tables, agentSide, cdev, cac, cbuf, webVars>>
        /\ cpc[s] = "bye"
    BY <1>8 DEF SendClose
  <2>3. cpc' \in [Session -> TermPC]
    BY <2>2
  <2>4. Phases'
    BY <2>2
  <2> QED
    BY <2>1, <2>2, <2>3, <2>4
<1>9. CASE CloseSession(s)
  BY <1>9 DEF CloseSession
<1>10. CASE CloseBrowser(s)
  BY <1>10 DEF CloseBrowser
<1> QED
  BY <1>1, <1>2, <1>3, <1>4, <1>5, <1>6, <1>7, <1>8, <1>9, <1>10 DEF ConnectWS

(* So does the check of the user that comes before it.                     *)
LEMMA CheckUserTypes ==
    ASSUME TInv, NEW s \in Session,
           Unauthorized(s) \/ \E d \in Device : Authorized(s, d)
    PROVE  TInv'
<1> USE DEF TInv, WireTypeOK, BrokerTypeOK, Phases, TermPC, Attached, Serving, Bridged,
            GoTerm, wireVars, agentSide, webVars, tables
<1>1. CASE Unauthorized(s)
  BY <1>1 DEF Unauthorized
<1>2. ASSUME NEW d \in Device, Authorized(s, d) PROVE TInv'
  BY <1>2 DEF Authorized
<1> QED
  BY <1>1, <1>2

(* So does the page.                                                       *)
LEMMA BrowserTypes ==
    ASSUME TInv, NEW s \in Session, Browser(s)
    PROVE  TInv'
<1> USE DEF TInv, WireTypeOK, BrokerTypeOK, Phases, LinkState, AgentPC, TermPC,
            SocketState, Attached, Serving, Bridged, GoAgent, GoTerm,
            wireVars, agentSide, termSide, webVars, tables, brokerVars
<1>1. CASE BrowserType(s)
  <2>1. typed[s] + 1 \in 0..MaxTyped /\ typed[s] + 1 \in Chunk
    BY <1>1, TypedBound, ChunkNat DEF BrowserType, Chunk
  <2>2. Append(fromBrowser[s], typed[s] + 1) \in Seq(Chunk)
    BY <2>1, AppendType
  <2> QED
    BY <1>1, <2>1, <2>2 DEF BrowserType
<1>2. CASE BrowserShow(s)
  BY <1>2, HeadTail DEF BrowserShow, Readable
<1>3. CASE BrowserLeave(s)
  BY <1>3 DEF BrowserLeave
<1> QED
  BY <1>1, <1>2, <1>3 DEF Browser

=============================================================================
