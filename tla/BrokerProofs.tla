---------------------------- MODULE BrokerProofs ----------------------------
(***************************************************************************)
(* The broker against any peers: type correctness; the terminal            *)
(* invariants, that is b.sessions and the browsers' sockets when an        *)
(* agentWS and a connectWS race to close one session; and the attachment   *)
(* invariants, b.agents and the registry under every interleaving of any   *)
(* number of connections racing for a device.                              *)
(***************************************************************************)
EXTENDS BrokerEnv, BrokerTypes

(* Every step keeps the types and what the phases know.                    *)
LEMMA StepTInv ==
    ASSUME TInv, [Next]_vars
    PROVE  TInv'
<1>1. ASSUME NEW c \in Conn, PeerSend(c) \/ PeerRecv(c) \/ PeerLost(c)
      PROVE  TInv'
  <2> USE DEF TInv, WireTypeOK, BrokerTypeOK, Phases, LinkState,
              agentSide, termSide, webVars, tables, brokerVars
  <2>1. CASE PeerSend(c)
    BY <2>1, AppendType DEF PeerSend
  <2>2. CASE PeerRecv(c)
    BY <2>2, HeadTail DEF PeerRecv, Readable
  <2>3. CASE PeerLost(c)
    BY <2>3 DEF PeerLost
  <2> QED
    BY <1>1, <2>1, <2>2, <2>3
<1>2. CASE UNCHANGED vars
  BY <1>2 DEF vars, TInv, WireTypeOK, BrokerTypeOK, Phases, wireVars,
              agentSide, termSide, webVars, tables, brokerVars
<1> QED
  BY <1>1, <1>2, AgentWSTypes, ConnectWSTypes, CheckUserTypes, BrowserTypes
     DEF Next, Quiescent

(* Type correctness of the broker's state under every interleaving.        *)
THEOREM TypeCorrect == Spec => []TypeOK
<1>1. Init => TInv
  BY InitTypes DEF Init
<1>2. TInv /\ [Next]_vars => TInv'
  BY StepTInv
<1>3. TInv => TypeOK
  BY DEF TInv, TypeOK
<1> QED
  BY <1>1, <1>2, <1>3, PTL DEF Spec

-----------------------------------------------------------------------------
SessionInv == TInv /\ NoLeakedSession /\ NoStrandedTerminal

(* s has someone about to close its socket.                                *)
Closing(s) ==
    \/ cpc[s] = "close"
    \/ \E c \in Conn : apc[c] = "hangup" /\ held[c].sess = s

(***************************************************************************)
(* What a step does to sessions and sockets.                               *)
(***************************************************************************)
(* Neither the table, nor a socket, nor a handler that is closing one.     *)
Aside ==
    /\ UNCHANGED <<sessions, ws, cpc, cac>>
    /\ \A c \in Conn : apc[c] = "hangup" => apc'[c] = apc[c] /\ held'[c] = held[c]

LEMMA AgentAside ==
    ASSUME TInv, NEW c \in Conn,
           \/ Accept(c) \/ ReadRegister(c) \/ ReadRegisterFails(c) \/ CheckAgentToken(c)
           \/ Deny(c) \/ Attach(c) \/ RegAdd(c) \/ SendRegistered(c) \/ ServeOutput(c)
           \/ WriteBrowser(c) \/ ServeIgnored(c) \/ ServeErr(c) \/ Detach(c) \/ RegRemove(c)
           \/ PeerSend(c) \/ PeerRecv(c) \/ PeerLost(c)
    PROVE  Aside
<1> USE DEF Aside, TInv, TypeOK, BrokerTypeOK, GoAgent, tables, agentSide, termSide, webVars,
            brokerVars
<1>1. CASE Accept(c) \/ ReadRegister(c) \/ ReadRegisterFails(c) \/ CheckAgentToken(c) \/ Deny(c)
  BY <1>1 DEF Accept, ReadRegister, ReadRegisterFails, CheckAgentToken, Deny
<1>2. CASE Attach(c) \/ RegAdd(c) \/ SendRegistered(c)
  BY <1>2 DEF Attach, RegAdd, RegistryAdd, SendRegistered
<1>3. CASE ServeOutput(c)
  BY <1>3 DEF ServeOutput
<1>4. CASE WriteBrowser(c)
  BY <1>4 DEF WriteBrowser
<1>5. CASE ServeIgnored(c) \/ ServeErr(c) \/ Detach(c) \/ RegRemove(c)
  BY <1>5 DEF ServeIgnored, ServeErr, Detach, RegRemove, RegistryRemove
<1>6. CASE PeerSend(c) \/ PeerRecv(c) \/ PeerLost(c)
  BY <1>6 DEF PeerSend, PeerRecv, PeerLost
<1> QED
  BY <1>1, <1>2, <1>3, <1>4, <1>5, <1>6

(* A connectWS that moves on without touching table or socket.             *)
Moves(s) ==
    /\ \/ cpc[s] \in {"idle", "lookup", "upgrade"} /\ cpc'[s] \in {"lookup", "upgrade", "done"}
       \/ cpc[s] \in Bridged /\ cpc'[s] \in Bridged /\ cac'[s] = cac[s]
    /\ \A t \in Session \ {s} : cpc'[t] = cpc[t] /\ cac'[t] = cac[t]
    /\ UNCHANGED <<sessions, ws, apc, held>>

LEMMA TermMoves ==
    ASSUME TInv, NEW s \in Session,
           \/ Unauthorized(s) \/ (\E d \in Device : Authorized(s, d)) \/ Lookup(s)
           \/ UpgradeFails(s) \/ SendOpen(s) \/ ReadBrowser(s) \/ ReadBrowserErr(s)
           \/ SendInput(s) \/ SendClose(s)
    PROVE  Moves(s)
<1> USE DEF Moves, TInv, TypeOK, BrokerTypeOK, GoTerm, tables, agentSide, webVars, Bridged
<1>1. CASE Unauthorized(s)
  BY <1>1 DEF Unauthorized
<1>2. CASE \E d \in Device : Authorized(s, d)
  BY <1>2 DEF Authorized
<1>3. CASE Lookup(s)
  BY <1>3 DEF Lookup
<1>4. CASE UpgradeFails(s)
  BY <1>4 DEF UpgradeFails
<1>5. CASE SendOpen(s)
  BY <1>5 DEF SendOpen
<1>6. CASE ReadBrowser(s) \/ ReadBrowserErr(s)
  BY <1>6 DEF ReadBrowser, ReadBrowserErr
<1>7. CASE SendInput(s) \/ SendClose(s)
  BY <1>7 DEF SendInput, SendClose
<1> QED
  BY <1>1, <1>2, <1>3, <1>4, <1>5, <1>6, <1>7

LEMMA SessionSteps ==
    ASSUME TInv, [Next]_vars
    PROVE  \/ Aside
           \/ \E s \in Session : Moves(s) \/ Publish(s) \/ CloseSession(s) \/ CloseBrowser(s)
                                   \/ BrowserLeave(s)
           \/ \E c \in Conn : ServeClose(c) \/ HangUp(c)
<1>1. ASSUME NEW c \in Conn,
             Accept(c) \/ AgentWS(c) \/ PeerSend(c) \/ PeerRecv(c) \/ PeerLost(c)
      PROVE  Aside \/ ServeClose(c) \/ HangUp(c)
  BY <1>1, AgentAside DEF AgentWS
<1>2. ASSUME NEW s \in Session,
             ConnectWS(s) \/ Unauthorized(s) \/ \E d \in Device : Authorized(s, d)
      PROVE  Moves(s) \/ Publish(s) \/ CloseSession(s) \/ CloseBrowser(s)
  BY <1>2, TermMoves DEF ConnectWS
<1>3. ASSUME NEW s \in Session, Browser(s)
      PROVE  Aside \/ BrowserLeave(s)
  BY <1>3 DEF Browser, BrowserType, BrowserShow, Aside, tables, agentSide, termSide
<1>4. CASE UNCHANGED vars
  BY <1>4 DEF vars, Aside, brokerVars, tables, agentSide, termSide, webVars
<1> QED
  BY <1>1, <1>2, <1>3, <1>4 DEF Next, Quiescent

-----------------------------------------------------------------------------
LEMMA KeepsNoLeakedSession ==
    ASSUME SessionInv, [Next]_vars
    PROVE  NoLeakedSession'
<1> USE DEF SessionInv, TInv, TypeOK, BrokerTypeOK, NoLeakedSession, Bridged
<1>1. CASE Aside
  BY <1>1 DEF Aside
<1>2. ASSUME NEW s \in Session, Moves(s)
      PROVE  NoLeakedSession'
  BY <1>2 DEF Moves
<1>3. ASSUME NEW s \in Session, Publish(s)
      PROVE  NoLeakedSession'
  BY <1>3 DEF Publish, GoTerm
<1>4. ASSUME NEW s \in Session, CloseSession(s)
      PROVE  NoLeakedSession'
  BY <1>4 DEF CloseSession, GoTerm
<1>5. ASSUME NEW s \in Session, CloseBrowser(s) \/ BrowserLeave(s)
      PROVE  NoLeakedSession'
  BY <1>5 DEF CloseBrowser, BrowserLeave, GoTerm, tables, termSide
<1>6. ASSUME NEW c \in Conn, ServeClose(c) \/ HangUp(c)
      PROVE  NoLeakedSession'
  <2>1. UNCHANGED <<cpc, cac>>
    BY <1>6 DEF ServeClose, HangUp, termSide
  <2>2. \A s \in Session : sessions'[s] = sessions[s] \/ sessions'[s] = None
    BY <1>6 DEF ServeClose, HangUp, tables
  <2> QED
    BY <2>1, <2>2
<1> QED
  BY <1>1, <1>2, <1>3, <1>4, <1>5, <1>6, SessionSteps DEF SessionInv

LEMMA KeepsNoStrandedTerminal ==
    ASSUME SessionInv, [Next]_vars
    PROVE  NoStrandedTerminal'
<1> USE DEF SessionInv, TInv, TypeOK, BrokerTypeOK
<1> SUFFICES ASSUME NEW t \in Session, ws'[t] = "open", sessions'[t] = None
             PROVE  Closing(t)'
  BY DEF NoStrandedTerminal, Closing
<1>0. ws[t] = "open" /\ sessions[t] = None => Closing(t)
  BY DEF NoStrandedTerminal, Closing
<1>1. CASE Aside
  BY <1>0, <1>1 DEF Aside, Closing
<1>2. ASSUME NEW s \in Session, Moves(s)
      PROVE  Closing(t)'
  BY <1>0, <1>2 DEF Moves, Closing, Bridged
<1>3. ASSUME NEW s \in Session, Publish(s)
      PROVE  Closing(t)'
  <2>1. t # s
    BY <1>3, ConnNone DEF Publish, Phases
  <2> QED
    BY <1>0, <1>3, <2>1 DEF Publish, GoTerm, Closing, agentSide
<1>4. ASSUME NEW s \in Session, CloseSession(s)
      PROVE  Closing(t)'
  BY <1>0, <1>4 DEF CloseSession, GoTerm, Closing, agentSide, webVars
<1>5. ASSUME NEW s \in Session, CloseBrowser(s)
      PROVE  Closing(t)'
  BY <1>0, <1>5 DEF CloseBrowser, GoTerm, Closing, agentSide, tables
<1>6. ASSUME NEW s \in Session, BrowserLeave(s)
      PROVE  Closing(t)'
  BY <1>0, <1>6 DEF BrowserLeave, Closing, agentSide, termSide, tables
<1>7. ASSUME NEW c \in Conn, ServeClose(c)
      PROVE  Closing(t)'
  <2> DEFINE m == Head(toBroker[c])
  <2>1. /\ apc[c] = "serve" /\ UNCHANGED <<cpc, ws>>
        /\ sessions' = [sessions EXCEPT ![m.sess] = None]
        /\ IF sessions[m.sess] # None
             THEN apc' = [apc EXCEPT ![c] = "hangup"] /\ held' = [held EXCEPT ![c] = m]
             ELSE UNCHANGED <<apc, held>>
    BY <1>7 DEF ServeClose, GoAgent, termSide, webVars
  <2> HIDE DEF m
  <2>2. CASE sessions[t] = None
    BY <1>0, <2>1, <2>2 DEF Closing
  <2>3. CASE sessions[t] # None
    <3>1. m.sess = t
      BY <2>1, <2>3
    <3> QED
      BY <2>1, <2>3, <3>1 DEF Closing
  <2> QED
    BY <2>2, <2>3
<1>8. ASSUME NEW c \in Conn, HangUp(c)
      PROVE  Closing(t)'
  <2>1. held[c].sess # t
    BY <1>8 DEF HangUp
  <2> QED
    BY <1>0, <1>8, <2>1 DEF HangUp, GoAgent, Closing, tables, termSide
<1> QED
  BY <1>1, <1>2, <1>3, <1>4, <1>5, <1>6, <1>7, <1>8, SessionSteps

LEMMA SessionInvariant == Spec => []SessionInv
<1>1. Init => SessionInv
  BY InitTypes DEF Init, BrokerInit, SessionInv, NoLeakedSession, NoStrandedTerminal
<1>2. SessionInv /\ [Next]_vars => SessionInv'
  BY StepTInv, KeepsNoLeakedSession, KeepsNoStrandedTerminal DEF SessionInv
<1> QED
  BY <1>1, <1>2, PTL DEF Spec

(* b.sessions holds only terminals whose connectWS will still delete them. *)
THEOREM NoLeakedSessionCorrect == Spec => []NoLeakedSession
BY SessionInvariant, PTL DEF SessionInv

(* Whoever deletes a session from b.sessions closes its browser's socket.  *)
THEOREM NoStrandedTerminalCorrect == Spec => []NoStrandedTerminal
BY SessionInvariant, PTL DEF SessionInv

-----------------------------------------------------------------------------
(***************************************************************************)
(* The inductive invariant. AgentsLive, SoleLink, NoGhostDevice and        *)
(* ListedUntilRedial are kept by every step given TInv; DeadOnDetach is    *)
(* what a handler that leaves its loop knows, and is needed for            *)
(* ReachableIsKept alone.                                                  *)
(***************************************************************************)
DeadOnDetach ==
    \A c \in Conn : apc[c] = "detach" => link[c] \in {"closed", "lost"}

AttachInv ==
    TInv /\ AgentsLive /\ SoleLink /\ NoGhostDevice /\ ListedUntilRedial /\ DeadOnDetach

(***************************************************************************)
(* What a step does to the attachments. Before it attaches, a handler      *)
(* touches only itself (Early); between Add and the end of its loop it     *)
(* only moves among the phases of the loop (Loop).                         *)
(***************************************************************************)
Early(c) ==
    /\ apc[c] \in {"idle", "register", "check", "deny"}
    /\ \E p \in {"register", "check", "deny", "attach", "done"} : apc' = [apc EXCEPT ![c] = p]
    /\ \E d \in Device \cup {None} : adev' = [adev EXCEPT ![c] = d]
    /\ \E l \in LinkState : link' = [link EXCEPT ![c] = l]
    /\ UNCHANGED <<agents, devices>>

Loop(c) ==
    /\ apc[c] \in {"ack"} \cup Serving
    /\ \E p \in Serving : apc' = [apc EXCEPT ![c] = p]
    /\ UNCHANGED <<link, agents, devices, adev>>

LEMMA EarlySteps ==
    ASSUME TInv, NEW c \in Conn,
           Accept(c) \/ ReadRegister(c) \/ ReadRegisterFails(c) \/ CheckAgentToken(c) \/ Deny(c)
    PROVE  Early(c)
<1> USE DEF TInv, TypeOK, WireTypeOK, BrokerTypeOK, tables, GoAgent, Early, LinkState
<1>1. CASE Accept(c)
  BY <1>1 DEF Accept
<1>2. CASE ReadRegister(c)
  <2>1. Head(toBroker[c]).dev \in Device
    BY <1>2, HeadTail, FrameKinds DEF ReadRegister, Readable
  <2> QED
    BY <1>2, <2>1 DEF ReadRegister
<1>3. CASE ReadRegisterFails(c)
  <2>1. /\ adev' = [adev EXCEPT ![c] = adev[c]]
        /\ link' = [link EXCEPT ![c] = "closed"]
        /\ apc[c] = "register" /\ apc' = [apc EXCEPT ![c] = "done"]
        /\ UNCHANGED <<agents, devices>>
    BY <1>3 DEF ReadRegisterFails
  <2> QED
    BY <2>1
<1>4. CASE CheckAgentToken(c)
  <2>1. \/ apc' = [apc EXCEPT ![c] = "attach"] \/ apc' = [apc EXCEPT ![c] = "deny"]
    BY <1>4 DEF CheckAgentToken
  <2>2. /\ adev' = [adev EXCEPT ![c] = adev[c]]
        /\ link' = [link EXCEPT ![c] = link[c]]
        /\ apc[c] = "check"
        /\ UNCHANGED <<agents, devices>>
    BY <1>4 DEF CheckAgentToken, wireVars
  <2> QED
    BY <2>1, <2>2
<1>5. CASE Deny(c)
  BY <1>5 DEF Deny
<1> QED
  BY <1>1, <1>2, <1>3, <1>4, <1>5

(* The other handlers see nothing of an Early step.                        *)
LEMMA EarlyLocal ==
    ASSUME TInv, NEW c \in Conn, Early(c)
    PROVE  /\ \A k \in Conn \ {c} : apc'[k] = apc[k] /\ adev'[k] = adev[k] /\ link'[k] = link[k]
           /\ apc[c] \in {"idle", "register", "check", "deny"}
           /\ apc'[c] \in {"register", "check", "deny", "attach", "done"}
           /\ UNCHANGED <<agents, devices>>
BY DEF TInv, TypeOK, WireTypeOK, BrokerTypeOK, Early

LEMMA LoopSteps ==
    ASSUME TInv, NEW c \in Conn,
           \/ SendRegistered(c) \/ ServeOutput(c) \/ WriteBrowser(c) \/ ServeClose(c)
           \/ HangUp(c) \/ ServeIgnored(c)
    PROVE  Loop(c)
<1> USE DEF TInv, TypeOK, BrokerTypeOK, Loop, Serving, GoAgent, tables, wireVars
<1>1. CASE SendRegistered(c)
  BY <1>1 DEF SendRegistered
<1>2. CASE ServeOutput(c)
  <2>1. apc' = [apc EXCEPT ![c] = "write"] \/ apc' = [apc EXCEPT ![c] = "serve"]
    BY <1>2 DEF ServeOutput
  <2> QED
    BY <1>2, <2>1 DEF ServeOutput
<1>3. CASE WriteBrowser(c)
  BY <1>3 DEF WriteBrowser
<1>4. CASE ServeClose(c)
  <2>1. apc' = [apc EXCEPT ![c] = "hangup"] \/ apc' = [apc EXCEPT ![c] = "serve"]
    BY <1>4 DEF ServeClose
  <2> QED
    BY <1>4, <2>1 DEF ServeClose
<1>5. CASE HangUp(c)
  BY <1>5 DEF HangUp
<1>6. CASE ServeIgnored(c)
  <2>1. apc' = [apc EXCEPT ![c] = "serve"]
    BY <1>6 DEF ServeIgnored, agentSide
  <2> QED
    BY <1>6, <2>1 DEF ServeIgnored, agentSide
<1> QED
  BY <1>1, <1>2, <1>3, <1>4, <1>5, <1>6

(* connectWS, the browsers and the peers' traffic leave attachments alone. *)
LEMMA AttachmentSteps ==
    ASSUME TInv, [Next]_vars
    PROVE  \/ \E c \in Conn :
                \/ Early(c) \/ Attach(c) \/ RegAdd(c) \/ Loop(c) \/ ServeErr(c)
                \/ Detach(c) \/ RegRemove(c) \/ PeerLost(c)
           \/ UNCHANGED <<link, agents, devices, apc, adev>>
<1> USE DEF tables, agentSide, wireVars, brokerVars
<1>1. ASSUME NEW c \in Conn, Accept(c) \/ AgentWS(c)
      PROVE  \/ Early(c) \/ Attach(c) \/ RegAdd(c) \/ Loop(c) \/ ServeErr(c)
             \/ Detach(c) \/ RegRemove(c)
  BY <1>1, EarlySteps, LoopSteps DEF AgentWS
<1>2. ASSUME NEW c \in Conn, PeerSend(c) \/ PeerRecv(c)
      PROVE  UNCHANGED <<link, agents, devices, apc, adev>>
  BY <1>2 DEF PeerSend, PeerRecv
<1>3. ASSUME NEW s \in Session, ConnectWS(s)
      PROVE  UNCHANGED <<link, agents, devices, apc, adev>>
  BY <1>3 DEF ConnectWS, Lookup, UpgradeFails, Publish, SendOpen, ReadBrowser,
              ReadBrowserErr, SendInput, SendClose, CloseSession, CloseBrowser
<1>4. ASSUME NEW s \in Session, Unauthorized(s) \/ Browser(s) \/ \E d \in Device : Authorized(s, d)
      PROVE  UNCHANGED <<link, agents, devices, apc, adev>>
  BY <1>4 DEF Unauthorized, Authorized, Browser, BrowserType, BrowserShow, BrowserLeave
<1>5. CASE UNCHANGED vars
  BY <1>5 DEF vars
<1> QED
  BY <1>1, <1>2, <1>3, <1>4, <1>5 DEF Next, Quiescent

-----------------------------------------------------------------------------
(* Each part of the invariant is kept by every step.                       *)
LEMMA KeepsAgentsLive ==
    ASSUME AttachInv, [Next]_vars
    PROVE  AgentsLive'
<1> USE ConnNone DEF AttachInv, TInv, TypeOK, BrokerTypeOK, Phases, AgentsLive, Attached, Serving,
                     GoAgent
<1>1. ASSUME NEW c \in Conn, Early(c)
      PROVE  AgentsLive'
  <2>1. ASSUME NEW d \in Device, agents[d] # None
        PROVE  adev'[agents[d]] = d /\ apc'[agents[d]] \in Attached
    <3>1. agents[d] \in Conn /\ adev[agents[d]] = d /\ apc[agents[d]] \in Attached
      BY <2>1
    <3>2. apc[c] \notin Attached
      BY <1>1, EarlyLocal
    <3>3. agents[d] # c
      BY <3>1, <3>2
    <3> QED
      BY <1>1, <3>1, <3>3, EarlyLocal
  <2>2. UNCHANGED agents
    BY <1>1, EarlyLocal
  <2> QED
    BY <2>1, <2>2
<1>2. ASSUME NEW c \in Conn, Attach(c) \/ RegAdd(c) \/ Loop(c)
      PROVE  AgentsLive'
  <2>1. CASE Attach(c)
    BY <2>1 DEF Attach
  <2>2. CASE RegAdd(c)
    BY <2>2 DEF RegAdd, RegistryAdd
  <2>3. CASE Loop(c)
    BY <2>3 DEF Loop
  <2> QED
    BY <1>2, <2>1, <2>2, <2>3
<1>3. ASSUME NEW c \in Conn, ServeErr(c)
      PROVE  AgentsLive'
  BY <1>3 DEF ServeErr, tables
<1>4. ASSUME NEW c \in Conn, Detach(c)
      PROVE  AgentsLive'
  BY <1>4 DEF Detach
<1>5. ASSUME NEW c \in Conn, RegRemove(c) \/ PeerLost(c)
      PROVE  AgentsLive'
  <2>1. CASE RegRemove(c)
    BY <2>1 DEF RegRemove, RegistryRemove
  <2>2. CASE PeerLost(c)
    BY <2>2 DEF PeerLost, brokerVars, tables, agentSide
  <2> QED
    BY <1>5, <2>1, <2>2
<1>6. CASE UNCHANGED <<link, agents, devices, apc, adev>>
  BY <1>6
<1> QED
  BY <1>1, <1>2, <1>3, <1>4, <1>5, <1>6, AttachmentSteps

LEMMA KeepsSoleLink ==
    ASSUME AttachInv, [Next]_vars
    PROVE  SoleLink'
<1> USE ConnNone DEF AttachInv, TInv, TypeOK, WireTypeOK, BrokerTypeOK, Phases, AgentsLive,
                     SoleLink, Attached, Serving, GoAgent
<1>1. ASSUME NEW c \in Conn, Early(c)
      PROVE  SoleLink'
  BY <1>1, EarlyLocal
<1>2. ASSUME NEW c \in Conn, Attach(c)
      PROVE  SoleLink'
  BY <1>2 DEF Attach
<1>3. ASSUME NEW c \in Conn, RegAdd(c) \/ Loop(c) \/ ServeErr(c)
      PROVE  SoleLink'
  BY <1>3 DEF RegAdd, RegistryAdd, Loop, ServeErr, wireVars, tables
<1>4. ASSUME NEW c \in Conn, Detach(c)
      PROVE  SoleLink'
  BY <1>4 DEF Detach, wireVars
<1>5. ASSUME NEW c \in Conn, RegRemove(c) \/ PeerLost(c)
      PROVE  SoleLink'
  BY <1>5 DEF RegRemove, RegistryRemove, PeerLost, wireVars, brokerVars, tables, agentSide
<1>6. CASE UNCHANGED <<link, agents, devices, apc, adev>>
  BY <1>6
<1> QED
  BY <1>1, <1>2, <1>3, <1>4, <1>5, <1>6, AttachmentSteps

LEMMA KeepsNoGhostDevice ==
    ASSUME AttachInv, [Next]_vars
    PROVE  NoGhostDevice'
<1> USE ConnNone DEF AttachInv, TInv, TypeOK, BrokerTypeOK, Phases, NoGhostDevice, Attached,
                     Serving, GoAgent
<1>1. ASSUME NEW c \in Conn, Early(c)
      PROVE  NoGhostDevice'
  <2>1. ASSUME NEW d \in Device, devices[d] # None
        PROVE  adev'[devices[d]] = d /\ apc'[devices[d]] \in {"ack", "detach", "remove"} \cup Serving
    <3>1. devices[d] \in Conn /\ adev[devices[d]] = d /\ apc[devices[d]] \in {"ack", "detach", "remove"} \cup Serving
      BY <2>1
    <3>2. apc[c] \notin {"ack", "detach", "remove"} \cup Serving
      BY <1>1, EarlyLocal
    <3>3. devices[d] # c
      BY <3>1, <3>2
    <3> QED
      BY <1>1, <3>1, <3>3, EarlyLocal
  <2>2. UNCHANGED devices
    BY <1>1, EarlyLocal
  <2> QED
    BY <2>1, <2>2
<1>2. ASSUME NEW c \in Conn, Attach(c)
      PROVE  NoGhostDevice'
  BY <1>2 DEF Attach
<1>3. ASSUME NEW c \in Conn, RegAdd(c)
      PROVE  NoGhostDevice'
  BY <1>3 DEF RegAdd, RegistryAdd
<1>4. ASSUME NEW c \in Conn, Loop(c) \/ ServeErr(c) \/ Detach(c)
      PROVE  NoGhostDevice'
  BY <1>4 DEF Loop, ServeErr, Detach, tables
<1>5. ASSUME NEW c \in Conn, RegRemove(c) \/ PeerLost(c)
      PROVE  NoGhostDevice'
  <2>1. CASE RegRemove(c)
    BY <2>1 DEF RegRemove, RegistryRemove
  <2>2. CASE PeerLost(c)
    BY <2>2 DEF PeerLost, brokerVars, tables, agentSide
  <2> QED
    BY <1>5, <2>1, <2>2
<1>6. CASE UNCHANGED <<link, agents, devices, apc, adev>>
  BY <1>6
<1> QED
  BY <1>1, <1>2, <1>3, <1>4, <1>5, <1>6, AttachmentSteps

LEMMA KeepsDeadOnDetach ==
    ASSUME AttachInv, [Next]_vars
    PROVE  DeadOnDetach'
<1> USE DEF AttachInv, TInv, TypeOK, WireTypeOK, BrokerTypeOK, DeadOnDetach, GoAgent
<1>1. ASSUME NEW c \in Conn, Early(c) \/ Loop(c)
      PROVE  DeadOnDetach'
  BY <1>1 DEF Early, Loop, Serving
<1>2. ASSUME NEW c \in Conn, Attach(c) \/ RegAdd(c) \/ ServeErr(c)
      PROVE  DeadOnDetach'
  BY <1>2 DEF Attach, RegAdd, RegistryAdd, ServeErr, ReadFails, wireVars
<1>3. ASSUME NEW c \in Conn, Detach(c) \/ RegRemove(c) \/ PeerLost(c)
      PROVE  DeadOnDetach'
  BY <1>3 DEF Detach, RegRemove, RegistryRemove, PeerLost, wireVars, brokerVars, agentSide
<1>4. CASE UNCHANGED <<link, agents, devices, apc, adev>>
  BY <1>4
<1> QED
  BY <1>1, <1>2, <1>3, <1>4, AttachmentSteps

(* The one lemma with a witness: a handler past its Add stays past it.     *)
LEMMA KeepsListedUntilRedial ==
    ASSUME AttachInv, [Next]_vars
    PROVE  ListedUntilRedial'
<1> DEFINE Listed == {"ack", "detach"} \cup Serving
           Past == {"ack", "detach", "remove", "done"} \cup Serving
<1> USE DEF AttachInv, TInv, TypeOK, BrokerTypeOK, Serving
<1> SUFFICES ASSUME NEW c \in Conn, apc'[c] \in Listed, devices'[adev'[c]] # c
             PROVE  \E k \in Conn \ {c} : adev'[k] = adev'[c] /\ apc'[k] \in Past
  BY DEF ListedUntilRedial
<1>1. ASSUME NEW k \in Conn, adev'[k] = adev[k], apc[k] \in Past
      PROVE  apc'[k] \in Past
  <2>1. ASSUME NEW x \in Conn, Early(x)
        PROVE  apc'[k] \in Past
    BY <1>1, <2>1, EarlyLocal
  <2>2. ASSUME NEW x \in Conn, Attach(x) \/ RegAdd(x) \/ Loop(x) \/ ServeErr(x)
        PROVE  apc'[k] \in Past
    BY <1>1, <2>2 DEF Attach, RegAdd, RegistryAdd, Loop, ServeErr, GoAgent
  <2>3. ASSUME NEW x \in Conn, Detach(x) \/ RegRemove(x) \/ PeerLost(x)
        PROVE  apc'[k] \in Past
    BY <1>1, <2>3 DEF Detach, RegRemove, RegistryRemove, PeerLost, GoAgent, brokerVars, agentSide
  <2> QED
    BY <1>1, <2>1, <2>2, <2>3, AttachmentSteps
<1>2. ASSUME apc[c] \in Listed, devices[adev[c]] # c, adev'[c] = adev[c],
             \A k \in Conn : apc[k] \in Past => adev'[k] = adev[k]
      PROVE  \E k \in Conn \ {c} : adev'[k] = adev'[c] /\ apc'[k] \in Past
  <2>1. PICK k \in Conn \ {c} : adev[k] = adev[c] /\ apc[k] \in Past
    BY <1>2 DEF ListedUntilRedial
  <2> QED
    BY <1>1, <1>2, <2>1
<1>3. ASSUME NEW x \in Conn, Early(x)
      PROVE  \E k \in Conn \ {c} : adev'[k] = adev'[c] /\ apc'[k] \in Past
  <2>1. c # x /\ \A k \in Conn : apc[k] \in Past => adev'[k] = adev[k]
    BY <1>3, EarlyLocal
  <2> QED
    BY <1>2, <1>3, <2>1, EarlyLocal
<1>4. ASSUME NEW x \in Conn, Attach(x)
      PROVE  \E k \in Conn \ {c} : adev'[k] = adev'[c] /\ apc'[k] \in Past
  BY <1>2, <1>4 DEF Attach, GoAgent
<1>5. ASSUME NEW x \in Conn, RegAdd(x)
      PROVE  \E k \in Conn \ {c} : adev'[k] = adev'[c] /\ apc'[k] \in Past
  <2>1. adev' = adev /\ apc' = [apc EXCEPT ![x] = "ack"] /\ devices' = [devices EXCEPT ![adev[x]] = x]
    BY <1>5 DEF RegAdd, RegistryAdd, GoAgent
  <2>2. adev[x] \in Device
    BY <1>5 DEF RegAdd, RegistryAdd, Phases, Attached
  <2>3. c # x
    BY <2>1, <2>2
  <2>4. CASE adev[c] = adev[x]
    BY <2>1, <2>3, <2>4
  <2>5. CASE adev[c] # adev[x]
    BY <1>2, <2>1, <2>3, <2>5
  <2> QED
    BY <2>4, <2>5
<1>6. ASSUME NEW x \in Conn, Loop(x) \/ ServeErr(x) \/ Detach(x) \/ PeerLost(x)
      PROVE  \E k \in Conn \ {c} : adev'[k] = adev'[c] /\ apc'[k] \in Past
  <2>1. adev' = adev /\ devices' = devices
    BY <1>6 DEF Loop, ServeErr, Detach, PeerLost, tables, brokerVars, agentSide
  <2>2. apc[c] \in Listed
    BY <1>6 DEF Loop, ServeErr, Detach, PeerLost, GoAgent, brokerVars, agentSide
  <2> QED
    BY <1>2, <2>1, <2>2
<1>7. ASSUME NEW x \in Conn, RegRemove(x)
      PROVE  \E k \in Conn \ {c} : adev'[k] = adev'[c] /\ apc'[k] \in Past
  <2>1. adev' = adev /\ apc' = [apc EXCEPT ![x] = "done"] /\ devices' = [devices EXCEPT ![adev[x]] = None]
    BY <1>7 DEF RegRemove, RegistryRemove, GoAgent
  <2>2. c # x
    BY <2>1
  <2>3. CASE adev[c] = adev[x]
    BY <2>1, <2>2, <2>3
  <2>4. CASE adev[c] # adev[x]
    BY <1>2, <2>1, <2>2, <2>4
  <2> QED
    BY <2>3, <2>4
<1>8. CASE UNCHANGED <<link, agents, devices, apc, adev>>
  BY <1>2, <1>8
<1> QED
  BY <1>3, <1>4, <1>5, <1>6, <1>7, <1>8, AttachmentSteps

-----------------------------------------------------------------------------
LEMMA InitAttachInv == Init => AttachInv
<1> SUFFICES ASSUME Init PROVE AttachInv
  OBVIOUS
<1>1. AgentsLive /\ NoGhostDevice
  BY DEF Init, BrokerInit, AgentsLive, NoGhostDevice
<1>2. SoleLink /\ ListedUntilRedial /\ DeadOnDetach
  BY DEF Init, BrokerInit, SoleLink, ListedUntilRedial, DeadOnDetach, Serving
<1> QED
  BY <1>1, <1>2, InitTypes DEF Init, AttachInv

LEMMA StepAttachInv ==
    ASSUME AttachInv, [Next]_vars
    PROVE  AttachInv'
<1>1. TInv'
  BY StepTInv DEF AttachInv
<1> QED
  BY <1>1, KeepsAgentsLive, KeepsSoleLink, KeepsNoGhostDevice, KeepsListedUntilRedial,
     KeepsDeadOnDetach DEF AttachInv

LEMMA AttachInvariant == Spec => []AttachInv
BY InitAttachInv, StepAttachInv, PTL DEF Spec

(* b.agents never leads a terminal to a handler that is gone.              *)
THEOREM AgentsLiveCorrect == Spec => []AgentsLive
BY AttachInvariant, PTL DEF AttachInv

(* A device never has two control sessions the broker regards as usable.   *)
THEOREM SoleLinkCorrect == Spec => []SoleLink
BY AttachInvariant, PTL DEF AttachInv

(* /devices.json never lists a device whose handlers have all ended.       *)
THEOREM NoGhostDeviceCorrect == Spec => []NoGhostDevice
BY AttachInvariant, PTL DEF AttachInv

(* /devices.json is exact for a device until that device dials again.      *)
THEOREM ListedUntilRedialCorrect == Spec => []ListedUntilRedial
BY AttachInvariant, PTL DEF AttachInv

(* The step behind the next theorem: only Attach and Detach change         *)
(* b.agents; the first closes the link it replaces and the second runs     *)
(* after the handler's read has failed.                                    *)
LEMMA StepReachableIsKept ==
    ASSUME AttachInv, [Next]_vars, NEW c \in Conn, NEW d \in Device,
           agents[d] = c, agents'[d] # c
    PROVE  link'[c] # "up"
<1> USE DEF AttachInv, TInv, TypeOK, WireTypeOK, BrokerTypeOK
<1>1. ASSUME NEW x \in Conn, Attach(x)
      PROVE  link'[c] # "up"
  <2>1. agents' = [agents EXCEPT ![adev[x]] = x]
    BY <1>1 DEF Attach
  <2>2. adev[x] = d
    BY <2>1
  <2> QED
    BY <1>1, <2>2 DEF Attach
<1>2. ASSUME NEW x \in Conn, Detach(x)
      PROVE  link'[c] # "up"
  <2>1. x = c
    BY <1>2 DEF Detach
  <2> QED
    BY <1>2, <2>1 DEF Detach, DeadOnDetach, wireVars
<1>3. ASSUME NEW x \in Conn,
             Early(x) \/ RegAdd(x) \/ Loop(x) \/ ServeErr(x) \/ RegRemove(x) \/ PeerLost(x)
      PROVE  UNCHANGED agents
  BY <1>3 DEF Early, RegAdd, RegistryAdd, Loop, ServeErr, RegRemove, RegistryRemove, PeerLost, tables, brokerVars
<1> QED
  BY <1>1, <1>2, <1>3, AttachmentSteps

(* The broker forgets an agent only once its link is dead.                 *)
THEOREM ReachableIsKeptCorrect == Spec => ReachableIsKept
<1>1. AttachInv /\ [Next]_vars =>
        [\A c \in Conn, d \in Device :
            agents[d] = c /\ agents'[d] # c => link'[c] # "up"]_vars
  BY StepReachableIsKept
<1> QED
  BY <1>1, AttachInvariant, PTL DEF Spec, ReachableIsKept

=============================================================================
