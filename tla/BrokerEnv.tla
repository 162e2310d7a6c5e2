----------------------------- MODULE BrokerEnv ------------------------------
(***************************************************************************)
(* The broker against any agents: a peer dials, sends any frame of the     *)
(* protocol in any order, reads what it is sent, and may vanish. The one   *)
(* thing asked of it is that it names only terminals opened on its link,   *)
(* for it cannot know the random id (newID) of another. What holds here    *)
(* the broker guarantees by itself; MiniCloud puts the real agent in the   *)
(* peers' place.                                                           *)
(***************************************************************************)
EXTENDS Broker

vars == <<wireVars, brokerVars>>

PeerSend(c) ==
    /\ link[c] = "up" /\ Len(toBroker[c]) < Window
    /\ \E f \in AgentFrame :
         /\ f.type # "register" => cac[f.sess] = c
         /\ toBroker' = [toBroker EXCEPT ![c] = Append(@, f)]
    /\ UNCHANGED <<link, toAgent, brokerVars>>

PeerRecv(c) ==
    /\ link[c] # "lost" /\ Readable(toAgent[c])
    /\ toAgent' = [toAgent EXCEPT ![c] = Tail(@)]
    /\ UNCHANGED <<link, toBroker, brokerVars>>

(* The peer or the network is gone, and with it what it had not read.      *)
PeerLost(c) ==
    /\ link[c] = "up"
    /\ link' = [link EXCEPT ![c] = "lost"]
    /\ toAgent' = [toAgent EXCEPT ![c] = <<>>]
    /\ UNCHANGED <<toBroker, brokerVars>>

(* Every connection and terminal of the instance has been used. TLC's      *)
(* deadlock check then says that no other state is stuck.                  *)
Quiescent ==
    /\ \A c \in Conn : apc[c] = "done"
    /\ \A s \in Session : cpc[s] = "done"
    /\ UNCHANGED vars

Init == WireInit /\ BrokerInit

Next ==
    \/ \E c \in Conn : Accept(c) \/ AgentWS(c) \/ PeerSend(c) \/ PeerRecv(c) \/ PeerLost(c)
    \/ \E s \in Session : ConnectWS(s) \/ Unauthorized(s) \/ Browser(s)
    \/ \E s \in Session, d \in Device : Authorized(s, d)
    \/ Quiescent

Spec == Init /\ [][Next]_vars

TypeOK == WireTypeOK /\ BrokerTypeOK

(***************************************************************************)
(* Fairness: the Go scheduler runs every goroutine that can run (AgentWS,  *)
(* ConnectWS), an attached peer goes on reading its socket (PeerRecv), an  *)
(* open page goes on draining its socket (BrowserShow). Nobody has to      *)
(* dial, type, leave or fail. Reads of a dead link do fail in the end: the *)
(* sockets keep Go's default TCP keep-alive.                               *)
(***************************************************************************)
Fairness ==
    /\ \A c \in Conn : WF_vars(AgentWS(c)) /\ WF_vars(PeerRecv(c))
    /\ \A s \in Session : WF_vars(ConnectWS(s)) /\ WF_vars(BrowserShow(s))

FairSpec == Spec /\ Fairness

-----------------------------------------------------------------------------
(***************************************************************************)
(* Safety.                                                                 *)
(***************************************************************************)
(* connectWS never finds a finished handler in b.agents: an attachment in  *)
(* the table is one whose agentWS has published itself and will still      *)
(* withdraw it. This rests on the guarded delete (broker.go:160) when a    *)
(* device dials again while its old handler is still on its way out.       *)
AgentsLive ==
    \A d \in Device : agents[d] # None =>
        /\ adev[agents[d]] = d
        /\ apc[agents[d]] \in Attached

(* A device has one usable control session: a handler that serves a link   *)
(* the broker has not closed is the one the device's terminals are sent to *)
(* (broker.go:124-128, a new attachment closes the one it replaces).       *)
SoleLink ==
    \A c \in Conn :
        apc[c] \in {"add", "ack"} \cup Serving /\ link[c] # "closed"
            => agents[adev[c]] = c

(* The catalogue holds no ghosts: an entry of the registry was written by  *)
(* an attachment of that device whose handler has still to reach its own   *)
(* Remove (broker.go:130, 164), in whatever order two attachments of one   *)
(* device Add and Remove.                                                  *)
NoGhostDevice ==
    \A d \in Device : devices[d] # None =>
        /\ adev[devices[d]] = d
        /\ apc[devices[d]] \in {"ack", "detach", "remove"} \cup Serving

(* The catalogue loses a device that is served only to a second dial of    *)
(* that device: a serving attachment whose entry is gone, or is another's, *)
(* shares its device with a handler that has been past its own Add. While  *)
(* a device dials once, /devices.json is exact.                            *)
ListedUntilRedial ==
    \A c \in Conn :
        apc[c] \in {"ack", "detach"} \cup Serving /\ devices[adev[c]] # c =>
            \E k \in Conn \ {c} :
                /\ adev[k] = adev[c]
                /\ apc[k] \in {"ack", "detach", "remove", "done"} \cup Serving

(* No terminal is left open with nobody to close it: once its session is   *)
(* out of b.sessions, its connectWS is about to close the socket, or an    *)
(* agentWS is (closeSession deletes first and closes after the unlock), so *)
(* two closeSessions racing for one id never both leave the close to the   *)
(* other (broker.go:214-222).                                              *)
NoStrandedTerminal ==
    \A s \in Session : ws[s] = "open" /\ sessions[s] = None =>
        \/ cpc[s] = "close"
        \/ \E c \in Conn : apc[c] = "hangup" /\ held[c].sess = s

(* The session table does not leak: an entry belongs to a connectWS that   *)
(* will still reach its closeSession, and leads to the agent it opened.    *)
NoLeakedSession ==
    \A s \in Session : sessions[s] # None =>
        cpc[s] \in Bridged /\ sessions[s] = cac[s]

(* An attachment leaves b.agents only once its link is dead, be it by its  *)
(* own handler or by a replacement: the broker never forgets an agent it   *)
(* could still reach.                                                      *)
ReachableIsKept ==
    [][\A c \in Conn, d \in Device :
          agents[d] = c /\ agents'[d] # c => link'[c] # "up"]_vars

-----------------------------------------------------------------------------
(***************************************************************************)
(* Liveness.                                                               *)
(***************************************************************************)
(* A dead link is cleaned up: its attachment leaves b.agents and the       *)
(* catalogue, even when its handler was in the middle of a delivery to a   *)
(* slow browser.                                                           *)
DeadAgentForgotten ==
    \A c \in Conn, d \in Device :
        link[c] \in {"closed", "lost"} ~> agents[d] # c /\ devices[d] # c

(* A terminal whose browser left, or whose shell was closed, ends: its     *)
(* connectWS returns and its session is deleted.                           *)
TerminalEnds ==
    \A s \in Session :
        ws[s] \in {"gone", "closed"} ~> cpc[s] = "done" /\ sessions[s] = None

-----------------------------------------------------------------------------
(***************************************************************************)
(* What the documentation says and the code does not do.                   *)
(***************************************************************************)
(* registry.go:1-3 calls the registry "which devices are currently         *)
(* attached to this mini-cloud": a device the broker serves is listed.     *)
AttachedIsListed ==
    \A c \in Conn :
        apc[c] \in Serving /\ link[c] = "up" /\ agents[adev[c]] = c
            => adev[c] \in Graph

=============================================================================
