------------------------------- MODULE Broker -------------------------------
(***************************************************************************)
(* mm-broker: internal/broker and internal/registry, with the browser's    *)
(* end of a terminal socket (web/src/pages/Terminal.tsx).                  *)
(*                                                                         *)
(* Each HTTP request is a goroutine. agentWS(c) serves agent connection c  *)
(* and connectWS(s) serves terminal s; apc[c] and cpc[s] are where they    *)
(* are. A step ends where the goroutine releases b.mu or the registry's    *)
(* mutex, or where it reads from or writes to a socket: between any two of *)
(* these another handler may run.                                          *)
(***************************************************************************)
EXTENDS Wire

CONSTANTS
    CheckOutcomes,  \* what checkAgentToken may return; {TRUE} with no AuthURL
    MaxTyped        \* bound: chunks of terminal bytes a user types

ASSUME CheckBool == CheckOutcomes \subseteq BOOLEAN
ASSUME TypedBound == MaxTyped \in 0..MaxChunk
ASSUME DeviceNone == None \notin Device

VARIABLES
    agents,      \* Broker.agents, deviceID -> control session
    sessions,    \* Broker.sessions, sessionID -> the pipe's agent
    devices,     \* Registry.devices, id -> the attachment whose Add wrote the entry
    apc,         \* agentWS: next step of each invocation
    adev,        \* agentWS: reg.Device, kept after the handler ends
    held,        \* agentWS: the frame of the loop's current iteration
    cpc,         \* connectWS: next step of each invocation
    cdev,        \* connectWS: the path's device
    cac,         \* connectWS: ac, looked up once
    cbuf,        \* connectWS: bytes read from the browser, not yet sent
    ws,          \* the browser's socket
    fromBrowser, \* typed by the user, not yet read by connectWS
    toBrowser,   \* written by agentWS, not yet shown by the browser
    typed        \* how many chunks the user has typed

agentSide == <<apc, adev, held>>
termSide  == <<cpc, cdev, cac, cbuf>>
webVars   == <<ws, fromBrowser, toBrowser, typed>>
tables    == <<agents, sessions, devices>>
brokerVars == <<tables, agentSide, termSide, webVars>>

AgentPC == {"idle", "register", "check", "deny", "attach", "add", "ack",
            "serve", "write", "hangup", "detach", "remove", "done"}
TermPC  == {"idle", "lookup", "upgrade", "open", "read", "input", "bye",
            "end", "close", "done"}

(* "gone": the browser left. "closed": the broker closed the socket.       *)
SocketState == {"none", "open", "gone", "closed"}

(* agentWS between publishing itself in b.agents and withdrawing from it.  *)
Serving  == {"serve", "write", "hangup"}
Attached == {"add", "ack", "detach"} \cup Serving
(* connectWS between publishing the session and withdrawing it.            *)
Bridged  == {"open", "read", "input", "bye", "end"}

BrokerTypeOK ==
    /\ agents \in [Device -> Conn \cup {None}]
    /\ sessions \in [Session -> Conn \cup {None}]
    /\ devices \in [Device -> Conn \cup {None}]
    /\ apc \in [Conn -> AgentPC]
    /\ adev \in [Conn -> Device \cup {None}]
    /\ held \in [Conn -> AgentFrame \cup {None}]
    /\ cpc \in [Session -> TermPC]
    /\ cdev \in [Session -> Device \cup {None}]
    /\ cac \in [Session -> Conn \cup {None}]
    /\ cbuf \in [Session -> Chunk \cup {None}]
    /\ ws \in [Session -> SocketState]
    /\ fromBrowser \in [Session -> Seq(Chunk)]
    /\ toBrowser \in [Session -> Seq(Chunk)]
    /\ typed \in [Session -> 0..MaxTyped]

(* New, registry.New: nobody attached, nobody connected.                   *)
BrokerInit ==
    /\ agents = [d \in Device |-> None]
    /\ sessions = [s \in Session |-> None]
    /\ devices = [d \in Device |-> None]
    /\ apc = [c \in Conn |-> "idle"]
    /\ adev = [c \in Conn |-> None]
    /\ held = [c \in Conn |-> None]
    /\ cpc = [s \in Session |-> "idle"]
    /\ cdev = [s \in Session |-> None]
    /\ cac = [s \in Session |-> None]
    /\ cbuf = [s \in Session |-> None]
    /\ ws = [s \in Session |-> "none"]
    /\ fromBrowser = [s \in Session |-> <<>>]
    /\ toBrowser = [s \in Session |-> <<>>]
    /\ typed = [s \in Session |-> 0]

-----------------------------------------------------------------------------
(***************************************************************************)
(* registry.Registry, each operation under the registry's own mutex. The   *)
(* entry's fields (name, OS, address, key) are those of attachment c.      *)
(***************************************************************************)
RegistryAdd(d, c) == devices' = [devices EXCEPT ![d] = c]
RegistryRemove(d) == devices' = [devices EXCEPT ![d] = None]

(* What GET /devices.json shows: a node per entry.                         *)
Graph == {d \in Device : devices[d] # None}

-----------------------------------------------------------------------------
(***************************************************************************)
(* agentWS, up to the point where it publishes itself.                     *)
(***************************************************************************)
GoAgent(c, to) == apc' = [apc EXCEPT ![c] = to]

(* Upgrade and Handshake. A failed handshake is a link that dies before    *)
(* the register frame.                                                     *)
Accept(c) ==
    /\ apc[c] = "idle" /\ link[c] = "none"
    /\ link' = [link EXCEPT ![c] = "up"]
    /\ GoAgent(c, "register")
    /\ UNCHANGED <<toAgent, toBroker, adev, held, tables, termSide, webVars>>

ReadRegister(c) ==
    /\ apc[c] = "register" /\ Readable(toBroker[c])
    /\ Head(toBroker[c]).type = "register"
    /\ toBroker' = [toBroker EXCEPT ![c] = Tail(@)]
    /\ adev' = [adev EXCEPT ![c] = Head(toBroker[c]).dev]
    /\ GoAgent(c, "check")
    /\ UNCHANGED <<link, toAgent, held, tables, termSide, webVars>>

(* A read error or a first frame that is not a registration: close, return. *)
ReadRegisterFails(c) ==
    /\ apc[c] = "register"
    /\ \/ ReadFails(c) /\ UNCHANGED toBroker
       \/ /\ Readable(toBroker[c])
          /\ Head(toBroker[c]).type # "register"
          /\ toBroker' = [toBroker EXCEPT ![c] = Tail(@)]
    /\ link' = [link EXCEPT ![c] = "closed"]
    /\ GoAgent(c, "done")
    /\ UNCHANGED <<toAgent, adev, held, tables, termSide, webVars>>

(* The identity service answers, or the call fails (FALSE).                *)
CheckAgentToken(c) ==
    /\ apc[c] = "check"
    /\ \E ok \in CheckOutcomes : GoAgent(c, IF ok THEN "attach" ELSE "deny")
    /\ UNCHANGED <<wireVars, adev, held, tables, termSide, webVars>>

Deny(c) ==
    /\ apc[c] = "deny"
    /\ SendOK(c, Error) \/ SendErr(c)
    /\ link' = [link EXCEPT ![c] = "closed"]
    /\ GoAgent(c, "done")
    /\ UNCHANGED <<toBroker, adev, held, tables, termSide, webVars>>

(* A mutant: the old attachment is replaced but not closed.                *)
AttachKeepsOld(c) ==
    /\ apc[c] = "attach"
    /\ agents' = [agents EXCEPT ![adev[c]] = c]
    /\ GoAgent(c, "add")
    /\ UNCHANGED <<wireVars, sessions, devices, adev, held, termSide, webVars>>

(* A mutant: attached but never added to the catalogue.                    *)
AttachSkipsAdd(c) ==
    /\ apc[c] = "attach"
    /\ link' = [k \in Conn |-> IF k = agents[adev[c]] THEN "closed" ELSE link[k]]
    /\ agents' = [agents EXCEPT ![adev[c]] = c]
    /\ GoAgent(c, "ack")
    /\ UNCHANGED <<toAgent, toBroker, sessions, devices, adev, held, termSide, webVars>>

(* Under b.mu: close a stale attachment of the device and take its place.  *)
Attach(c) ==
    /\ apc[c] = "attach"
    /\ link' = [k \in Conn |-> IF k = agents[adev[c]] THEN "closed" ELSE link[k]]
    /\ agents' = [agents EXCEPT ![adev[c]] = c]
    /\ GoAgent(c, "add")
    /\ UNCHANGED <<toAgent, toBroker, sessions, devices, adev, held, termSide, webVars>>

RegAdd(c) ==
    /\ apc[c] = "add"
    /\ RegistryAdd(adev[c], c)
    /\ GoAgent(c, "ack")
    /\ UNCHANGED <<wireVars, agents, sessions, adev, held, termSide, webVars>>

(* The result of the send is ignored. *)
SendRegistered(c) ==
    /\ apc[c] = "ack"
    /\ SendOK(c, Registered) \/ SendErr(c)
    /\ GoAgent(c, "serve")
    /\ UNCHANGED <<link, toBroker, adev, held, tables, termSide, webVars>>

-----------------------------------------------------------------------------
(***************************************************************************)
(* agentWS, the loop. Output: look the session up under b.mu, then write   *)
(* to its browser. Close: closeSession, which deletes under b.mu and       *)
(* closes the browser's socket afterwards. Any other frame is ignored.     *)
(***************************************************************************)
ServeOutput(c) ==
    /\ apc[c] = "serve" /\ Readable(toBroker[c])
    /\ LET m == Head(toBroker[c]) IN
         /\ m.type = "out"
         /\ IF sessions[m.sess] # None
              THEN GoAgent(c, "write") /\ held' = [held EXCEPT ![c] = m]
              ELSE UNCHANGED <<apc, held>>
    /\ toBroker' = [toBroker EXCEPT ![c] = Tail(@)]
    /\ UNCHANGED <<link, toAgent, adev, tables, termSide, webVars>>

(* Mutants: the loop's frame is dropped before its write; a write is tried *)
(* again although it may have succeeded.                                   *)
WriteBrowserClearsFirst(c) ==
    /\ apc[c] = "write"
    /\ held' = [held EXCEPT ![c] = None]
    /\ LET s == held[c].sess IN
         \/ /\ ws[s] = "open" /\ Len(toBrowser[s]) < Window
            /\ toBrowser' = [toBrowser EXCEPT ![s] = Append(@, held'[c])]
         \/ ws[s] \in {"gone", "closed"} /\ UNCHANGED toBrowser
    /\ GoAgent(c, "serve")
    /\ UNCHANGED <<wireVars, adev, tables, termSide, ws, fromBrowser, typed>>

WriteBrowserRetries(c) ==
    /\ apc[c] = "write"
    /\ LET s == held[c].sess IN
         \/ /\ ws[s] = "open" /\ Len(toBrowser[s]) < Window
            /\ toBrowser' = [toBrowser EXCEPT ![s] = Append(@, held[c].data)]
         \/ ws[s] \in {"gone", "closed"} /\ UNCHANGED toBrowser
    /\ \/ GoAgent(c, "serve") /\ held' = [held EXCEPT ![c] = None]
       \/ UNCHANGED <<apc, held>>
    /\ UNCHANGED <<wireVars, adev, tables, termSide, ws, fromBrowser, typed>>

(* browser.WriteMessage: blocks while an open socket's window is full; its *)
(* error is ignored.                                                       *)
WriteBrowser(c) ==
    /\ apc[c] = "write"
    /\ LET s == held[c].sess IN
         \/ /\ ws[s] = "open" /\ Len(toBrowser[s]) < Window
            /\ toBrowser' = [toBrowser EXCEPT ![s] = Append(@, held[c].data)]
         \/ ws[s] \in {"gone", "closed"} /\ UNCHANGED toBrowser
    /\ GoAgent(c, "serve")
    /\ held' = [held EXCEPT ![c] = None]
    /\ UNCHANGED <<wireVars, adev, tables, termSide, ws, fromBrowser, typed>>

ServeClose(c) ==
    /\ apc[c] = "serve" /\ Readable(toBroker[c])
    /\ LET m == Head(toBroker[c]) IN
         /\ m.type = "close"
         /\ sessions' = [sessions EXCEPT ![m.sess] = None]
         /\ IF sessions[m.sess] # None
              THEN GoAgent(c, "hangup") /\ held' = [held EXCEPT ![c] = m]
              ELSE UNCHANGED <<apc, held>>
    /\ toBroker' = [toBroker EXCEPT ![c] = Tail(@)]
    /\ UNCHANGED <<link, toAgent, agents, devices, adev, termSide, webVars>>

(* A mutant: closeSession forgets to close the browser's socket.           *)
HangUpKeepsBrowser(c) ==
    /\ apc[c] = "hangup"
    /\ GoAgent(c, "serve")
    /\ held' = [held EXCEPT ![c] = None]
    /\ UNCHANGED <<wireVars, adev, tables, termSide, webVars>>

HangUp(c) ==
    /\ apc[c] = "hangup"
    /\ ws' = [ws EXCEPT ![held[c].sess] = "closed"]
    /\ GoAgent(c, "serve")
    /\ held' = [held EXCEPT ![c] = None]
    /\ UNCHANGED <<wireVars, adev, tables, termSide, fromBrowser, toBrowser, typed>>

ServeIgnored(c) ==
    /\ apc[c] = "serve" /\ Readable(toBroker[c])
    /\ Head(toBroker[c]).type = "register"
    /\ toBroker' = [toBroker EXCEPT ![c] = Tail(@)]
    /\ UNCHANGED <<link, toAgent, tables, agentSide, termSide, webVars>>

(* A mutant: the loop goes on after a read error.                          *)
ServeErrContinues(c) ==
    /\ apc[c] = "serve" /\ ReadFails(c)
    /\ UNCHANGED <<wireVars, brokerVars>>

ServeErr(c) ==
    /\ apc[c] = "serve" /\ ReadFails(c)
    /\ GoAgent(c, "detach")
    /\ UNCHANGED <<wireVars, adev, held, tables, termSide, webVars>>

(* Mutants: the delete is forgotten; the delete is not guarded.            *)
DetachForgets(c) ==
    /\ apc[c] = "detach"
    /\ GoAgent(c, "remove")
    /\ UNCHANGED <<wireVars, tables, adev, held, termSide, webVars>>

DetachUnguarded(c) ==
    /\ apc[c] = "detach"
    /\ agents' = [agents EXCEPT ![adev[c]] = None]
    /\ GoAgent(c, "remove")
    /\ UNCHANGED <<wireVars, sessions, devices, adev, held, termSide, webVars>>

(* Only the attachment still in b.agents is deleted from it.               *)
Detach(c) ==
    /\ apc[c] = "detach"
    /\ agents' = [agents EXCEPT ![adev[c]] = IF @ = c THEN None ELSE @]
    /\ GoAgent(c, "remove")
    /\ UNCHANGED <<wireVars, sessions, devices, adev, held, termSide, webVars>>

(* A mutant: no Remove while the device has an attachment.                 *)
RegRemoveIfUnattached(c) ==
    /\ apc[c] = "remove"
    /\ devices' = [devices EXCEPT ![adev[c]] = IF agents[adev[c]] = None THEN None ELSE @]
    /\ GoAgent(c, "done")
    /\ UNCHANGED <<wireVars, agents, sessions, adev, held, termSide, webVars>>

(* Registry.Remove takes the id alone, whoever attached since.             *)
RegRemove(c) ==
    /\ apc[c] = "remove"
    /\ RegistryRemove(adev[c])
    /\ GoAgent(c, "done")
    /\ UNCHANGED <<wireVars, agents, sessions, adev, held, termSide, webVars>>

AgentWS(c) ==
    \/ ReadRegister(c) \/ ReadRegisterFails(c) \/ CheckAgentToken(c) \/ Deny(c)
    \/ Attach(c) \/ RegAdd(c) \/ SendRegistered(c)
    \/ ServeOutput(c) \/ WriteBrowser(c) \/ ServeClose(c) \/ HangUp(c)
    \/ ServeIgnored(c) \/ ServeErr(c) \/ Detach(c) \/ RegRemove(c)

-----------------------------------------------------------------------------
(***************************************************************************)
(* connectWS.                                                              *)
(***************************************************************************)
GoTerm(s, to) == cpc' = [cpc EXCEPT ![s] = to]

(* checkUser refuses (401, or the identity service does not answer).       *)
Unauthorized(s) ==
    /\ cpc[s] = "idle"
    /\ GoTerm(s, "done")
    /\ UNCHANGED <<wireVars, tables, agentSide, cdev, cac, cbuf, webVars>>

Authorized(s, d) ==
    /\ cpc[s] = "idle"
    /\ cdev' = [cdev EXCEPT ![s] = d]
    /\ GoTerm(s, "lookup")
    /\ UNCHANGED <<wireVars, tables, agentSide, cac, cbuf, webVars>>

(* Under b.mu: the one lookup of the agent, 404 if there is none.          *)
Lookup(s) ==
    /\ cpc[s] = "lookup"
    /\ cac' = [cac EXCEPT ![s] = agents[cdev[s]]]
    /\ GoTerm(s, IF agents[cdev[s]] = None THEN "done" ELSE "upgrade")
    /\ UNCHANGED <<wireVars, tables, agentSide, cdev, cbuf, webVars>>

UpgradeFails(s) ==
    /\ cpc[s] = "upgrade"
    /\ GoTerm(s, "done")
    /\ UNCHANGED <<wireVars, tables, agentSide, cdev, cac, cbuf, webVars>>

(* Upgrade, newID and the publication under b.mu. Nobody knows the id yet. *)
Publish(s) ==
    /\ cpc[s] = "upgrade"
    /\ ws' = [ws EXCEPT ![s] = "open"]
    /\ sessions' = [sessions EXCEPT ![s] = cac[s]]
    /\ GoTerm(s, "open")
    /\ UNCHANGED <<wireVars, agents, devices, agentSide, cdev, cac, cbuf,
                   fromBrowser, toBrowser, typed>>

(* A mutant: a failed Open returns without closeSession.                   *)
SendOpenLeaks(s) ==
    /\ cpc[s] = "open"
    /\ \/ SendOK(cac[s], Open(s)) /\ GoTerm(s, "read")
       \/ SendErr(cac[s]) /\ GoTerm(s, "done")
    /\ UNCHANGED <<link, toBroker, tables, agentSide, cdev, cac, cbuf, webVars>>

SendOpen(s) ==
    /\ cpc[s] = "open"
    /\ \/ SendOK(cac[s], Open(s)) /\ GoTerm(s, "read")
       \/ SendErr(cac[s]) /\ GoTerm(s, "end")
    /\ UNCHANGED <<link, toBroker, tables, agentSide, cdev, cac, cbuf, webVars>>

ReadBrowser(s) ==
    /\ cpc[s] = "read" /\ Readable(fromBrowser[s])
    /\ cbuf' = [cbuf EXCEPT ![s] = Head(fromBrowser[s])]
    /\ fromBrowser' = [fromBrowser EXCEPT ![s] = Tail(@)]
    /\ GoTerm(s, "input")
    /\ UNCHANGED <<wireVars, tables, agentSide, cdev, cac, ws, toBrowser, typed>>

(* Mutants: the loop goes on after a read error; the agent is not told.    *)
ReadBrowserErrContinues(s) ==
    /\ cpc[s] = "read" /\ ws[s] \in {"gone", "closed"}
    /\ UNCHANGED <<wireVars, brokerVars>>

ReadBrowserErrSilent(s) ==
    /\ cpc[s] = "read" /\ ws[s] \in {"gone", "closed"}
    /\ GoTerm(s, "end")
    /\ UNCHANGED <<wireVars, tables, agentSide, cdev, cac, cbuf, webVars>>

ReadBrowserErr(s) ==
    /\ cpc[s] = "read" /\ ws[s] \in {"gone", "closed"}
    /\ GoTerm(s, "bye")
    /\ UNCHANGED <<wireVars, tables, agentSide, cdev, cac, cbuf, webVars>>

(* A mutant: the send is retried although it may have succeeded.           *)
SendInputRetries(s) ==
    /\ cpc[s] = "input"
    /\ \/ SendOK(cac[s], Input(s, cbuf[s])) /\ UNCHANGED <<cpc, cbuf>>
       \/ SendOK(cac[s], Input(s, cbuf[s])) /\ GoTerm(s, "read")
            /\ cbuf' = [cbuf EXCEPT ![s] = None]
       \/ SendErr(cac[s]) /\ GoTerm(s, "bye") /\ cbuf' = [cbuf EXCEPT ![s] = None]
    /\ UNCHANGED <<link, toBroker, tables, agentSide, cdev, cac, webVars>>

SendInput(s) ==
    /\ cpc[s] = "input"
    /\ \/ SendOK(cac[s], Input(s, cbuf[s])) /\ GoTerm(s, "read")
       \/ SendErr(cac[s]) /\ GoTerm(s, "bye")
    /\ cbuf' = [cbuf EXCEPT ![s] = None]
    /\ UNCHANGED <<link, toBroker, tables, agentSide, cdev, cac, webVars>>

(* The result of the send is ignored. *)
SendClose(s) ==
    /\ cpc[s] = "bye"
    /\ SendOK(cac[s], Close(s)) \/ SendErr(cac[s])
    /\ GoTerm(s, "end")
    /\ UNCHANGED <<link, toBroker, tables, agentSide, cdev, cac, cbuf, webVars>>

(* closeSession: delete under b.mu, then close the socket if it was there. *)
CloseSession(s) ==
    /\ cpc[s] = "end"
    /\ sessions' = [sessions EXCEPT ![s] = None]
    /\ GoTerm(s, IF sessions[s] # None THEN "close" ELSE "done")
    /\ UNCHANGED <<wireVars, agents, devices, agentSide, cdev, cac, cbuf, webVars>>

CloseBrowser(s) ==
    /\ cpc[s] = "close"
    /\ ws' = [ws EXCEPT ![s] = "closed"]
    /\ GoTerm(s, "done")
    /\ UNCHANGED <<wireVars, tables, agentSide, cdev, cac, cbuf,
                   fromBrowser, toBrowser, typed>>

ConnectWS(s) ==
    \/ Lookup(s) \/ UpgradeFails(s) \/ Publish(s) \/ SendOpen(s)
    \/ ReadBrowser(s) \/ ReadBrowserErr(s) \/ SendInput(s) \/ SendClose(s)
    \/ CloseSession(s) \/ CloseBrowser(s)

-----------------------------------------------------------------------------
(***************************************************************************)
(* The browser's end (Terminal.tsx).                                       *)
(***************************************************************************)
BrowserType(s) ==
    /\ ws[s] = "open" /\ typed[s] < MaxTyped /\ Len(fromBrowser[s]) < Window
    /\ typed' = [typed EXCEPT ![s] = @ + 1]
    /\ fromBrowser' = [fromBrowser EXCEPT ![s] = Append(@, typed[s] + 1)]
    /\ UNCHANGED <<wireVars, tables, agentSide, termSide, ws, toBrowser>>

(* ws.onmessage: term.write. Frames sent before a close still arrive.      *)
BrowserShow(s) ==
    /\ ws[s] \in {"open", "closed"} /\ Readable(toBrowser[s])
    /\ toBrowser' = [toBrowser EXCEPT ![s] = Tail(@)]
    /\ UNCHANGED <<wireVars, tables, agentSide, termSide, ws, fromBrowser, typed>>

(* The page's cleanup closes the socket, or the browser disappears.        *)
BrowserLeave(s) ==
    /\ ws[s] = "open"
    /\ ws' = [ws EXCEPT ![s] = "gone"]
    /\ toBrowser' = [toBrowser EXCEPT ![s] = <<>>]
    /\ UNCHANGED <<wireVars, tables, agentSide, termSide, fromBrowser, typed>>

Browser(s) == BrowserType(s) \/ BrowserShow(s) \/ BrowserLeave(s)

=============================================================================
