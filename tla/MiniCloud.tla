------------------------------ MODULE MiniCloud -----------------------------
(***************************************************************************)
(* A mini-cloud: the broker, its agents and the browsers, over the wire.   *)
(***************************************************************************)
EXTENDS Broker, Agent

VARIABLE shown   \* [Session -> Seq(Chunk)]: what the page has displayed

vars == <<wireVars, brokerVars, agentVars, shown>>

Init == WireInit /\ BrokerInit /\ AgentInit /\ shown = [s \in Session |-> <<>>]

Connect(c) == Accept(c) /\ Dial(c) /\ UNCHANGED shown

BrokerStep(c) == AgentWS(c) /\ UNCHANGED <<agentVars, shown>>

AgentStep(c) ==
    /\ Run(c) \/ \E d \in Device : WriteRegister(c, d)
    /\ UNCHANGED <<brokerVars, shown>>

NetworkStep(c) == LinkLost(c) /\ UNCHANGED <<brokerVars, agentVars, shown>>

TerminalStep(s) == ConnectWS(s) /\ UNCHANGED <<agentVars, shown>>

UserStep(s) ==
    /\ \/ Unauthorized(s) \/ \E d \in Device : Authorized(s, d)
       \/ BrowserType(s) \/ BrowserLeave(s)
    /\ UNCHANGED <<agentVars, shown>>

ShowStep(s) ==
    /\ BrowserShow(s)
    /\ shown' = [shown EXCEPT ![s] = Append(@, Head(toBrowser[s]))]
    /\ UNCHANGED agentVars

ShellStep(s) ==
    /\ ReadShell(s) \/ ShellExits(s)
    /\ UNCHANGED <<brokerVars, shown>>

ReaderStep(s) == Reader(s) /\ UNCHANGED <<brokerVars, shown>>

(* Every connection and terminal of the instance has been used.            *)
Quiescent ==
    /\ \A c \in Conn : apc[c] = "done" /\ rpc[c] = "exited"
    /\ \A s \in Session : cpc[s] = "done"
    /\ UNCHANGED vars

Next ==
    \/ \E c \in Conn : Connect(c) \/ BrokerStep(c) \/ AgentStep(c) \/ NetworkStep(c)
    \/ \E s \in Session :
          TerminalStep(s) \/ UserStep(s) \/ ShowStep(s) \/ ShellStep(s) \/ ReaderStep(s)
    \/ Quiescent

Spec == Init /\ [][Next]_vars

(***************************************************************************)
(* Fairness: every goroutine of the broker and of the agents that can run  *)
(* does, and an open page drains its socket. Nobody has to dial, type,     *)
(* leave, print or exit, and no link has to fail.                          *)
(***************************************************************************)
Fairness ==
    /\ \A c \in Conn : WF_vars(BrokerStep(c)) /\ WF_vars(AgentStep(c))
    /\ \A s \in Session :
          WF_vars(TerminalStep(s)) /\ WF_vars(ShowStep(s)) /\ WF_vars(ReaderStep(s))

FairSpec == Spec /\ Fairness

TypeOK == WireTypeOK /\ BrokerTypeOK /\ AgentTypeOK /\ shown \in [Session -> Seq(Chunk)]

-----------------------------------------------------------------------------
(***************************************************************************)
(* Safety.                                                                 *)
(***************************************************************************)
Upto(n) == [i \in 1..n |-> i]

(* The page shows what the shell printed, from the start, in order and     *)
(* without a gap or a repeat, through two queues, the reader goroutine and *)
(* the broker's loop (agent.go:118-131, broker.go:147-153).                *)
OutputIsPrefix ==
    \A s \in Session : Len(shown[s]) <= printed[s] /\ shown[s] = Upto(Len(shown[s]))

(* The shell is given what the user typed, likewise (broker.go:198-209,    *)
(* agent.go:136-143).                                                      *)
InputIsPrefix ==
    \A s \in Session : Len(got[s]) <= typed[s] /\ got[s] = Upto(Len(got[s]))

InFlight(queue, f) == \E i \in 1..Len(queue) : queue[i] = f

(* No shell outlives its terminal while the agent can be told: if its      *)
(* connectWS has finished, the agent's link is up and Run serves it, the   *)
(* Close that ends the shell is on its way (broker.go:210).                *)
NoLeakedShell ==
    \A s \in Session :
        /\ home[s] # None /\ s \in shells[home[s]]
        /\ link[home[s]] = "up"
        /\ cpc[s] \in {"end", "close", "done"}
        => InFlight(toAgent[home[s]], Close(s))

(* No terminal outlives its shell while the broker can be told: a bridged  *)
(* terminal on a link that is up has its shell in a.shells, or its Open is *)
(* still to be read, or someone still has to tell the broker, or the Close *)
(* is on its way (agent.go:106-111, 145-154).                              *)
TerminalHasShell ==
    \A s \in Session :
        LET c == cac[s] IN
        sessions[s] # None /\ cpc[s] \in {"read", "input"} /\ link[c] = "up" =>
            \/ s \in shells[c] \/ InFlight(toAgent[c], Open(s))
            \/ rd[s] \in {"kill", "notify"} \/ cur[c] = s
            \/ InFlight(toBroker[c], Close(s))
            \/ rpc[c] = "return"

(* A shell is closed by one goroutine: Run's closeShell, the reader's and  *)
(* closeAll never hold the same shell, so cmd.Wait is called once          *)
(* (agent.go:145-164, shell.go:42-49); and a running shell is in the map   *)
(* or held by the one that will kill it, as long as the agent runs.        *)
Closers(s) ==
    (IF rd[s] = "kill" THEN {<<home[s], "reader">>} ELSE {})
      \cup {<<c, "run">> : c \in {k \in Conn : rpc[k] = "kill" /\ cur[k] = s}}
      \cup {<<c, "all">> : c \in {k \in Conn : s \in doomed[k]}}
      \cup {<<c, "map">> : c \in {k \in Conn : s \in shells[k]}}

OneCloser ==
    \A s \in Session :
        /\ \A x, y \in Closers(s) : x = y
        /\ proc[s] = "running" /\ rpc[home[s]] # "exited" => Closers(s) # {}

-----------------------------------------------------------------------------
(***************************************************************************)
(* Liveness.                                                               *)
(***************************************************************************)
(* When the browser leaves, its shell is killed and stays dead, unless the *)
(* agent itself is gone; this holds too for a browser that leaves before   *)
(* the agent has read the Open (broker.go:192-211, agent.go:106, 145).     *)
LeavingReapsShell ==
    \A s \in Session :
        ws[s] = "gone" ~>
            [](home[s] # None => proc[s] = "reaped" \/ rpc[home[s]] = "exited")

(* When the shell ends, the page is told, unless the link is dead          *)
(* (agent.go:132, broker.go:154-155).                                      *)
ExitClosesTerminal ==
    \A s \in Session :
        proc[s] = "exited" ~>
            ws[s] # "open" \/ (home[s] # None /\ link[home[s]] # "up")

-----------------------------------------------------------------------------
(* agent.go:64-73 expects the broker's answer to a registration to be      *)
(* "registered" or "error": the first frame an agent reads is one of them. *)
RegisteredFirst ==
    \A c \in Conn : rpc[c] = "await" /\ Readable(toAgent[c]) =>
        Received(c).type \in {"registered", "error"}

=============================================================================
