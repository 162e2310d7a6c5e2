------------------------------- MODULE Agent --------------------------------
(***************************************************************************)
(* mm-agent: internal/agent, internal/shell and the process around them.   *)
(*                                                                         *)
(* agent.Run(c) is one goroutine, at rpc[c]. Each shell it opens has a     *)
(* reader goroutine of its own, at rd[s]. They share a.shells under a.mu   *)
(* and the control session under a.wmu. A step ends at an unlock, a socket *)
(* operation or a wait for the shell. A session is opened on one link, so  *)
(* what belongs to its shell is indexed by the session alone.              *)
(***************************************************************************)
EXTENDS Wire

ASSUME SessionNone == None \notin Session

VARIABLES
    rpc,      \* Run: next step
    cur,      \* Run: the session it is closing
    doomed,   \* Run: closeAll's copy of a.shells
    shells,   \* a.shells, [Conn -> SUBSET Session]
    home,     \* the Run that opened the shell, None before
    proc,     \* the shell's process
    rd,       \* the shell's reader goroutine
    printed,  \* chunks the shell has printed and the reader read
    got       \* chunks the shell has been given, in order

runVars   == <<rpc, cur, doomed>>
shellVars == <<home, proc, rd, printed, got>>
agentVars == <<runVars, shells, shellVars>>

RunPC == {"idle", "register", "await", "serve", "kill", "notify", "closeall",
          "return", "exited"}
(* "exited": the process ended by itself; "reaped": Close killed it or     *)
(* found it dead, and waited for it.                                       *)
ProcState == {"none", "running", "exited", "reaped"}
ReaderPC  == {"none", "read", "out", "closing", "kill", "notify", "done"}

AgentTypeOK ==
    /\ rpc \in [Conn -> RunPC]
    /\ cur \in [Conn -> Session \cup {None}]
    /\ doomed \in [Conn -> SUBSET Session]
    /\ shells \in [Conn -> SUBSET Session]
    /\ home \in [Session -> Conn \cup {None}]
    /\ proc \in [Session -> ProcState]
    /\ rd \in [Session -> ReaderPC]
    /\ printed \in [Session -> 0..MaxChunk]
    /\ got \in [Session -> Seq(Chunk)]

AgentInit ==
    /\ rpc = [c \in Conn |-> "idle"]
    /\ cur = [c \in Conn |-> None]
    /\ doomed = [c \in Conn |-> {}]
    /\ shells = [c \in Conn |-> {}]
    /\ home = [s \in Session |-> None]
    /\ proc = [s \in Session |-> "none"]
    /\ rd = [s \in Session |-> "none"]
    /\ printed = [s \in Session |-> 0]
    /\ got = [s \in Session |-> <<>>]

GoRun(c, to) == rpc' = [rpc EXCEPT ![c] = to]

(* shell.Start and shell.Close: closing the PTY, killing and waiting.      *)
ShellStart(s) == proc' = [proc EXCEPT ![s] = "running"]
ShellClose(s) == proc' = [proc EXCEPT ![s] = "reaped"]

(* Session.Read at the agent takes the head of toAgent[c].                 *)
Received(c) == Head(toAgent[c])
Take(c) == toAgent' = [toAgent EXCEPT ![c] = Tail(@)] /\ UNCHANGED <<link, toBroker>>

-----------------------------------------------------------------------------
(***************************************************************************)
(* Run up to the registration.                                             *)
(***************************************************************************)
(* Dial and Handshake; the broker's half is Broker!Accept, which owns link. *)
Dial(c) ==
    /\ rpc[c] = "idle"
    /\ GoRun(c, "register")
    /\ UNCHANGED <<cur, doomed, shells, shellVars>>

WriteRegister(c, d) ==
    /\ rpc[c] = "register"
    /\ \/ WriteOK(c, Register(d)) /\ GoRun(c, "await")
       \/ WriteErr(c) /\ GoRun(c, "return")
    /\ UNCHANGED <<link, toAgent, cur, doomed, shells, shellVars>>

(* "registered" starts the loop; "error" and any other reply end Run.      *)
AwaitReply(c) ==
    /\ rpc[c] = "await"
    /\ \/ /\ Readable(toAgent[c])
          /\ Take(c)
          /\ GoRun(c, IF Received(c).type = "registered" THEN "serve" ELSE "return")
       \/ ReadFails(c) /\ UNCHANGED wireVars /\ GoRun(c, "return")
    /\ UNCHANGED <<cur, doomed, shells, shellVars>>

-----------------------------------------------------------------------------
(***************************************************************************)
(* Run's loop. The broker sends "registered" once and "error" never after  *)
(* it, so the frames the switch has no case for do not come.               *)
(***************************************************************************)
(* openShell. The shell is in the map before its reader starts. A shell    *)
(* that does not start is answered with Close.                             *)
OpenShell(c) ==
    /\ rpc[c] = "serve" /\ Readable(toAgent[c]) /\ Received(c).type = "open"
    /\ LET s == Received(c).sess IN
         \/ /\ shells' = [shells EXCEPT ![c] = @ \cup {s}]
            /\ home' = [home EXCEPT ![s] = c]
            /\ ShellStart(s)
            /\ rd' = [rd EXCEPT ![s] = "read"]
            /\ UNCHANGED <<rpc, cur>>
         \/ /\ GoRun(c, "notify")
            /\ cur' = [cur EXCEPT ![c] = s]
            /\ UNCHANGED <<shells, home, proc, rd>>
    /\ Take(c)
    /\ UNCHANGED <<doomed, printed, got>>

(* input. A write to a shell that is being closed is lost, like one to a   *)
(* shell no longer in the map. MaxChunk is below the PTY's buffer, so the  *)
(* write does not block.                                                   *)
ShellInput(c) ==
    /\ rpc[c] = "serve" /\ Readable(toAgent[c]) /\ Received(c).type = "in"
    /\ LET m == Received(c) IN
         got' = [got EXCEPT ![m.sess] =
                    IF m.sess \in shells[c] THEN Append(@, m.data) ELSE @]
    /\ Take(c)
    /\ UNCHANGED <<runVars, shells, home, proc, rd, printed>>

(* A mutant: the loop has no case for Close.                               *)
RunCloseMissing(c) ==
    /\ rpc[c] = "serve" /\ Readable(toAgent[c]) /\ Received(c).type = "close"
    /\ Take(c)
    /\ UNCHANGED agentVars

(* closeShell, called by Run: delete under a.mu, then kill and wait, then  *)
(* tell the broker. Nothing is done for a session not in the map.          *)
RunClose(c) ==
    /\ rpc[c] = "serve" /\ Readable(toAgent[c]) /\ Received(c).type = "close"
    /\ LET s == Received(c).sess IN
         /\ shells' = [shells EXCEPT ![c] = @ \ {s}]
         /\ IF s \in shells[c]
              THEN GoRun(c, "kill") /\ cur' = [cur EXCEPT ![c] = s]
              ELSE UNCHANGED <<rpc, cur>>
    /\ Take(c)
    /\ UNCHANGED <<doomed, shellVars>>

RunKill(c) ==
    /\ rpc[c] = "kill"
    /\ ShellClose(cur[c])
    /\ GoRun(c, "notify")
    /\ UNCHANGED <<wireVars, cur, doomed, shells, home, rd, printed, got>>

(* A mutant: the session is forgotten before the broker is told.           *)
RunNotifyClearsFirst(c) ==
    /\ rpc[c] = "notify"
    /\ cur' = [cur EXCEPT ![c] = None]
    /\ WriteOK(c, Close(cur'[c])) \/ WriteErr(c)
    /\ GoRun(c, "serve")
    /\ UNCHANGED <<link, toAgent, doomed, shells, shellVars>>

RunNotify(c) ==
    /\ rpc[c] = "notify"
    /\ WriteOK(c, Close(cur[c])) \/ WriteErr(c)
    /\ GoRun(c, "serve")
    /\ cur' = [cur EXCEPT ![c] = None]
    /\ UNCHANGED <<link, toAgent, doomed, shells, shellVars>>

(* The read fails: closeAll takes the map under a.mu and closes each shell. *)
RunErr(c) ==
    /\ rpc[c] = "serve" /\ ReadFails(c)
    /\ doomed' = [doomed EXCEPT ![c] = shells[c]]
    /\ shells' = [shells EXCEPT ![c] = {}]
    /\ GoRun(c, "closeall")
    /\ UNCHANGED <<wireVars, cur, shellVars>>

CloseAll(c) ==
    /\ rpc[c] = "closeall"
    /\ \/ \E s \in doomed[c] :
            /\ doomed' = [doomed EXCEPT ![c] = @ \ {s}]
            /\ ShellClose(s)
            /\ UNCHANGED rpc
       \/ doomed[c] = {} /\ GoRun(c, "return") /\ UNCHANGED <<doomed, proc>>
    /\ UNCHANGED <<wireVars, cur, shells, home, rd, printed, got>>

(* main: Run returned, log.Fatalf. The kernel closes the socket, and every *)
(* goroutine ends where it is; what was not read is discarded.             *)
Exit(c) ==
    /\ rpc[c] = "return"
    /\ GoRun(c, "exited")
    /\ link' = [link EXCEPT ![c] = IF @ = "up" THEN "lost" ELSE @]
    /\ toAgent' = [toAgent EXCEPT ![c] = <<>>]
    /\ UNCHANGED <<toBroker, cur, doomed, shells, shellVars>>

Run(c) ==
    \/ AwaitReply(c) \/ OpenShell(c) \/ ShellInput(c) \/ RunClose(c)
    \/ RunKill(c) \/ RunNotify(c) \/ RunErr(c) \/ CloseAll(c) \/ Exit(c)

-----------------------------------------------------------------------------
(***************************************************************************)
(* The shell and its reader goroutine. Both the reader and the process's   *)
(* output stop when the agent exits.                                       *)
(***************************************************************************)
Alive(s) == home[s] # None /\ rpc[home[s]] # "exited"
GoReader(s, to) == rd' = [rd EXCEPT ![s] = to]

(* The shell prints and the reader's Read returns it.                      *)
ReadShell(s) ==
    /\ Alive(s) /\ rd[s] = "read" /\ proc[s] = "running" /\ printed[s] < MaxChunk
    /\ printed' = [printed EXCEPT ![s] = @ + 1]
    /\ GoReader(s, "out")
    /\ UNCHANGED <<wireVars, runVars, shells, home, proc, got>>

SendOutput(s) ==
    /\ Alive(s) /\ rd[s] = "out"
    /\ \/ WriteOK(home[s], Output(s, printed[s])) /\ GoReader(s, "read")
       \/ WriteErr(home[s]) /\ GoReader(s, "closing")
    /\ UNCHANGED <<link, toAgent, runVars, shells, home, proc, printed, got>>

(* A mutant: the reader returns without closeShell.                        *)
ReadShellErrReturns(s) ==
    /\ Alive(s) /\ rd[s] = "read" /\ proc[s] \in {"exited", "reaped"}
    /\ GoReader(s, "done")
    /\ UNCHANGED <<wireVars, runVars, shells, home, proc, printed, got>>

ReadShellErr(s) ==
    /\ Alive(s) /\ rd[s] = "read" /\ proc[s] \in {"exited", "reaped"}
    /\ GoReader(s, "closing")
    /\ UNCHANGED <<wireVars, runVars, shells, home, proc, printed, got>>

(* A mutant: closeShell looks the shell up and deletes it later.           *)
ReaderCloseKeeps(s) ==
    /\ Alive(s) /\ rd[s] = "closing"
    /\ GoReader(s, IF s \in shells[home[s]] THEN "kill" ELSE "done")
    /\ UNCHANGED <<wireVars, runVars, shells, home, proc, printed, got>>

(* closeShell, called by the reader. *)
ReaderClose(s) ==
    /\ Alive(s) /\ rd[s] = "closing"
    /\ shells' = [shells EXCEPT ![home[s]] = @ \ {s}]
    /\ GoReader(s, IF s \in shells[home[s]] THEN "kill" ELSE "done")
    /\ UNCHANGED <<wireVars, runVars, home, proc, printed, got>>

(* A mutant: the shell is killed and the broker not told.                  *)
ReaderKillSilent(s) ==
    /\ Alive(s) /\ rd[s] = "kill"
    /\ ShellClose(s)
    /\ GoReader(s, "done")
    /\ UNCHANGED <<wireVars, runVars, shells, home, printed, got>>

ReaderKill(s) ==
    /\ Alive(s) /\ rd[s] = "kill"
    /\ ShellClose(s)
    /\ GoReader(s, "notify")
    /\ UNCHANGED <<wireVars, runVars, shells, home, printed, got>>

ReaderNotify(s) ==
    /\ Alive(s) /\ rd[s] = "notify"
    /\ WriteOK(home[s], Close(s)) \/ WriteErr(home[s])
    /\ GoReader(s, "done")
    /\ UNCHANGED <<link, toAgent, runVars, shells, home, proc, printed, got>>

Reader(s) ==
    \/ SendOutput(s) \/ ReadShellErr(s) \/ ReaderClose(s) \/ ReaderKill(s)
    \/ ReaderNotify(s)

(* The user's "exit", or the shell dying by itself.                        *)
ShellExits(s) ==
    /\ proc[s] = "running"
    /\ proc' = [proc EXCEPT ![s] = "exited"]
    /\ UNCHANGED <<wireVars, runVars, shells, home, rd, printed, got>>

=============================================================================
