---------------------------- MODULE MiniCloudProofs --------------------------
(***************************************************************************)
(* Proofs about the mini-cloud: broker, agents, shells and pages together, *)
(* for any devices, connections, terminals, windows and bounds.            *)
(*                                                                         *)
(* CloudInv is inductive. Beside the types it says: what any connection    *)
(* that is named anywhere has reached (LiveInv); whose shell is whose and  *)
(* who will close it (RunInv, ShellInv); that a terminal's Open comes      *)
(* before everything else about it and before its shell (OpenInv); and     *)
(* that the two streams of bytes, each spread over several queues and      *)
(* program counters, have no gap and no repeat (TypedInv, InputInv,        *)
(* PageInv, OutputInv). LeakInv and TerminalHasShell are kept by every     *)
(* step given CloudInv.                                                    *)
(***************************************************************************)
EXTENDS MiniCloud, BrokerTypes

(* A stream: the frames of type t about terminal s in a queue, numbered.   *)
Is(f, t, s) == f.type = t /\ f.sess = s

(* Their numbers rise, and none is above n.                                *)
Rising(q, t, s, n) ==
    \A i \in 1..Len(q) : Is(q[i], t, s) =>
        /\ q[i].data \in 1..n
        /\ \A j \in 1..Len(q) : Is(q[j], t, s) /\ i < j => q[i].data < q[j].data

(* They follow g without a gap.                                            *)
Follows(q, t, s, g) ==
    \A i \in 1..Len(q) : Is(q[i], t, s) =>
        /\ q[i].data > g
        /\ \/ q[i].data = g + 1
           \/ \E j \in 1..Len(q) : Is(q[j], t, s) /\ q[j].data = q[i].data - 1

(* They go on up to n.                                                     *)
Reaches(q, t, s, g, n) ==
    n = g \/ \E j \in 1..Len(q) : Is(q[j], t, s) /\ q[j].data = n

-----------------------------------------------------------------------------
CloudTypes == TInv /\ AgentTypeOK /\ shown \in [Session -> Seq(Chunk)]

(* Before agentWS has published its connection in b.agents.                *)
Pre == {"idle", "register", "check", "deny", "attach"}

(* Whatever b.agents or connectWS's ac names was published; and a handler  *)
(* has a link once it runs.                                                *)
LiveInv ==
    /\ \A c \in Conn : apc[c] = "idle" <=> link[c] = "none"
    /\ \A d \in Device : agents[d] # None => apc[agents[d]] \notin Pre
    /\ \A s \in Session : cac[s] # None => apc[cac[s]] \notin Pre

(* connectWS has sent Open to its agent, or given up.                      *)
Past(s) == cac[s] # None /\ cpc[s] \in {"read", "input", "bye", "end", "close", "done"}

(* What Run's loop and closeAll have in hand is theirs.                    *)
RunInv ==
    \A c \in Conn :
        /\ rpc[c] \in {"kill", "notify"} <=> cur[c] # None
        /\ doomed[c] # {} => rpc[c] = "closeall"
        /\ shells[c] # {} => rpc[c] \in {"serve", "kill", "notify"}
        /\ \A s \in shells[c] \cup doomed[c] : home[s] = c
        /\ rpc[c] = "kill" => home[cur[c]] = c /\ cur[c] \notin shells[c]

(* Run, its closeAll or its map has the shell of s.                        *)
RunHas(c, s) == s \in shells[c] \/ s \in doomed[c] \/ (rpc[c] = "kill" /\ cur[c] = s)

(* A shell belongs to the connection its terminal was opened on. While it  *)
(* runs, exactly one goroutine will close it.                              *)
ShellInv ==
    \A s \in Session :
        /\ home[s] = None => proc[s] = "none" /\ rd[s] = "none" /\ printed[s] = 0 /\ got[s] = <<>>
        /\ home[s] # None => home[s] = cac[s] /\ Past(s)
        /\ rd[s] = "out" => printed[s] > 0
        /\ rd[s] = "kill" => \A c \in Conn : ~RunHas(c, s)
        /\ proc[s] = "running" /\ rpc[home[s]] # "exited" =>
             rd[s] = "kill" \/ RunHas(home[s], s)

(* f is about terminal s.                                                  *)
About(f, s) == f.type \in {"open", "in", "close"} /\ f.sess = s

(* What the broker sends about a terminal goes to the agent it looked up,  *)
(* and Open is the first of it: at that time the agent has no shell of     *)
(* that name, and none comes later.                                        *)
OpenInv ==
    \A c \in Conn, s \in Session : \A i \in 1..Len(toAgent[c]) :
        /\ About(toAgent[c][i], s) => cac[s] = c /\ Past(s)
        /\ toAgent[c][i] = Open(s) =>
             /\ home[s] = None
             /\ \A j \in 1..Len(toAgent[c]) : About(toAgent[c][j], s) => i <= j

(* s has a shell to type to, or will have one.                             *)
Hears(s) == Past(s) /\ (s \in shells[cac[s]] \/ InFlight(toAgent[cac[s]], Open(s)))

(* How many chunks connectWS has sent to the agent.                        *)
Sent(s) == typed[s] - Len(fromBrowser[s]) - (IF cpc[s] = "input" THEN 1 ELSE 0)

(* The input of s at the browser's end: fromBrowser and cbuf hold the last *)
(* chunks typed.                                                           *)
TypedInv ==
    \A s \in Session :
        /\ Sent(s) \in Nat
        /\ \A i \in 1..Len(fromBrowser[s]) :
             fromBrowser[s][i] = typed[s] - Len(fromBrowser[s]) + i
        /\ cpc[s] = "input" => cbuf[s] = Sent(s) + 1
        /\ ~Past(s) => Sent(s) = 0

(* The input of s from there over the link to the shell.                   *)
InputInv ==
    \A s \in Session :
        /\ \A i \in 1..Len(got[s]) : got[s][i] = i
        /\ Len(got[s]) <= Sent(s)
        /\ \A c \in Conn : Rising(toAgent[c], "in", s, Sent(s))
        /\ Hears(s) =>
             /\ Follows(toAgent[cac[s]], "in", s, Len(got[s]))
             /\ link[cac[s]] = "up" => Reaches(toAgent[cac[s]], "in", s, Len(got[s]), Sent(s))

(* How many chunks the reader goroutine has sent, how many of them have    *)
(* come to the page, and to the broker's loop.                             *)
OutSent(s) == printed[s] - (IF rd[s] = "out" THEN 1 ELSE 0)
Arrived(s) == Len(shown[s]) + Len(toBrowser[s])
Holding(c, s) == apc[c] = "write" /\ held[c].sess = s
Delivered(s) == Arrived(s) + (IF Holding(home[s], s) THEN 1 ELSE 0)

(* The output of s at the browser's end.                                   *)
PageInv ==
    \A s \in Session :
        /\ \A i \in 1..Len(shown[s]) : shown[s][i] = i
        /\ \A i \in 1..Len(toBrowser[s]) : toBrowser[s][i] = Len(shown[s]) + i
        /\ Arrived(s) <= OutSent(s)
        /\ \A c \in Conn : Holding(c, s) =>
             /\ home[s] = c /\ held[c].data <= OutSent(s)
             /\ ws[s] = "open" => held[c].data = Arrived(s) + 1

(* The output of s before that: from the shell over the reader, the link   *)
(* and the frame in the broker's hand.                                     *)
OutputInv ==
    \A s \in Session :
        /\ \A c \in Conn :
             /\ \A i \in 1..Len(toBroker[c]) : Is(toBroker[c][i], "out", s) => home[s] = c
             /\ Rising(toBroker[c], "out", s, OutSent(s))
        /\ home[s] # None /\ ws[s] = "open" /\ sessions[s] # None =>
             /\ Follows(toBroker[home[s]], "out", s, Delivered(s))
             /\ link[home[s]] = "up" =>
                  Reaches(toBroker[home[s]], "out", s, Delivered(s), OutSent(s))

CloudInv ==
    CloudTypes /\ LiveInv /\ RunInv /\ ShellInv /\ OpenInv
      /\ TypedInv /\ InputInv /\ PageInv /\ OutputInv

(* A shell that is there, or will be, although its terminal has ended is   *)
(* about to be closed.                                                     *)
LeakInv ==
    \A s \in Session :
        Hears(s) /\ link[cac[s]] = "up" /\ cpc[s] \in {"end", "close", "done"} =>
            InFlight(toAgent[cac[s]], Close(s))

-----------------------------------------------------------------------------
(* Sequences as the queues are used.                                       *)
LEMMA Appended ==
    ASSUME NEW S, NEW q \in Seq(S), NEW f \in S
    PROVE  /\ Append(q, f) \in Seq(S) /\ Len(Append(q, f)) = Len(q) + 1
           /\ \A i \in 1..Len(q) : Append(q, f)[i] = q[i]
           /\ Append(q, f)[Len(q) + 1] = f
OBVIOUS

LEMMA HeadRest ==
    ASSUME NEW S, NEW q \in Seq(S), q # <<>>
    PROVE  /\ Tail(q) \in Seq(S) /\ Len(q) \in Nat \ {0} /\ Len(Tail(q)) = Len(q) - 1
           /\ \A i \in 1..Len(Tail(q)) : i + 1 \in 1..Len(q) /\ Tail(q)[i] = q[i + 1]
           /\ \A i \in 1..Len(q) : i = 1 \/ (i - 1 \in 1..Len(Tail(q)) /\ Tail(q)[i - 1] = q[i])
           /\ Head(q) = q[1] /\ Head(q) \in S
OBVIOUS

LEMMA Flying ==
    ASSUME NEW S, NEW q \in Seq(S), NEW f \in S, NEW g
    PROVE  InFlight(Append(q, f), g) <=> InFlight(q, g) \/ f = g
<1>1. InFlight(q, g) => InFlight(Append(q, f), g)
  BY Appended DEF InFlight
<1>2. f = g => InFlight(Append(q, f), g)
  BY Appended DEF InFlight
<1>3. InFlight(Append(q, f), g) => InFlight(q, g) \/ f = g
  <2> SUFFICES ASSUME NEW i \in 1..Len(q) + 1, Append(q, f)[i] = g PROVE InFlight(q, g) \/ f = g
    BY Appended DEF InFlight
  <2>1. CASE i = Len(q) + 1
    BY <2>1, Appended
  <2>2. CASE i # Len(q) + 1
    <3>1. i \in 1..Len(q)
      BY <2>2
    <3> QED
      BY <3>1, Appended DEF InFlight
  <2> QED
    BY <2>1, <2>2
<1> QED
  BY <1>1, <1>2, <1>3

LEMMA Landing ==
    ASSUME NEW S, NEW q \in Seq(S), q # <<>>, NEW g
    PROVE  /\ InFlight(Tail(q), g) => InFlight(q, g)
           /\ InFlight(q, g) => InFlight(Tail(q), g) \/ Head(q) = g
<1>1. InFlight(Tail(q), g) => InFlight(q, g)
  BY HeadRest DEF InFlight
<1>2. InFlight(q, g) => InFlight(Tail(q), g) \/ Head(q) = g
  <2> SUFFICES ASSUME NEW i \in 1..Len(q), q[i] = g PROVE InFlight(Tail(q), g) \/ Head(q) = g
    BY DEF InFlight
  <2>1. CASE i = 1
    BY <2>1, HeadRest
  <2>2. CASE i # 1
    <3>1. i - 1 \in 1..Len(Tail(q)) /\ Tail(q)[i - 1] = g
      BY <2>2, HeadRest
    <3> QED
      BY <3>1 DEF InFlight
  <2> QED
    BY <2>1, <2>2
<1> QED
  BY <1>1, <1>2

(* A frame that is not of the stream does not matter to it.                *)
LEMMA OtherSent ==
    ASSUME NEW S, NEW q \in Seq(S), NEW f \in S, NEW t, NEW s, ~Is(f, t, s),
           NEW g \in Nat, NEW n \in Nat
    PROVE  /\ Rising(q, t, s, n) => Rising(Append(q, f), t, s, n)
           /\ Follows(q, t, s, g) => Follows(Append(q, f), t, s, g)
           /\ Reaches(q, t, s, g, n) => Reaches(Append(q, f), t, s, g, n)
<1> DEFINE r == Append(q, f)
<1>1. /\ Len(q) \in Nat /\ Len(r) = Len(q) + 1 /\ \A i \in 1..Len(q) : r[i] = q[i]
      /\ \A i \in 1..Len(r) : Is(r[i], t, s) => i \in 1..Len(q)
  BY Appended
<1> HIDE DEF r
<1>2. Rising(q, t, s, n) => Rising(r, t, s, n)
  BY <1>1 DEF Rising
<1>3. Follows(q, t, s, g) => Follows(r, t, s, g)
  BY <1>1 DEF Follows
<1>4. Reaches(q, t, s, g, n) => Reaches(r, t, s, g, n)
  BY <1>1 DEF Reaches
<1> QED
  BY <1>2, <1>3, <1>4 DEF r

LEMMA OtherTaken ==
    ASSUME NEW S, NEW q \in Seq(S), q # <<>>, NEW t, NEW s, NEW g \in Nat, NEW n \in Nat
    PROVE  /\ Rising(q, t, s, n) => Rising(Tail(q), t, s, n)
           /\ ~Is(Head(q), t, s) =>
                /\ Follows(q, t, s, g) => Follows(Tail(q), t, s, g)
                /\ Reaches(q, t, s, g, n) => Reaches(Tail(q), t, s, g, n)
<1> DEFINE r == Tail(q)
<1>1. /\ Len(q) \in Nat \ {0} /\ Len(r) = Len(q) - 1
      /\ \A i \in 1..Len(r) : i + 1 \in 1..Len(q) /\ r[i] = q[i + 1]
  BY HeadRest
<1>2. ~Is(Head(q), t, s) =>
        \A j \in 1..Len(q) : Is(q[j], t, s) => j - 1 \in 1..Len(r) /\ r[j - 1] = q[j]
  BY HeadRest
<1> HIDE DEF r
<1>3. ASSUME Rising(q, t, s, n) PROVE Rising(r, t, s, n)
  <2> SUFFICES ASSUME NEW i \in 1..Len(r), Is(r[i], t, s)
               PROVE  /\ r[i].data \in 1..n
                      /\ \A j \in 1..Len(r) : Is(r[j], t, s) /\ i < j => r[i].data < r[j].data
    BY DEF Rising
  <2>1. i + 1 \in 1..Len(q) /\ r[i] = q[i + 1]
    BY <1>1
  <2>2. ASSUME NEW j \in 1..Len(r), Is(r[j], t, s), i < j PROVE r[i].data < r[j].data
    <3>1. j + 1 \in 1..Len(q) /\ r[j] = q[j + 1] /\ i + 1 < j + 1
      BY <1>1, <2>2
    <3> QED
      BY <1>3, <2>1, <2>2, <3>1 DEF Rising
  <2> QED
    BY <1>3, <2>1, <2>2 DEF Rising
<1>4. ASSUME ~Is(Head(q), t, s), Follows(q, t, s, g) PROVE Follows(r, t, s, g)
  <2> SUFFICES ASSUME NEW i \in 1..Len(r), Is(r[i], t, s)
               PROVE  /\ r[i].data > g
                      /\ \/ r[i].data = g + 1
                         \/ \E j \in 1..Len(r) : Is(r[j], t, s) /\ r[j].data = r[i].data - 1
    BY DEF Follows
  <2>1. i + 1 \in 1..Len(q) /\ r[i] = q[i + 1]
    BY <1>1
  <2>2. /\ r[i].data > g
        /\ \/ r[i].data = g + 1
           \/ \E j \in 1..Len(q) : Is(q[j], t, s) /\ q[j].data = r[i].data - 1
    BY <1>4, <2>1 DEF Follows
  <2> QED
    BY <1>2, <1>4, <2>2
<1>5. ~Is(Head(q), t, s) /\ Reaches(q, t, s, g, n) => Reaches(r, t, s, g, n)
  BY <1>2 DEF Reaches
<1> QED
  BY <1>3, <1>4, <1>5 DEF r

(* The next frame of the stream is sent.                                   *)
LEMMA NextSent ==
    ASSUME NEW S, NEW q \in Seq(S), NEW f \in S, NEW t, NEW s, Is(f, t, s),
           NEW g \in Nat, NEW n \in Nat, f.data = n + 1, Rising(q, t, s, n)
    PROVE  /\ Rising(Append(q, f), t, s, n + 1)
           /\ g <= n /\ Follows(q, t, s, g) /\ Reaches(q, t, s, g, n) =>
                Follows(Append(q, f), t, s, g) /\ Reaches(Append(q, f), t, s, g, n + 1)
<1> DEFINE r == Append(q, f)
<1>1. /\ Len(q) \in Nat /\ Len(r) = Len(q) + 1 /\ \A i \in 1..Len(q) : r[i] = q[i]
      /\ r[Len(q) + 1] = f
      /\ \A i \in 1..Len(r) : i \in 1..Len(q) \/ i = Len(q) + 1
  BY Appended
<1> HIDE DEF r
<1>2. Rising(r, t, s, n + 1)
  <2> SUFFICES ASSUME NEW i \in 1..Len(r), Is(r[i], t, s)
               PROVE  /\ r[i].data \in 1..n+1
                      /\ \A j \in 1..Len(r) : Is(r[j], t, s) /\ i < j => r[i].data < r[j].data
    BY DEF Rising
  <2>1. CASE i \in 1..Len(q)
    <3>1. r[i].data \in 1..n
      BY <1>1, <2>1 DEF Rising
    <3> QED
      BY <1>1, <2>1, <3>1 DEF Rising
  <2>2. CASE i = Len(q) + 1
    BY <1>1, <2>2
  <2> QED
    BY <1>1, <2>1, <2>2
<1>3. ASSUME g <= n, Follows(q, t, s, g), Reaches(q, t, s, g, n)
      PROVE  Follows(r, t, s, g) /\ Reaches(r, t, s, g, n + 1)
  <2>1. Reaches(r, t, s, g, n + 1)
    BY <1>1 DEF Reaches
  <2>2. ASSUME NEW i \in 1..Len(r), Is(r[i], t, s)
        PROVE  /\ r[i].data > g
               /\ \/ r[i].data = g + 1
                  \/ \E j \in 1..Len(r) : Is(r[j], t, s) /\ r[j].data = r[i].data - 1
    <3>1. CASE i \in 1..Len(q)
      <4>1. /\ q[i].data > g
            /\ \/ q[i].data = g + 1
               \/ \E j \in 1..Len(q) : Is(q[j], t, s) /\ q[j].data = q[i].data - 1
        BY <1>1, <1>3, <2>2, <3>1 DEF Follows
      <4>2. 1..Len(q) \subseteq 1..Len(r) /\ r[i] = q[i]
        BY <1>1, <3>1
      <4> QED
        BY <1>1, <4>1, <4>2
    <3>2. CASE i = Len(q) + 1
      BY <1>1, <1>3, <3>2 DEF Reaches
    <3> QED
      BY <1>1, <3>1, <3>2
  <2> QED
    BY <2>1, <2>2 DEF Follows
<1> QED
  BY <1>2, <1>3 DEF r

(* The head of the stream is the next one, and the rest follows it.        *)
LEMMA NextTaken ==
    ASSUME NEW S, NEW q \in Seq(S), q # <<>>, NEW t, NEW s, Is(Head(q), t, s),
           NEW g \in Nat, NEW n \in Nat, Rising(q, t, s, n), Follows(q, t, s, g)
    PROVE  /\ Head(q).data = g + 1 /\ g + 1 <= n
           /\ Follows(Tail(q), t, s, g + 1)
           /\ Reaches(q, t, s, g, n) => Reaches(Tail(q), t, s, g + 1, n)
<1> DEFINE r == Tail(q)
<1>1. /\ Len(q) \in Nat \ {0} /\ Len(r) = Len(q) - 1 /\ Head(q) = q[1]
      /\ \A i \in 1..Len(r) : i + 1 \in 1..Len(q) /\ r[i] = q[i + 1]
      /\ \A i \in 1..Len(q) : i = 1 \/ (i - 1 \in 1..Len(r) /\ r[i - 1] = q[i])
  BY HeadRest
<1> HIDE DEF r
<1>2. Is(q[1], t, s) /\ 1 \in 1..Len(q)
  BY <1>1
<1>3. \A j \in 1..Len(q) : Is(q[j], t, s) => q[j].data \in 1..n /\ (j # 1 => q[1].data < q[j].data)
  BY <1>2 DEF Rising
<1>4. q[1].data = g + 1 /\ g + 1 <= n
  <2>1. q[1].data > g /\ q[1].data \in 1..n
    BY <1>2 DEF Rising, Follows
  <2>2. ASSUME NEW j \in 1..Len(q), Is(q[j], t, s), q[j].data = q[1].data - 1
        PROVE  FALSE
    BY <1>3, <2>1, <2>2
  <2> QED
    BY <1>2, <2>1, <2>2 DEF Follows
<1>5. Follows(r, t, s, g + 1)
  <2> SUFFICES ASSUME NEW i \in 1..Len(r), Is(r[i], t, s)
               PROVE  /\ r[i].data > g + 1
                      /\ \/ r[i].data = g + 1 + 1
                         \/ \E j \in 1..Len(r) : Is(r[j], t, s) /\ r[j].data = r[i].data - 1
    BY DEF Follows
  <2>1. r[i] = q[i + 1] /\ i + 1 \in 1..Len(q) /\ i + 1 # 1
    BY <1>1
  <2>2. r[i].data \in 1..n /\ r[i].data > g + 1
    BY <1>3, <1>4, <2>1
  <2>3. PICK j \in 1..Len(q) : Is(q[j], t, s) /\ q[j].data = r[i].data - 1
    BY <2>1, <2>2 DEF Follows
  <2>4. CASE j = 1
    BY <1>4, <2>2, <2>3, <2>4
  <2>5. CASE j # 1
    <3>1. j - 1 \in 1..Len(r) /\ r[j - 1] = q[j]
      BY <1>1, <2>5
    <3> QED
      BY <2>2, <2>3, <3>1
  <2> QED
    BY <2>4, <2>5
<1>6. Reaches(q, t, s, g, n) => Reaches(r, t, s, g + 1, n)
  <2> SUFFICES ASSUME Reaches(q, t, s, g, n) PROVE Reaches(r, t, s, g + 1, n)
    OBVIOUS
  <2>1. PICK j \in 1..Len(q) : Is(q[j], t, s) /\ q[j].data = n
    BY <1>4 DEF Reaches
  <2> QED
    BY <1>1, <1>4, <2>1 DEF Reaches
<1> QED
  BY <1>1, <1>4, <1>5, <1>6 DEF r

(* More may be sent than is in the queue, when the link is dead.           *)
LEMMA RisingUp ==
    ASSUME NEW q, NEW t, NEW s, NEW n \in Nat, NEW m \in Nat, n <= m, Rising(q, t, s, n)
    PROVE  Rising(q, t, s, m)
BY DEF Rising

-----------------------------------------------------------------------------
(***************************************************************************)
(* The types.                                                              *)
(***************************************************************************)
(* What a frame from the broker has.                                       *)
LEMMA BrokerFrameKinds ==
    ASSUME NEW f \in BrokerFrame
    PROVE  /\ f.type \in {"registered", "error", "open", "in", "close"}
           /\ f.type \in {"open", "in", "close"} => f.sess \in Session
           /\ f.type = "in" => f.data \in Chunk
           /\ f.type = "open" <=> \E s \in Session : f = Open(s)
           /\ f.type = "close" <=> \E s \in Session : f = Close(s)
BY DEF BrokerFrame, Open, Close

(* Every frame an agent sends is one.                                      *)
LEMMA AgentFrameTypes ==
    /\ \A d \in Device : Register(d) \in AgentFrame
    /\ \A s \in Session : Close(s) \in AgentFrame
    /\ \A s \in Session, k \in Chunk : Output(s, k) \in AgentFrame
BY DEF Register, Close, Output, AgentFrame

(* Sending one keeps the types.                                            *)
LEMMA WriteType ==
    ASSUME TInv, NEW c \in Conn, NEW f \in AgentFrame,
           WriteOK(c, f) \/ WriteErr(c), UNCHANGED <<link, toAgent, brokerVars>>
    PROVE  TInv'
<1>1. toBroker[c] \in Seq(AgentFrame) /\ toBroker \in [Conn -> Seq(AgentFrame)]
  BY DEF TInv, WireTypeOK
<1>2. Append(toBroker[c], f) \in Seq(AgentFrame)
  BY <1>1, AppendType
<1>3. [toBroker EXCEPT ![c] = Append(toBroker[c], f)] \in [Conn -> Seq(AgentFrame)]
  BY <1>1, <1>2, UpdateType
<1>4. toBroker' \in [Conn -> Seq(AgentFrame)]
  BY <1>1, <1>3 DEF WriteOK, WriteErr
<1> QED
  BY <1>4 DEF TInv, WireTypeOK, BrokerTypeOK, Phases, brokerVars, tables, agentSide, termSide, webVars

(* Taking one keeps the types.                                             *)
LEMMA TakeType ==
    ASSUME TInv, NEW c \in Conn, Readable(toAgent[c]), Take(c), UNCHANGED brokerVars
    PROVE  TInv' /\ Received(c) \in BrokerFrame
<1>1. toAgent[c] \in Seq(BrokerFrame) /\ toAgent \in [Conn -> Seq(BrokerFrame)]
  BY DEF TInv, WireTypeOK
<1>2. Received(c) \in BrokerFrame /\ Tail(toAgent[c]) \in Seq(BrokerFrame)
  BY <1>1, HeadTail DEF Received, Readable
<1>3. toAgent' \in [Conn -> Seq(BrokerFrame)]
  BY <1>1, <1>2 DEF Take
<1> QED
  BY <1>2, <1>3 DEF Take, TInv, WireTypeOK, BrokerTypeOK, Phases, brokerVars, tables, agentSide,
                    termSide, webVars

(* What a step that leaves the wire and the broker alone keeps.            *)
LEMMA SameTypes ==
    ASSUME TInv, UNCHANGED <<wireVars, brokerVars>>
    PROVE  TInv'
BY DEF TInv, WireTypeOK, BrokerTypeOK, Phases, wireVars, brokerVars, tables, agentSide, termSide,
       webVars

LEMMA RunTypes ==
    ASSUME CloudTypes, RunInv, NEW c \in Conn, Run(c) \/ (\E d \in Device : WriteRegister(c, d)),
           UNCHANGED <<brokerVars, shown>>
    PROVE  CloudTypes'
<1> USE DEF CloudTypes, AgentTypeOK, GoRun, RunPC, ProcState, ReaderPC, shellVars, runVars, agentVars
<1>1. ASSUME NEW d \in Device, WriteRegister(c, d) PROVE CloudTypes'
  <2>1. TInv'
    BY <1>1, WriteType, AgentFrameTypes DEF WriteRegister
  <2>2. AgentTypeOK'
    <3>1. rpc' = [rpc EXCEPT ![c] = "await"] \/ rpc' = [rpc EXCEPT ![c] = "return"]
      BY <1>1 DEF WriteRegister
    <3> QED
      BY <1>1, <3>1 DEF WriteRegister
  <2> QED
    BY <2>1, <2>2
<1>2. CASE AwaitReply(c)
  <2>1. TInv'
    BY <1>2, TakeType, SameTypes DEF AwaitReply
  <2>2. AgentTypeOK'
    <3>1. rpc' = [rpc EXCEPT ![c] = "serve"] \/ rpc' = [rpc EXCEPT ![c] = "return"]
      BY <1>2 DEF AwaitReply
    <3> QED
      BY <1>2, <3>1 DEF AwaitReply
  <2> QED
    BY <2>1, <2>2
<1>3. CASE OpenShell(c)
  <2>1. TInv' /\ Received(c).sess \in Session
    BY <1>3, TakeType, BrokerFrameKinds DEF OpenShell
  <2> DEFINE s == Received(c).sess
  <2>2. CASE /\ shells' = [shells EXCEPT ![c] = @ \cup {s}]
             /\ home' = [home EXCEPT ![s] = c]
             /\ proc' = [proc EXCEPT ![s] = "running"]
             /\ rd' = [rd EXCEPT ![s] = "read"]
             /\ UNCHANGED <<rpc, cur>>
    BY <1>3, <2>1, <2>2 DEF OpenShell
  <2>3. CASE /\ rpc' = [rpc EXCEPT ![c] = "notify"]
             /\ cur' = [cur EXCEPT ![c] = s]
             /\ UNCHANGED <<shells, home, proc, rd>>
    BY <1>3, <2>1, <2>3 DEF OpenShell
  <2>4. AgentTypeOK'
    BY <1>3, <2>2, <2>3 DEF OpenShell, ShellStart
  <2> QED
    BY <2>1, <2>4
<1>4. CASE ShellInput(c)
  <2>1. TInv' /\ Received(c).sess \in Session /\ Received(c).data \in Chunk
    BY <1>4, TakeType, BrokerFrameKinds DEF ShellInput
  <2> DEFINE s == Received(c).sess
  <2>2. Append(got[s], Received(c).data) \in Seq(Chunk)
    BY <2>1, AppendType
  <2>3. got' \in [Session -> Seq(Chunk)]
    BY <1>4, <2>1, <2>2 DEF ShellInput
  <2>4. AgentTypeOK'
    BY <1>4, <2>3 DEF ShellInput
  <2> QED
    BY <2>1, <2>4
<1>5. CASE RunClose(c)
  <2>1. TInv' /\ Received(c).sess \in Session
    BY <1>5, TakeType, BrokerFrameKinds DEF RunClose
  <2>2. AgentTypeOK'
    BY <1>5, <2>1 DEF RunClose
  <2> QED
    BY <2>1, <2>2
<1>6. CASE RunKill(c)
  BY <1>6, SameTypes DEF RunKill, ShellClose
<1>7. CASE RunNotify(c)
  <2>1. cur[c] \in Session
    BY <1>7 DEF RunNotify, RunInv
  <2>2. TInv'
    BY <1>7, <2>1, WriteType, AgentFrameTypes DEF RunNotify
  <2>3. AgentTypeOK'
    BY <1>7 DEF RunNotify
  <2> QED
    BY <2>2, <2>3
<1>8. CASE RunErr(c)
  BY <1>8, SameTypes DEF RunErr
<1>9. CASE CloseAll(c)
  <2>1. TInv'
    BY <1>9, SameTypes DEF CloseAll
  <2>2. CASE doomed[c] = {} /\ rpc' = [rpc EXCEPT ![c] = "return"] /\ UNCHANGED <<doomed, proc>>
    BY <1>9, <2>1, <2>2 DEF CloseAll
  <2>3. ASSUME NEW s \in doomed[c], doomed' = [doomed EXCEPT ![c] = @ \ {s}],
               proc' = [proc EXCEPT ![s] = "reaped"], UNCHANGED rpc
        PROVE  CloudTypes'
    BY <1>9, <2>1, <2>3 DEF CloseAll
  <2> QED
    BY <1>9, <2>2, <2>3 DEF CloseAll, ShellClose
<1>10. CASE Exit(c)
  <2>1. link' \in [Conn -> LinkState] /\ toAgent' \in [Conn -> Seq(BrokerFrame)]
    BY <1>10 DEF Exit, TInv, WireTypeOK, LinkState
  <2>2. TInv'
    BY <1>10, <2>1 DEF Exit, TInv, WireTypeOK, BrokerTypeOK, Phases, brokerVars, tables,
                       agentSide, termSide, webVars
  <2>3. AgentTypeOK'
    BY <1>10 DEF Exit
  <2> QED
    BY <2>2, <2>3
<1> QED
  BY <1>1, <1>2, <1>3, <1>4, <1>5, <1>6, <1>7, <1>8, <1>9, <1>10 DEF Run

LEMMA ReaderTypes ==
    ASSUME CloudTypes, ShellInv, NEW s \in Session, Reader(s) \/ ReadShell(s) \/ ShellExits(s),
           UNCHANGED <<brokerVars, shown>>
    PROVE  CloudTypes'
<1> USE DEF CloudTypes, AgentTypeOK, GoReader, ProcState, ReaderPC, runVars
<1>1. CASE ReadShell(s)
  <2>1. printed[s] + 1 \in 0..MaxChunk
    BY <1>1, ChunkNat DEF ReadShell
  <2> QED
    BY <1>1, <2>1, SameTypes DEF ReadShell
<1>2. CASE SendOutput(s)
  <2>1. printed[s] \in Chunk /\ home[s] \in Conn
    BY <1>2, ChunkNat DEF SendOutput, ShellInv, Chunk, Alive
  <2>2. /\ WriteOK(home[s], Output(s, printed[s])) \/ WriteErr(home[s])
        /\ UNCHANGED <<link, toAgent, runVars, shells, home, proc, printed, got>>
        /\ rd' = [rd EXCEPT ![s] = "read"] \/ rd' = [rd EXCEPT ![s] = "closing"]
    BY <1>2 DEF SendOutput
  <2>3. TInv'
    BY <2>1, <2>2, WriteType, AgentFrameTypes
  <2> QED
    BY <2>2, <2>3
<1>3. CASE ReadShellErr(s)
  BY <1>3, SameTypes DEF ReadShellErr
<1>4. CASE ReaderClose(s)
  BY <1>4, SameTypes DEF ReaderClose, Alive
<1>5. CASE ReaderKill(s)
  BY <1>5, SameTypes DEF ReaderKill, ShellClose
<1>6. CASE ReaderNotify(s)
  <2>1. TInv'
    BY <1>6, WriteType, AgentFrameTypes DEF ReaderNotify, Alive
  <2> QED
    BY <1>6, <2>1 DEF ReaderNotify
<1>7. CASE ShellExits(s)
  BY <1>7, SameTypes DEF ShellExits
<1> QED
  BY <1>1, <1>2, <1>3, <1>4, <1>5, <1>6, <1>7 DEF Reader

LEMMA TypeSteps ==
    ASSUME CloudTypes, RunInv, ShellInv, [Next]_vars
    PROVE  CloudTypes'
<1>1. ASSUME NEW c \in Conn, Connect(c) PROVE CloudTypes'
  BY <1>1, AgentWSTypes DEF Connect, CloudTypes, AgentTypeOK, Dial, GoRun, RunPC, shellVars
<1>2. ASSUME NEW c \in Conn, BrokerStep(c) PROVE CloudTypes'
  BY <1>2, AgentWSTypes DEF BrokerStep, CloudTypes, AgentTypeOK, agentVars, runVars, shellVars
<1>3. ASSUME NEW c \in Conn, NetworkStep(c) PROVE CloudTypes'
  BY <1>3 DEF NetworkStep, LinkLost, CloudTypes, TInv, WireTypeOK, LinkState, BrokerTypeOK, Phases,
              AgentTypeOK, agentVars, runVars, shellVars, brokerVars, tables, agentSide, termSide,
              webVars
<1>4. ASSUME NEW s \in Session, TerminalStep(s) \/ UserStep(s) PROVE CloudTypes'
  BY <1>4, ConnectWSTypes, CheckUserTypes, BrowserTypes
     DEF TerminalStep, UserStep, Browser, CloudTypes, AgentTypeOK, agentVars, runVars, shellVars
<1>5. ASSUME NEW s \in Session, ShowStep(s) PROVE CloudTypes'
  <2>1. TInv' /\ UNCHANGED agentVars
    BY <1>5, BrowserTypes DEF ShowStep, Browser, CloudTypes
  <2>2. Head(toBrowser[s]) \in Chunk
    BY <1>5, HeadTail DEF ShowStep, BrowserShow, Readable, CloudTypes, TInv, BrokerTypeOK
  <2>3. Append(shown[s], Head(toBrowser[s])) \in Seq(Chunk)
    BY <2>2, AppendType DEF CloudTypes
  <2>4. shown' \in [Session -> Seq(Chunk)]
    BY <1>5, <2>3 DEF ShowStep, CloudTypes
  <2> QED
    BY <2>1, <2>4 DEF CloudTypes, AgentTypeOK, agentVars, runVars, shellVars
<1>6. ASSUME NEW c \in Conn, AgentStep(c) PROVE CloudTypes'
  BY <1>6, RunTypes DEF AgentStep
<1>7. ASSUME NEW s \in Session, ShellStep(s) \/ ReaderStep(s) PROVE CloudTypes'
  BY <1>7, ReaderTypes DEF ShellStep, ReaderStep
<1>8. CASE UNCHANGED vars
  BY <1>8, SameTypes DEF vars, CloudTypes, AgentTypeOK, agentVars, runVars, shellVars
<1> QED
  BY <1>1, <1>2, <1>3, <1>4, <1>5, <1>6, <1>7, <1>8 DEF Next, Quiescent

-----------------------------------------------------------------------------
(***************************************************************************)
(* What a step does. Setup is what agentWS does outside its loop, with the *)
(* dial and the loss of a link: the terminals, the shells and the pages    *)
(* are left alone, nothing about a terminal is sent, and nothing is lost   *)
(* that a handler in its loop would have read.                             *)
(***************************************************************************)
Setup ==
    /\ UNCHANGED <<sessions, held, termSide, webVars, cur, doomed, shells, shellVars, shown>>
    /\ \A k \in Conn : rpc'[k] = rpc[k] \/ (rpc[k] = "idle" /\ rpc'[k] = "register")
    /\ \A k \in Conn : link'[k] = "up" => link[k] = "up" \/ apc[k] = "idle"
    /\ \A k \in Conn : apc'[k] = "write" <=> apc[k] = "write"
    /\ \A k \in Conn :
         \/ toAgent'[k] = toAgent[k]
         \/ \E f \in {Registered, Error} : toAgent'[k] = Append(toAgent[k], f)
    /\ \A k \in Conn :
         \/ toBroker'[k] = toBroker[k]
         \/ /\ toBroker[k] # <<>> /\ toBroker'[k] = Tail(toBroker[k])
            /\ Head(toBroker[k]).type = "register" \/ (apc[k] \in Pre /\ link'[k] = "closed")

(* The steps of agentWS that are Setup steps.                              *)
SetsUp(c) ==
    \/ ReadRegister(c) \/ ReadRegisterFails(c) \/ CheckAgentToken(c) \/ Deny(c)
    \/ Attach(c) \/ RegAdd(c) \/ SendRegistered(c)
    \/ ServeIgnored(c) \/ ServeErr(c) \/ Detach(c) \/ RegRemove(c)

LEMMA SetsUpSteps ==
    ASSUME CloudTypes, NEW c \in Conn, SetsUp(c), UNCHANGED <<agentVars, shown>>
    PROVE  Setup
<1> USE DEF Setup, CloudTypes, TInv, WireTypeOK, BrokerTypeOK, Phases, tables, agentSide, wireVars,
            agentVars, runVars, GoAgent, Readable
<1>1. CASE ReadRegister(c)
  BY <1>1 DEF ReadRegister
<1>2. CASE ReadRegisterFails(c)
  <2>1. apc[c] \in Pre
    BY <1>2 DEF ReadRegisterFails, Pre
  <2> QED
    BY <1>2, <2>1 DEF ReadRegisterFails
<1>3. CASE CheckAgentToken(c)
  BY <1>3 DEF CheckAgentToken
<1>4. CASE Deny(c)
  <2>1. toAgent' = toAgent \/ toAgent' = [toAgent EXCEPT ![c] = Append(@, Error)]
    BY <1>4 DEF Deny, SendOK, SendErr
  <2> QED
    BY <1>4, <2>1 DEF Deny
<1>5. CASE Attach(c)
  BY <1>5 DEF Attach
<1>6. CASE RegAdd(c)
  BY <1>6 DEF RegAdd
<1>7. CASE SendRegistered(c)
  <2>1. toAgent' = toAgent \/ toAgent' = [toAgent EXCEPT ![c] = Append(@, Registered)]
    BY <1>7 DEF SendRegistered, SendOK, SendErr
  <2> QED
    BY <1>7, <2>1 DEF SendRegistered
<1>8. CASE ServeIgnored(c)
  BY <1>8 DEF ServeIgnored
<1>9. CASE ServeErr(c)
  BY <1>9 DEF ServeErr
<1>10. CASE Detach(c)
  BY <1>10 DEF Detach
<1>11. CASE RegRemove(c)
  BY <1>11 DEF RegRemove
<1> QED
  BY <1>1, <1>2, <1>3, <1>4, <1>5, <1>6, <1>7, <1>8, <1>9, <1>10, <1>11 DEF SetsUp

LEMMA SetupSteps ==
    ASSUME CloudTypes, LiveInv, NEW c \in Conn,
           \/ Connect(c) \/ NetworkStep(c)
           \/ SetsUp(c) /\ UNCHANGED <<agentVars, shown>>
    PROVE  Setup
<1>1. CASE Connect(c)
  BY <1>1 DEF Connect, Accept, Dial, GoRun, GoAgent, Setup, CloudTypes, TInv, WireTypeOK, BrokerTypeOK,
              AgentTypeOK, tables
<1>2. CASE NetworkStep(c)
  BY <1>2 DEF NetworkStep, LinkLost, Setup, CloudTypes, TInv, WireTypeOK, BrokerTypeOK,
              AgentTypeOK, tables, agentSide, brokerVars, agentVars, runVars
<1> QED
  BY <1>1, <1>2, SetsUpSteps

(***************************************************************************)
(* connectWS and the page without the link: what they do to the terminals. *)
(***************************************************************************)
Late == {"read", "input", "bye", "end", "close", "done"}

(* The other steps leave a terminal's place alone.                         *)
TermGoes(s) ==
    /\ cpc[s] # "lookup" => cac'[s] = cac[s]
    /\ cpc[s] = "lookup" /\ cac'[s] # cac[s] => cac'[s] \in {agents[d] : d \in Device}
    /\ cpc[s] \in Late => cpc'[s] \in Late
    /\ \A t \in Session \ {s} : cpc'[t] = cpc[t] /\ cac'[t] = cac[t]

LEMMA TermSteps ==
    ASSUME CloudTypes, NEW s \in Session, TerminalStep(s) \/ UserStep(s)
    PROVE  TermGoes(s)
<1> USE DEF TermGoes, CloudTypes, TInv, BrokerTypeOK, Phases, Late, GoTerm, termSide
<1>1. CASE ConnectWS(s)
  <2>1. CASE Lookup(s)
    BY <2>1 DEF Lookup
  <2>2. CASE UpgradeFails(s) \/ Publish(s)
    BY <2>2 DEF UpgradeFails, Publish
  <2>3. CASE SendOpen(s)
    BY <2>3 DEF SendOpen
  <2>4. CASE ReadBrowser(s) \/ ReadBrowserErr(s)
    BY <2>4 DEF ReadBrowser, ReadBrowserErr
  <2>5. CASE SendInput(s)
    BY <2>5 DEF SendInput
  <2>6. CASE SendClose(s) \/ CloseSession(s) \/ CloseBrowser(s)
    BY <2>6 DEF SendClose, CloseSession, CloseBrowser
  <2> QED
    BY <1>1, <2>1, <2>2, <2>3, <2>4, <2>5, <2>6 DEF ConnectWS
<1>2. CASE Unauthorized(s) \/ BrowserType(s) \/ BrowserLeave(s)
  BY <1>2 DEF Unauthorized, BrowserType, BrowserLeave
<1>3. ASSUME NEW d \in Device, Authorized(s, d) PROVE TermGoes(s)
  BY <1>3 DEF Authorized
<1> QED
  BY <1>1, <1>2, <1>3 DEF TerminalStep, UserStep

(* Only Lookup changes ac, before a terminal is past its Open; and no step *)
(* takes it back.                                                          *)
LEMMA StaysPast ==
    ASSUME CloudTypes, [Next]_vars, NEW s \in Session
    PROVE  Past(s) => Past(s)' /\ cac'[s] = cac[s]
<1>1. CASE UNCHANGED <<cpc, cac>>
  BY <1>1 DEF Past
<1>2. ASSUME NEW t \in Session, TermGoes(t) PROVE Past(s) => Past(s)' /\ cac'[s] = cac[s]
  BY <1>2 DEF Past, TermGoes, Late
<1>3. ASSUME NEW t \in Session, TerminalStep(t) \/ UserStep(t) PROVE Past(s) => Past(s)' /\ cac'[s] = cac[s]
  BY <1>2, <1>3, TermSteps
<1>4. ASSUME NEW c \in Conn, Connect(c) \/ BrokerStep(c) \/ AgentStep(c) \/ NetworkStep(c)
      PROVE  UNCHANGED <<cpc, cac>>
  <2>1. CASE BrokerStep(c)
    BY <2>1 DEF BrokerStep, AgentWS, ReadRegister, ReadRegisterFails, CheckAgentToken, Deny, Attach,
                RegAdd, SendRegistered, ServeOutput, WriteBrowser, ServeClose, HangUp, ServeIgnored,
                ServeErr, Detach, RegRemove, termSide
  <2> QED
    BY <1>4, <2>1 DEF Connect, Accept, AgentStep, NetworkStep, brokerVars, termSide
<1>5. ASSUME NEW t \in Session, ShowStep(t) \/ ShellStep(t) \/ ReaderStep(t)
      PROVE  UNCHANGED <<cpc, cac>>
  BY <1>5 DEF ShowStep, BrowserShow, ShellStep, ReaderStep, brokerVars, termSide
<1>6. CASE UNCHANGED vars
  BY <1>6, <1>1 DEF vars, brokerVars, termSide
<1> QED
  BY <1>1, <1>3, <1>4, <1>5, <1>6 DEF Next, Quiescent

(* A link that is down stays down, but for the dial.                       *)
LEMMA StaysDown ==
    ASSUME CloudTypes, LiveInv, [Next]_vars, NEW s \in Session, cac[s] # None, link'[cac[s]] = "up"
    PROVE  link[cac[s]] = "up"
<1> USE DEF CloudTypes, TInv, WireTypeOK, BrokerTypeOK
<1>1. ASSUME NEW c \in Conn, Setup PROVE link[cac[s]] = "up"
  BY <1>1 DEF Setup, LiveInv, Pre
<1>2. CASE UNCHANGED link
  BY <1>2
<1>3. ASSUME NEW c \in Conn, Connect(c) \/ NetworkStep(c) \/ BrokerStep(c)
      PROVE  link[cac[s]] = "up"
  BY <1>1, <1>2, <1>3, SetupSteps DEF BrokerStep, AgentWS, SetsUp, ServeOutput, WriteBrowser,
     ServeClose, HangUp, wireVars
<1>4. ASSUME NEW c \in Conn, AgentStep(c) PROVE link[cac[s]] = "up"
  <2>1. CASE Exit(c)
    BY <2>1 DEF Exit
  <2> QED
    BY <1>2, <1>4, <2>1 DEF AgentStep, Run, WriteRegister, AwaitReply, OpenShell, ShellInput, RunClose,
       RunKill, RunNotify, RunErr, CloseAll, Take, wireVars
<1>5. ASSUME NEW t \in Session,
             TerminalStep(t) \/ UserStep(t) \/ ShowStep(t) \/ ShellStep(t) \/ ReaderStep(t)
      PROVE  UNCHANGED link
  BY <1>5 DEF TerminalStep, UserStep, ShowStep, ShellStep, ReaderStep, ConnectWS, Lookup, UpgradeFails,
     Publish, SendOpen, ReadBrowser, ReadBrowserErr, SendInput, SendClose, CloseSession, CloseBrowser,
     Unauthorized, Authorized, BrowserType, BrowserShow, BrowserLeave, ReadShell, ShellExits, Reader,
     SendOutput, ReadShellErr, ReaderClose, ReaderKill, ReaderNotify, wireVars
<1>6. CASE UNCHANGED vars
  BY <1>2, <1>6 DEF vars, wireVars
<1> QED
  BY <1>2, <1>3, <1>4, <1>5, <1>6 DEF Next, Quiescent

-----------------------------------------------------------------------------
(***************************************************************************)
(* LiveInv.                                                                *)
(***************************************************************************)
LEMMA KeepsLive ==
    ASSUME CloudTypes, LiveInv, [Next]_vars
    PROVE  LiveInv'
<1> USE DEF CloudTypes, TInv, WireTypeOK, BrokerTypeOK, Phases, Pre, LinkState, GoAgent, wireVars,
            tables, agentSide, termSide, webVars, brokerVars
<1>1. ASSUME UNCHANGED <<apc, agents, cac>>,
             \A c \in Conn : link'[c] = link[c] \/ (link'[c] # "none" /\ link[c] # "none")
      PROVE  LiveInv'
  BY <1>1 DEF LiveInv
<1>2. ASSUME UNCHANGED <<agents, cac>>, NEW c \in Conn, NEW p \in AgentPC, p # "idle",
             link[c] # "none" \/ link'[c] # "none",
             apc' = [apc EXCEPT ![c] = p], apc[c] \in Pre \/ p \notin Pre,
             \A k \in Conn : k = c \/ link'[k] = link[k], link'[c] # "none"
      PROVE  LiveInv'
  BY <1>2, ConnNone DEF LiveInv
<1>3. ASSUME NEW c \in Conn, Connect(c) PROVE LiveInv'
  BY <1>2, <1>3 DEF Connect, Accept, AgentPC
<1>4. ASSUME NEW c \in Conn, BrokerStep(c) PROVE LiveInv'
  <2>0. LiveInv /\ (apc[c] # "idle" => link[c] # "none")
    BY DEF LiveInv
  <2>1. CASE ReadRegister(c)
    BY <1>2, <2>0, <2>1 DEF ReadRegister, AgentPC
  <2>2. CASE ReadRegisterFails(c)
    BY <1>2, <2>0, <2>2 DEF ReadRegisterFails, AgentPC
  <2>3. CASE CheckAgentToken(c)
    BY <1>2, <2>0, <2>3 DEF CheckAgentToken, AgentPC
  <2>4. CASE Deny(c)
    BY <1>2, <2>0, <2>4 DEF Deny, AgentPC
  <2>5. CASE Attach(c)
    <3>1. /\ apc[c] = "attach" /\ apc' = [apc EXCEPT ![c] = "add"] /\ adev[c] \in Device
          /\ link' = [k \in Conn |-> IF k = agents[adev[c]] THEN "closed" ELSE link[k]]
          /\ agents' = [agents EXCEPT ![adev[c]] = c] /\ UNCHANGED cac
      BY <2>5 DEF Attach
    <3>2. \A k \in Conn : link'[k] = "none" <=> link[k] = "none"
      BY <2>0, <3>1, ConnNone DEF LiveInv
    <3> QED
      BY <2>0, <3>1, <3>2, ConnNone DEF LiveInv
  <2>6. CASE RegAdd(c) \/ SendRegistered(c)
    BY <1>2, <2>0, <2>6 DEF RegAdd, SendRegistered, AgentPC
  <2>7. CASE ServeOutput(c)
    BY <1>1, <1>2, <2>0, <2>7 DEF ServeOutput, AgentPC
  <2>8. CASE WriteBrowser(c) \/ HangUp(c)
    BY <1>2, <2>0, <2>8 DEF WriteBrowser, HangUp, AgentPC
  <2>9. CASE ServeClose(c)
    BY <1>1, <1>2, <2>0, <2>9 DEF ServeClose, AgentPC
  <2>10. CASE ServeIgnored(c)
    BY <1>1, <2>10 DEF ServeIgnored
  <2>11. CASE ServeErr(c)
    BY <1>2, <2>0, <2>11 DEF ServeErr, AgentPC
  <2>12. CASE Detach(c)
    BY <2>0, <2>12 DEF Detach, LiveInv
  <2>13. CASE RegRemove(c)
    BY <1>2, <2>0, <2>13 DEF RegRemove, AgentPC
  <2> QED
    BY <1>4, <2>1, <2>2, <2>3, <2>4, <2>5, <2>6, <2>7, <2>8, <2>9, <2>10, <2>11, <2>12, <2>13
       DEF BrokerStep, AgentWS
<1>5. ASSUME NEW c \in Conn, NetworkStep(c) PROVE LiveInv'
  BY <1>1, <1>5 DEF NetworkStep, LinkLost
<1>6. ASSUME NEW c \in Conn, AgentStep(c) PROVE LiveInv'
  <2>1. CASE Exit(c)
    BY <1>1, <1>6, <2>1 DEF Exit, AgentStep
  <2> QED
    BY <1>1, <1>6, <2>1 DEF AgentStep, Run, WriteRegister, AwaitReply, OpenShell, ShellInput, RunClose,
       RunKill, RunNotify, RunErr, CloseAll, Take
<1>7. ASSUME NEW s \in Session, TerminalStep(s) \/ UserStep(s) PROVE LiveInv'
  <2>1. UNCHANGED <<apc, agents, link>>
    BY <1>7 DEF TerminalStep, UserStep, ConnectWS, Lookup, UpgradeFails,
       Publish, SendOpen, ReadBrowser, ReadBrowserErr, SendInput, SendClose, CloseSession, CloseBrowser,
       Unauthorized, Authorized, BrowserType, BrowserLeave
  <2>2. ASSUME NEW t \in Session
        PROVE  cac'[t] = cac[t] \/ \E d \in Device : cac'[t] = agents[d]
    BY <1>7, TermSteps DEF TermGoes
  <2>3. ASSUME NEW t \in Session, cac'[t] # None PROVE apc'[cac'[t]] \notin Pre
    <3> HIDE DEF Pre
    <3>1. CASE cac'[t] = cac[t]
      BY <2>1, <2>3, <3>1 DEF LiveInv
    <3>2. ASSUME NEW d \in Device, cac'[t] = agents[d] PROVE apc'[cac'[t]] \notin Pre
      BY <2>1, <2>3, <3>2 DEF LiveInv
    <3> QED
      BY <2>2, <3>1, <3>2
  <2> QED
    BY <2>1, <2>3 DEF LiveInv
<1>8. ASSUME NEW s \in Session, ShowStep(s) \/ ShellStep(s) \/ ReaderStep(s) PROVE LiveInv'
  BY <1>1, <1>8 DEF ShowStep, ShellStep, ReaderStep, BrowserShow, ReadShell, ShellExits, Reader,
     SendOutput, ReadShellErr, ReaderClose, ReaderKill, ReaderNotify
<1>9. CASE UNCHANGED vars
  BY <1>1, <1>9 DEF vars
<1> QED
  BY <1>3, <1>4, <1>5, <1>6, <1>7, <1>8, <1>9 DEF Next, Quiescent

-----------------------------------------------------------------------------
(***************************************************************************)
(* RunInv and ShellInv. The broker and the pages leave the shells alone.   *)
(***************************************************************************)
ShellsAside ==
    /\ UNCHANGED <<cur, doomed, shells, shellVars>>
    /\ \A k \in Conn : rpc'[k] = rpc[k] \/ (rpc[k] = "idle" /\ rpc'[k] = "register")

LEMMA AsideSteps ==
    ASSUME CloudTypes, [Next]_vars
    PROVE  \/ ShellsAside
           \/ \E c \in Conn : AgentStep(c)
           \/ \E s \in Session : ShellStep(s) \/ ReaderStep(s)
<1>1. ASSUME NEW c \in Conn, Connect(c) PROVE ShellsAside
  BY <1>1 DEF ShellsAside, Connect, Dial, GoRun, CloudTypes, AgentTypeOK
<1>2. CASE UNCHANGED agentVars
  BY <1>2 DEF ShellsAside, agentVars, runVars
<1> QED
  BY <1>1, <1>2 DEF Next, Quiescent, vars, BrokerStep, NetworkStep, TerminalStep, UserStep, ShowStep

(* Whom the frame at the head of a queue is for.                           *)
LEMMA HeadIsFirst ==
    ASSUME CloudTypes, OpenInv, NEW c \in Conn, Readable(toAgent[c])
    PROVE  /\ Received(c) \in BrokerFrame
           /\ \A s \in Session : About(Received(c), s) =>
                /\ cac[s] = c /\ Past(s)
                /\ InFlight(toAgent[c], Open(s)) => Received(c) = Open(s)
                /\ Received(c) = Open(s) =>
                     home[s] = None /\ ~InFlight(Tail(toAgent[c]), Open(s))
<1> DEFINE q == toAgent[c]
<1>1. q \in Seq(BrokerFrame) /\ q # <<>>
  BY DEF CloudTypes, TInv, WireTypeOK, Readable
<1>2. Received(c) = q[1] /\ Received(c) \in BrokerFrame /\ 1 \in 1..Len(q)
  BY <1>1, HeadRest DEF Received
<1>3. \A i \in 1..Len(Tail(q)) : i + 1 \in 1..Len(q) /\ Tail(q)[i] = q[i + 1]
  BY <1>1, HeadRest
<1> SUFFICES ASSUME NEW s \in Session, About(q[1], s)
             PROVE  /\ cac[s] = c /\ Past(s)
                    /\ InFlight(q, Open(s)) => q[1] = Open(s)
                    /\ q[1] = Open(s) => home[s] = None /\ ~InFlight(Tail(q), Open(s))
  BY <1>2
<1>4. \A i \in 1..Len(q) : q[i] = Open(s) => home[s] = None /\ i = 1
  BY <1>2 DEF OpenInv
<1>5. cac[s] = c /\ Past(s)
  BY <1>2 DEF OpenInv
<1>6. InFlight(q, Open(s)) => q[1] = Open(s)
  BY <1>4 DEF InFlight
<1>7. ~InFlight(Tail(q), Open(s))
  BY <1>1, <1>3, <1>4, HeadRest DEF InFlight
<1> QED
  BY <1>2, <1>4, <1>5, <1>6, <1>7

LEMMA OpenIsAbout == \A s \in Session : About(Open(s), s) /\ About(Close(s), s)
BY DEF About, Open, Close

(* openShell starts the shell of a terminal that has none yet.             *)
LEMMA OpensNew ==
    ASSUME CloudTypes, OpenInv, NEW c \in Conn, OpenShell(c)
    PROVE  LET s == Received(c).sess IN
           s \in Session /\ Received(c) = Open(s) /\ home[s] = None /\ cac[s] = c /\ Past(s)
<1>1. Received(c).type = "open" /\ Readable(toAgent[c])
  BY DEF OpenShell
<1>2. PICK s \in Session : Received(c) = Open(s)
  BY <1>1, HeadIsFirst, BrokerFrameKinds
<1>3. Received(c).sess = s
  BY <1>2 DEF Open
<1> QED
  BY <1>1, <1>2, <1>3, HeadIsFirst, OpenIsAbout

(* A shell is opened on one link.                                          *)
LEMMA HomeStays ==
    ASSUME CloudTypes, OpenInv, [Next]_vars, NEW s \in Session
    PROVE  home[s] # None => home'[s] = home[s]
<1>1. CASE UNCHANGED home
  BY <1>1
<1>2. ASSUME NEW c \in Conn, OpenShell(c) PROVE home[s] # None => home'[s] = home[s]
  <2> DEFINE t == Received(c).sess
  <2>1. t \in Session /\ home[t] = None
    BY <1>2, OpensNew
  <2>2. home' = [home EXCEPT ![t] = c] \/ home' = home
    BY <1>2 DEF OpenShell
  <2> HIDE DEF t
  <2> QED
    BY <2>1, <2>2 DEF CloudTypes, AgentTypeOK
<1>3. ASSUME NEW c \in Conn, AgentStep(c), ~OpenShell(c) PROVE UNCHANGED home
  BY <1>3 DEF AgentStep, Run, WriteRegister, AwaitReply, ShellInput, RunClose, RunKill, RunNotify, RunErr,
              CloseAll, Exit, shellVars
<1>4. ASSUME NEW t \in Session, ShellStep(t) \/ ReaderStep(t) PROVE UNCHANGED home
  BY <1>4 DEF ShellStep, ReaderStep, ReadShell, ShellExits, Reader, SendOutput, ReadShellErr,
              ReaderClose, ReaderKill, ReaderNotify
<1> QED
  BY <1>1, <1>2, <1>3, <1>4, AsideSteps DEF ShellsAside, shellVars

LEMMA KeepsRun ==
    ASSUME CloudTypes, RunInv, ShellInv, OpenInv, [Next]_vars
    PROVE  RunInv'
<1> USE DEF CloudTypes, AgentTypeOK, GoRun, runVars, shellVars
<1>1. CASE ShellsAside
  BY <1>1 DEF ShellsAside, RunInv
<1>2. ASSUME NEW c \in Conn, AgentStep(c) PROVE RunInv'
  <2>1. ASSUME NEW d \in Device, WriteRegister(c, d) PROVE RunInv'
    BY <2>1 DEF WriteRegister, RunInv
  <2>2. CASE AwaitReply(c)
    <3>1. /\ rpc[c] = "await" /\ UNCHANGED <<cur, doomed, shells, home>>
          /\ rpc' = [rpc EXCEPT ![c] = "serve"] \/ rpc' = [rpc EXCEPT ![c] = "return"]
      BY <2>2 DEF AwaitReply
    <3>2. CASE rpc' = [rpc EXCEPT ![c] = "serve"]
      BY <3>1, <3>2 DEF RunInv
    <3>3. CASE rpc' = [rpc EXCEPT ![c] = "return"]
      BY <3>1, <3>3 DEF RunInv
    <3> QED
      BY <3>1, <3>2, <3>3
  <2>3. CASE OpenShell(c)
    <3> DEFINE s == Received(c).sess
    <3>1. s \in Session /\ home[s] = None /\ rpc[c] = "serve" /\ UNCHANGED doomed /\ s # None
      BY <2>3, OpensNew, SessionNone DEF OpenShell
    <3>2. \/ /\ shells' = [shells EXCEPT ![c] = @ \cup {s}]
             /\ home' = [home EXCEPT ![s] = c]
             /\ UNCHANGED <<rpc, cur>>
          \/ /\ rpc' = [rpc EXCEPT ![c] = "notify"] /\ cur' = [cur EXCEPT ![c] = s]
             /\ UNCHANGED <<shells, home>>
      BY <2>3 DEF OpenShell
    <3> HIDE DEF s
    <3>3. CASE /\ shells' = [shells EXCEPT ![c] = @ \cup {s}]
               /\ home' = [home EXCEPT ![s] = c]
               /\ UNCHANGED <<rpc, cur>>
      BY <3>1, <3>3, ConnNone DEF RunInv
    <3>4. CASE /\ rpc' = [rpc EXCEPT ![c] = "notify"] /\ cur' = [cur EXCEPT ![c] = s]
               /\ UNCHANGED <<shells, home>>
      BY <3>1, <3>4 DEF RunInv
    <3> QED
      BY <3>2, <3>3, <3>4
  <2>4. CASE ShellInput(c)
    BY <2>4 DEF ShellInput, RunInv
  <2>5. CASE RunClose(c)
    <3> DEFINE s == Received(c).sess
    <3>1. s \in Session /\ s # None /\ rpc[c] = "serve"
      BY <2>5, HeadIsFirst, BrokerFrameKinds, SessionNone DEF RunClose
    <3>2. /\ shells' = [shells EXCEPT ![c] = @ \ {s}] /\ UNCHANGED <<doomed, home>>
          /\ IF s \in shells[c]
               THEN rpc' = [rpc EXCEPT ![c] = "kill"] /\ cur' = [cur EXCEPT ![c] = s]
               ELSE UNCHANGED <<rpc, cur>>
      BY <2>5 DEF RunClose
    <3> HIDE DEF s
    <3> QED
      BY <3>1, <3>2 DEF RunInv
  <2>6. CASE RunKill(c)
    BY <2>6 DEF RunKill, RunInv
  <2>7. CASE RunNotify(c)
    BY <2>7 DEF RunNotify, RunInv
  <2>8. CASE RunErr(c)
    BY <2>8 DEF RunErr, RunInv
  <2>9. CASE CloseAll(c)
    <3>1. /\ rpc[c] = "closeall" /\ UNCHANGED <<cur, shells, home>>
          /\ \/ \E s \in doomed[c] : doomed' = [doomed EXCEPT ![c] = @ \ {s}] /\ UNCHANGED rpc
             \/ doomed[c] = {} /\ rpc' = [rpc EXCEPT ![c] = "return"] /\ UNCHANGED doomed
      BY <2>9 DEF CloseAll
    <3> QED
      BY <3>1 DEF RunInv
  <2>10. CASE Exit(c)
    BY <2>10 DEF Exit, RunInv
  <2> QED
    BY <1>2, <2>1, <2>2, <2>3, <2>4, <2>5, <2>6, <2>7, <2>8, <2>9, <2>10 DEF AgentStep, Run
<1>3. ASSUME NEW s \in Session, ShellStep(s) \/ ReaderStep(s) PROVE RunInv'
  <2>1. CASE ReaderClose(s)
    BY <2>1 DEF ReaderClose, Alive, RunInv
  <2> QED
    BY <1>3, <2>1 DEF ShellStep, ReaderStep, ReadShell, ShellExits, Reader, SendOutput, ReadShellErr,
       ReaderKill, ReaderNotify, RunInv
<1> QED
  BY <1>1, <1>2, <1>3, AsideSteps

(* What ShellInv says of one terminal.                                     *)
ShellOf(s) ==
    /\ home[s] = None => proc[s] = "none" /\ rd[s] = "none" /\ printed[s] = 0 /\ got[s] = <<>>
    /\ home[s] # None => home[s] = cac[s] /\ Past(s)
    /\ rd[s] = "out" => printed[s] > 0
    /\ rd[s] = "kill" => \A c \in Conn : ~RunHas(c, s)
    /\ proc[s] = "running" /\ rpc[home[s]] # "exited" =>
         rd[s] = "kill" \/ RunHas(home[s], s)

LEMMA KeepsShell ==
    ASSUME CloudTypes, RunInv, ShellInv, OpenInv, [Next]_vars
    PROVE  ShellInv'
<1> USE DEF CloudTypes, AgentTypeOK, GoRun, GoReader, runVars, shellVars
<1> SUFFICES ASSUME NEW s \in Session PROVE ShellOf(s)'
  BY DEF ShellInv, ShellOf
<1>0. /\ ShellOf(s) /\ (Past(s) => Past(s)' /\ cac'[s] = cac[s])
      /\ home[s] # None => home[s] \in Conn
  BY StaysPast DEF ShellInv, ShellOf
<1>1. CASE ShellsAside
  BY <1>0, <1>1 DEF ShellsAside, ShellOf, RunHas
<1>2. ASSUME NEW c \in Conn, AgentStep(c) PROVE ShellOf(s)'
  <2>1. ASSUME NEW d \in Device, WriteRegister(c, d) PROVE ShellOf(s)'
    BY <1>0, <2>1 DEF WriteRegister, ShellOf, RunHas
  <2>2. CASE AwaitReply(c)
    BY <1>0, <2>2 DEF AwaitReply, ShellOf, RunHas
  <2>3. CASE OpenShell(c)
    <3> DEFINE t == Received(c).sess
    <3>1. t \in Session /\ home[t] = None /\ rpc[c] = "serve" /\ UNCHANGED <<doomed, printed, got>>
          /\ cac[t] = c /\ Past(t)
      BY <2>3, OpensNew DEF OpenShell
    <3>2. \/ /\ shells' = [shells EXCEPT ![c] = @ \cup {t}]
             /\ home' = [home EXCEPT ![t] = c]
             /\ proc' = [proc EXCEPT ![t] = "running"]
             /\ rd' = [rd EXCEPT ![t] = "read"]
             /\ UNCHANGED <<rpc, cur>>
          \/ /\ rpc' = [rpc EXCEPT ![c] = "notify"] /\ cur' = [cur EXCEPT ![c] = t]
             /\ UNCHANGED <<shells, home, proc, rd>>
      BY <2>3 DEF OpenShell, ShellStart
    <3> HIDE DEF t
    <3>3. CASE /\ shells' = [shells EXCEPT ![c] = @ \cup {t}]
               /\ home' = [home EXCEPT ![t] = c]
               /\ proc' = [proc EXCEPT ![t] = "running"]
               /\ rd' = [rd EXCEPT ![t] = "read"]
               /\ UNCHANGED <<rpc, cur>>
      <4>1. CASE s = t
        BY <1>0, <3>1, <3>3, <4>1, ConnNone DEF ShellOf, RunHas
      <4>2. CASE s # t
        BY <1>0, <3>1, <3>3, <4>2 DEF ShellOf, RunHas
      <4> QED
        BY <4>1, <4>2
    <3>4. CASE /\ rpc' = [rpc EXCEPT ![c] = "notify"] /\ cur' = [cur EXCEPT ![c] = t]
               /\ UNCHANGED <<shells, home, proc, rd>>
      BY <1>0, <3>1, <3>4 DEF ShellOf, RunHas
    <3> QED
      BY <3>2, <3>3, <3>4
  <2>4. CASE ShellInput(c)
    <3> DEFINE t == Received(c).sess
    <3>1. /\ UNCHANGED <<rpc, cur, doomed, shells, home, proc, rd, printed>>
          /\ got'[s] = got[s] \/ s \in shells[c]
      BY <2>4 DEF ShellInput
    <3>2. s \in shells[c] => home[s] # None
      BY ConnNone DEF RunInv
    <3> QED
      BY <1>0, <3>1, <3>2 DEF ShellOf, RunHas
  <2>5. CASE RunClose(c)
    <3> DEFINE t == Received(c).sess
    <3>1. t \in Session /\ rpc[c] = "serve" /\ UNCHANGED <<doomed, home, proc, rd, printed, got>>
      BY <2>5, HeadIsFirst, BrokerFrameKinds DEF RunClose
    <3>2. /\ shells' = [shells EXCEPT ![c] = @ \ {t}]
          /\ IF t \in shells[c]
               THEN rpc' = [rpc EXCEPT ![c] = "kill"] /\ cur' = [cur EXCEPT ![c] = t]
               ELSE UNCHANGED <<rpc, cur>>
      BY <2>5 DEF RunClose
    <3> HIDE DEF t
    <3>3. \A k \in Conn : RunHas(k, s)' <=> RunHas(k, s)
      BY <3>1, <3>2 DEF RunHas
    <3>4. \A k \in Conn : rpc'[k] = "exited" <=> rpc[k] = "exited"
      BY <3>1, <3>2
    <3> QED
      BY <1>0, <3>1, <3>3, <3>4 DEF ShellOf
  <2>6. CASE RunKill(c)
    <3>1. /\ rpc[c] = "kill" /\ proc' = [proc EXCEPT ![cur[c]] = "reaped"]
          /\ rpc' = [rpc EXCEPT ![c] = "notify"] /\ UNCHANGED <<cur, doomed, shells, home, rd, printed, got>>
      BY <2>6 DEF RunKill, ShellClose
    <3>2. home[cur[c]] = c
      BY <3>1 DEF RunInv
    <3>3. \A k \in Conn : RunHas(k, s)' => RunHas(k, s)
      BY <3>1 DEF RunHas
    <3>4. CASE s = cur[c]
      BY <1>0, <3>1, <3>2, <3>3, <3>4, ConnNone DEF ShellOf
    <3>5. CASE s # cur[c]
      <4>1. \A k \in Conn : RunHas(k, s)' <=> RunHas(k, s)
        BY <3>1, <3>5 DEF RunHas
      <4> QED
        BY <1>0, <3>1, <3>5, <4>1 DEF ShellOf
    <3> QED
      BY <3>4, <3>5
  <2>7. CASE RunNotify(c)
    <3>1. /\ rpc[c] = "notify" /\ rpc' = [rpc EXCEPT ![c] = "serve"] /\ cur' = [cur EXCEPT ![c] = None]
          /\ UNCHANGED <<doomed, shells, shellVars>>
      BY <2>7 DEF RunNotify
    <3> QED
      BY <1>0, <3>1 DEF ShellOf, RunHas
  <2>8. CASE RunErr(c)
    <3>1. /\ rpc[c] = "serve" /\ rpc' = [rpc EXCEPT ![c] = "closeall"]
          /\ doomed' = [doomed EXCEPT ![c] = shells[c]] /\ shells' = [shells EXCEPT ![c] = {}]
          /\ UNCHANGED <<cur, shellVars>> /\ doomed[c] = {}
      BY <2>8 DEF RunErr, RunInv
    <3>2. \A k \in Conn : RunHas(k, s)' <=> RunHas(k, s)
      BY <3>1 DEF RunHas
    <3> QED
      BY <1>0, <3>1, <3>2 DEF ShellOf
  <2>9. CASE CloseAll(c)
    <3>1. /\ rpc[c] = "closeall" /\ UNCHANGED <<cur, shells, home, rd, printed, got>>
          /\ \/ \E t \in doomed[c] : /\ doomed' = [doomed EXCEPT ![c] = @ \ {t}]
                                     /\ proc' = [proc EXCEPT ![t] = "reaped"] /\ UNCHANGED rpc
             \/ doomed[c] = {} /\ rpc' = [rpc EXCEPT ![c] = "return"] /\ UNCHANGED <<doomed, proc>>
      BY <2>9 DEF CloseAll, ShellClose
    <3>2. ASSUME NEW t \in doomed[c], doomed' = [doomed EXCEPT ![c] = @ \ {t}],
                 proc' = [proc EXCEPT ![t] = "reaped"], UNCHANGED rpc
          PROVE  ShellOf(s)'
      <4>1. home[t] = c /\ t \in Session
        BY DEF RunInv
      <4>2. CASE s = t
        BY <1>0, <3>1, <3>2, <4>1, <4>2, ConnNone DEF ShellOf, RunHas
      <4>3. CASE s # t
        BY <1>0, <3>1, <3>2, <4>1, <4>3 DEF ShellOf, RunHas
      <4> QED
        BY <4>2, <4>3
    <3>3. CASE doomed[c] = {} /\ rpc' = [rpc EXCEPT ![c] = "return"] /\ UNCHANGED <<doomed, proc>>
      BY <1>0, <3>1, <3>3 DEF ShellOf, RunHas
    <3> QED
      BY <3>1, <3>2, <3>3
  <2>10. CASE Exit(c)
    <3>1. /\ rpc[c] = "return" /\ rpc' = [rpc EXCEPT ![c] = "exited"]
          /\ UNCHANGED <<cur, doomed, shells, shellVars>>
      BY <2>10 DEF Exit
    <3> QED
      BY <1>0, <3>1 DEF ShellOf, RunHas
  <2> QED
    BY <1>2, <2>1, <2>2, <2>3, <2>4, <2>5, <2>6, <2>7, <2>8, <2>9, <2>10 DEF AgentStep, Run
<1>3. ASSUME NEW t \in Session, ShellStep(t) \/ ReaderStep(t) PROVE ShellOf(s)'
  <2>1. CASE ReadShell(t)
    BY <1>0, <2>1 DEF ReadShell, Alive, ShellOf, RunHas
  <2>2. CASE SendOutput(t)
    <3>1. /\ rd' = [rd EXCEPT ![t] = "read"] \/ rd' = [rd EXCEPT ![t] = "closing"]
          /\ rd[t] = "out" /\ home[t] # None
          /\ UNCHANGED <<runVars, shells, home, proc, printed, got>>
      BY <2>2 DEF SendOutput, Alive
    <3> QED
      BY <1>0, <3>1 DEF ShellOf, RunHas
  <2>3. CASE ReadShellErr(t)
    BY <1>0, <2>3 DEF ReadShellErr, Alive, ShellOf, RunHas
  <2>4. CASE ReaderClose(t)
    <3> DEFINE c == home[t]
    <3>1. /\ rd[t] = "closing" /\ c \in Conn /\ shells' = [shells EXCEPT ![c] = @ \ {t}]
          /\ rd' = [rd EXCEPT ![t] = IF t \in shells[c] THEN "kill" ELSE "done"]
          /\ UNCHANGED <<rpc, cur, doomed, home, proc, printed, got>>
      BY <2>4 DEF ReaderClose, Alive
    <3> HIDE DEF c
    <3>2. CASE s # t
      BY <1>0, <3>1, <3>2 DEF ShellOf, RunHas
    <3>3. CASE s = t
      <4>1. t \in shells[c] => \A k \in Conn : ~RunHas(k, s)'
        <5> SUFFICES ASSUME t \in shells[c], NEW k \in Conn PROVE ~RunHas(k, s)'
          OBVIOUS
        <5>1. home[t] = c /\ rpc[c] \in {"serve", "kill", "notify"} /\ doomed[c] = {}
          BY <3>1 DEF RunInv
        <5>2. CASE k = c
          BY <3>1, <3>3, <5>1, <5>2 DEF RunHas, RunInv
        <5>3. CASE k # c
          BY <3>1, <3>3, <5>1, <5>3 DEF RunHas, RunInv
        <5> QED
          BY <5>2, <5>3
      <4>2. t \notin shells[c] => \A k \in Conn : RunHas(k, s)' <=> RunHas(k, s)
        BY <3>1 DEF RunHas
      <4> QED
        BY <1>0, <3>1, <3>3, <4>1, <4>2 DEF ShellOf, c
    <3> QED
      BY <3>2, <3>3
  <2>5. CASE ReaderKill(t)
    BY <1>0, <2>5 DEF ReaderKill, Alive, ShellClose, ShellOf, RunHas
  <2>6. CASE ReaderNotify(t)
    BY <1>0, <2>6 DEF ReaderNotify, Alive, ShellOf, RunHas
  <2>7. CASE ShellExits(t)
    BY <1>0, <2>7 DEF ShellExits, ShellOf, RunHas
  <2> QED
    BY <1>3, <2>1, <2>2, <2>3, <2>4, <2>5, <2>6, <2>7 DEF ShellStep, ReaderStep, Reader
<1> QED
  BY <1>1, <1>2, <1>3, AsideSteps

-----------------------------------------------------------------------------
(***************************************************************************)
(* What a step does to the queue of frames to an agent, and OpenInv.       *)
(***************************************************************************)
(* What the broker sends.                                                  *)
Tells(c, f) ==
    \/ f \in {Registered, Error}
    \/ \E s \in Session :
         /\ cac[s] = c
         /\ \/ SendOpen(s) /\ f = Open(s)
            \/ SendInput(s) /\ f = Input(s, cbuf[s])
            \/ SendClose(s) /\ f = Close(s)

(* What Run reads.                                                         *)
Takes(c) ==
    /\ AwaitReply(c) \/ OpenShell(c) \/ ShellInput(c) \/ RunClose(c)
    /\ Readable(toAgent[c]) /\ toAgent'[c] = Tail(toAgent[c])

LEMMA ToAgentSteps ==
    ASSUME CloudTypes, LiveInv, [Next]_vars, NEW c \in Conn
    PROVE  \/ toAgent'[c] = toAgent[c]
           \/ \E f \in BrokerFrame : toAgent'[c] = Append(toAgent[c], f) /\ Tells(c, f)
           \/ Takes(c)
           \/ Exit(c) /\ toAgent'[c] = <<>>
<1> DEFINE Goal == \/ toAgent'[c] = toAgent[c]
                   \/ \E f \in BrokerFrame : toAgent'[c] = Append(toAgent[c], f) /\ Tells(c, f)
                   \/ Takes(c)
                   \/ Exit(c) /\ toAgent'[c] = <<>>
<1> SUFFICES Goal
  OBVIOUS
<1>0. toAgent \in [Conn -> Seq(BrokerFrame)]
  BY DEF CloudTypes, TInv, WireTypeOK
<1>1. CASE Setup
  BY <1>1, FrameTypes DEF Setup, Tells
<1>2. CASE UNCHANGED toAgent
  BY <1>2
<1>3. ASSUME NEW k \in Conn, Connect(k) \/ NetworkStep(k) \/ BrokerStep(k) PROVE Goal
  <2> HIDE DEF Goal
  <2>1. CASE ServeOutput(k) \/ WriteBrowser(k) \/ ServeClose(k) \/ HangUp(k)
    BY <1>2, <2>1 DEF ServeOutput, WriteBrowser, ServeClose, HangUp, wireVars
  <2> QED
    BY <1>1, <1>3, <2>1, SetupSteps DEF BrokerStep, AgentWS, SetsUp
<1>4. ASSUME NEW k \in Conn, AgentStep(k) PROVE Goal
  <2>1. CASE Exit(k)
    BY <1>0, <2>1 DEF Exit
  <2>2. CASE AwaitReply(k)
    BY <1>0, <2>2 DEF AwaitReply, Take, Takes, wireVars
  <2>3. CASE OpenShell(k) \/ ShellInput(k) \/ RunClose(k)
    BY <1>0, <2>3 DEF OpenShell, ShellInput, RunClose, Take, Takes
  <2> HIDE DEF Goal
  <2> QED
    BY <1>2, <1>4, <2>1, <2>2, <2>3 DEF AgentStep, Run, WriteRegister, RunKill, RunNotify, RunErr,
       CloseAll, wireVars
<1>5. ASSUME NEW s \in Session, TerminalStep(s) PROVE Goal
  <2>0. cpc[s] \in Bridged => cac[s] \in Conn
    BY DEF CloudTypes, TInv, Phases
  <2>1. CASE SendOpen(s)
    <3>1. cac[s] \in Conn /\ Open(s) \in BrokerFrame
      BY <2>0, <2>1, FrameTypes DEF SendOpen, Bridged
    <3>2. toAgent' = toAgent \/ toAgent' = [toAgent EXCEPT ![cac[s]] = Append(@, Open(s))]
      BY <2>1 DEF SendOpen, SendOK, SendErr
    <3> QED
      BY <1>0, <2>1, <3>1, <3>2 DEF Tells
  <2>2. CASE SendInput(s)
    <3>1. cac[s] \in Conn /\ Input(s, cbuf[s]) \in BrokerFrame
      BY <2>0, <2>2, FrameTypes DEF SendInput, Bridged, CloudTypes, TInv, Phases
    <3>2. toAgent' = toAgent \/ toAgent' = [toAgent EXCEPT ![cac[s]] = Append(@, Input(s, cbuf[s]))]
      BY <2>2 DEF SendInput, SendOK, SendErr
    <3> QED
      BY <1>0, <2>2, <3>1, <3>2 DEF Tells
  <2>3. CASE SendClose(s)
    <3>1. cac[s] \in Conn /\ Close(s) \in BrokerFrame
      BY <2>0, <2>3, FrameTypes DEF SendClose, Bridged
    <3>2. toAgent' = toAgent \/ toAgent' = [toAgent EXCEPT ![cac[s]] = Append(@, Close(s))]
      BY <2>3 DEF SendClose, SendOK, SendErr
    <3> QED
      BY <1>0, <2>3, <3>1, <3>2 DEF Tells
  <2> HIDE DEF Goal
  <2> QED
    BY <1>2, <1>5, <2>1, <2>2, <2>3 DEF TerminalStep, ConnectWS, Lookup, UpgradeFails, Publish,
       ReadBrowser, ReadBrowserErr, CloseSession, CloseBrowser, wireVars
<1>6. ASSUME NEW s \in Session, UserStep(s) \/ ShowStep(s) \/ ShellStep(s) \/ ReaderStep(s)
      PROVE  Goal
  <2> HIDE DEF Goal
  <2> QED
    BY <1>2, <1>6 DEF UserStep, ShowStep, ShellStep, ReaderStep, Unauthorized, Authorized, BrowserType,
       BrowserShow, BrowserLeave, ReadShell, ShellExits, Reader, SendOutput, ReadShellErr, ReaderClose,
       ReaderKill, ReaderNotify, wireVars
<1>7. CASE UNCHANGED vars
  BY <1>2, <1>7 DEF vars, wireVars
<1> QED
  BY <1>3, <1>4, <1>5, <1>6, <1>7 DEF Next, Quiescent

(* A new shell is one whose Open Run has just read.                        *)
LEMMA NewHome ==
    ASSUME CloudTypes, OpenInv, [Next]_vars, NEW s \in Session, home[s] = None, home'[s] # None
    PROVE  \E k \in Conn : /\ OpenShell(k) /\ home'[s] = k /\ Received(k) = Open(s)
                           /\ cac[s] = k /\ Past(s) /\ Readable(toAgent[k])
                           /\ toAgent' = [toAgent EXCEPT ![k] = Tail(@)]
<1>1. UNCHANGED home \/ \E c \in Conn : OpenShell(c)
  <2>1. ASSUME NEW c \in Conn, AgentStep(c), ~OpenShell(c) PROVE UNCHANGED home
    BY <2>1 DEF AgentStep, Run, WriteRegister, AwaitReply, ShellInput, RunClose, RunKill, RunNotify,
                RunErr, CloseAll, Exit, shellVars
  <2>2. ASSUME NEW t \in Session, ShellStep(t) \/ ReaderStep(t) PROVE UNCHANGED home
    BY <2>2 DEF ShellStep, ReaderStep, ReadShell, ShellExits, Reader, SendOutput, ReadShellErr,
                ReaderClose, ReaderKill, ReaderNotify
  <2> QED
    BY <2>1, <2>2, AsideSteps DEF ShellsAside, shellVars
<1>2. PICK k \in Conn : OpenShell(k)
  BY <1>1
<1> DEFINE t == Received(k).sess
<1>3. t \in Session /\ Received(k) = Open(t) /\ cac[t] = k /\ Past(t)
  BY <1>2, OpensNew
<1>4. home' = [home EXCEPT ![t] = k] \/ home' = home
  BY <1>2 DEF OpenShell
<1>5. t = s /\ home'[s] = k
  <2> HIDE DEF t
  <2> QED
    BY <1>3, <1>4 DEF CloudTypes, AgentTypeOK
<1>6. Readable(toAgent[k]) /\ toAgent' = [toAgent EXCEPT ![k] = Tail(@)]
  BY <1>2 DEF OpenShell, Take
<1> QED
  BY <1>2, <1>3, <1>5, <1>6

(* Open(s) is the first frame about s.                                     *)
First(q, s) ==
    \A i \in 1..Len(q) : q[i] = Open(s) => \A j \in 1..Len(q) : About(q[j], s) => i <= j

LEMMA FirstSent ==
    ASSUME NEW S, NEW q \in Seq(S), NEW f \in S, NEW s, First(q, s),
           f = Open(s) => \A i \in 1..Len(q) : ~About(q[i], s)
    PROVE  First(Append(q, f), s)
<1> DEFINE r == Append(q, f)
<1>1. /\ Len(q) \in Nat /\ Len(r) = Len(q) + 1 /\ r[Len(q) + 1] = f
      /\ \A i \in 1..Len(r) : (i \in 1..Len(q) /\ r[i] = q[i]) \/ i = Len(q) + 1
  BY Appended
<1> HIDE DEF r
<1> SUFFICES ASSUME NEW i \in 1..Len(r), r[i] = Open(s), NEW j \in 1..Len(r), About(r[j], s)
             PROVE  i <= j
  BY DEF First, r
<1>2. CASE i \in 1..Len(q) /\ r[i] = q[i]
  BY <1>1, <1>2 DEF First
<1>3. CASE i = Len(q) + 1
  BY <1>1, <1>3
<1> QED
  BY <1>1, <1>2, <1>3

LEMMA FirstTaken ==
    ASSUME NEW S, NEW q \in Seq(S), q # <<>>, NEW s, First(q, s)
    PROVE  First(Tail(q), s)
<1> DEFINE r == Tail(q)
<1>1. Len(q) \in Nat /\ \A i \in 1..Len(r) : i + 1 \in 1..Len(q) /\ r[i] = q[i + 1]
  BY HeadRest
<1> HIDE DEF r
<1> SUFFICES ASSUME NEW i \in 1..Len(r), r[i] = Open(s), NEW j \in 1..Len(r), About(r[j], s)
             PROVE  i <= j
  BY DEF First, r
<1>2. i + 1 <= j + 1
  BY <1>1 DEF First
<1> QED
  BY <1>2

(* What OpenInv says of a terminal and a connection.                       *)
OpenOf(c, s) ==
    /\ \A i \in 1..Len(toAgent[c]) : About(toAgent[c][i], s) => cac[s] = c /\ Past(s)
    /\ InFlight(toAgent[c], Open(s)) => home[s] = None
    /\ First(toAgent[c], s)

LEMMA OpenParts == OpenInv <=> \A c \in Conn, s \in Session : OpenOf(c, s)
BY DEF OpenInv, OpenOf, InFlight, First

LEMMA KeepsOpen ==
    ASSUME CloudTypes, LiveInv, ShellInv, OpenInv, [Next]_vars
    PROVE  OpenInv'
<1> SUFFICES ASSUME NEW c \in Conn, NEW s \in Session PROVE OpenOf(c, s)'
  BY DEF OpenInv, OpenOf, InFlight, First
<1> DEFINE q == toAgent[c]
<1>0. q \in Seq(BrokerFrame) /\ OpenOf(c, s) /\ (Past(s) => Past(s)' /\ cac'[s] = cac[s])
  BY OpenParts, StaysPast DEF CloudTypes, TInv, WireTypeOK
<1>1. toAgent'[c] # Tail(q) \/ ~Readable(q) => (home'[s] = home[s] \/ home[s] # None \/ cac[s] # c)
  BY NewHome DEF CloudTypes, TInv, WireTypeOK
<1>2. InFlight(q, Open(s)) => cac[s] = c
  BY <1>0, OpenIsAbout DEF InFlight, OpenOf
<1>3. CASE toAgent'[c] = q
  <2>1. Readable(q) => Tail(q) # q
    <3>1. q # <<>> => Len(Tail(q)) # Len(q)
      BY <1>0, HeadRest
    <3> QED
      BY <3>1 DEF Readable
  <2> QED
    BY <1>0, <1>1, <1>2, <1>3, <2>1 DEF OpenOf
<1>4. ASSUME NEW f \in BrokerFrame, toAgent'[c] = Append(q, f), Tells(c, f) PROVE OpenOf(c, s)'
  <2>1. Readable(q) => Tail(q) # Append(q, f)
    BY <1>0, HeadRest, Appended DEF Readable
  <2>2. About(f, s) => cac[s] = c /\ cac'[s] = c /\ Past(s)'
    <3>1. ASSUME NEW t \in Session, cac[t] = c,
                 \/ SendOpen(t) /\ f = Open(t)
                 \/ SendInput(t) /\ f = Input(t, cbuf[t])
                 \/ SendClose(t) /\ f = Close(t)
          PROVE  About(f, t) /\ cac'[t] = c /\ Past(t)' /\ (About(f, s) => t = s)
      <4>1. About(f, t) /\ f.sess = t
        BY <3>1 DEF About, Open, Input, Close
      <4>2. cpc'[t] \in {"read", "end", "bye"} /\ cac'[t] = c
        BY <3>1 DEF SendOpen, SendInput, SendClose, GoTerm, CloudTypes, TInv, BrokerTypeOK
      <4> QED
        BY <3>1, <4>1, <4>2, ConnNone DEF Past, About
    <3>2. ~About(Registered, s) /\ ~About(Error, s)
      BY DEF About, Registered, Error
    <3> QED
      BY <1>4, <3>1, <3>2 DEF Tells
  <2>3. f = Open(s) => ~Past(s)
    <3>1. \A t \in Session : Open(t) = Open(s) => t = s
      BY DEF Open
    <3>2. Open(s).type = "open" /\ \A t \in Session : Input(t, cbuf[t]).type = "in" /\ Close(t).type = "close"
      BY DEF Open, Input, Close
    <3>3. Registered.type = "registered" /\ Error.type = "error"
      BY DEF Registered, Error
    <3>4. f = Open(s) => SendOpen(s)
      BY <1>4, <3>1, <3>2, <3>3 DEF Tells
    <3> QED
      BY <3>4 DEF SendOpen, Past
  <2>4. f = Open(s) => home[s] = None /\ \A i \in 1..Len(q) : ~About(q[i], s)
    BY <1>0, <2>3 DEF OpenOf, ShellInv
  <2>5. First(toAgent'[c], s)
    BY <1>0, <1>4, <2>4, FirstSent DEF OpenOf
  <2>6. InFlight(toAgent'[c], Open(s)) => home'[s] = None
    <3>1. InFlight(toAgent'[c], Open(s)) => InFlight(q, Open(s)) \/ f = Open(s)
      BY <1>0, <1>4, Flying
    <3> QED
      BY <1>0, <1>1, <1>2, <1>4, <2>1, <2>2, <2>4, <3>1, OpenIsAbout DEF OpenOf
  <2>7. ASSUME NEW i \in 1..Len(toAgent'[c]), About(toAgent'[c][i], s) PROVE cac'[s] = c /\ Past(s)'
    <3>1. (i \in 1..Len(q) /\ toAgent'[c][i] = q[i]) \/ toAgent'[c][i] = f
      BY <1>0, <1>4, Appended
    <3>2. \A j \in 1..Len(q) : About(q[j], s) => cac'[s] = c /\ Past(s)'
      BY <1>0 DEF OpenOf
    <3>3. About(f, s) => cac'[s] = c /\ Past(s)'
      BY <1>0, <2>2
    <3> QED
      BY <2>7, <3>1, <3>2, <3>3
  <2> QED
    BY <2>5, <2>6, <2>7 DEF OpenOf
<1>5. CASE Takes(c)
  <2>1. q # <<>> /\ toAgent'[c] = Tail(q) /\ Readable(q)
    BY <1>5 DEF Takes, Readable
  <2>2. First(toAgent'[c], s)
    BY <1>0, <2>1, FirstTaken DEF OpenOf
  <2>3. InFlight(toAgent'[c], Open(s)) => InFlight(q, Open(s))
    BY <1>0, <2>1, Landing
  <2>4. ASSUME InFlight(toAgent'[c], Open(s)), home'[s] # None PROVE FALSE
    <3>1. home[s] = None
      BY <1>0, <2>3, <2>4 DEF OpenOf
    <3>2. PICK k \in Conn : Received(k) = Open(s) /\ cac[s] = k
      BY <2>4, <3>1, NewHome
    <3>3. k = c
      BY <1>2, <2>3, <2>4, <3>2
    <3> QED
      BY <2>1, <2>4, <3>2, <3>3, HeadIsFirst, OpenIsAbout
  <2>5. ASSUME NEW i \in 1..Len(toAgent'[c]), About(toAgent'[c][i], s) PROVE cac'[s] = c /\ Past(s)'
    <3>1. i + 1 \in 1..Len(q) /\ toAgent'[c][i] = q[i + 1]
      BY <1>0, <2>1, HeadRest
    <3> QED
      BY <1>0, <2>5, <3>1 DEF OpenOf
  <2> QED
    BY <2>2, <2>4, <2>5 DEF OpenOf
<1>6. CASE toAgent'[c] = <<>>
  <2>1. Len(toAgent'[c]) = 0
    BY <1>6
  <2> QED
    BY <2>1 DEF OpenOf, First, InFlight
<1> QED
  BY <1>3, <1>4, <1>5, <1>6, ToAgentSteps

-----------------------------------------------------------------------------
(***************************************************************************)
(* TypedInv, and when the number of chunks sent goes up.                   *)
(***************************************************************************)
TypedOf(s) ==
    /\ Sent(s) \in Nat
    /\ \A i \in 1..Len(fromBrowser[s]) :
         fromBrowser[s][i] = typed[s] - Len(fromBrowser[s]) + i
    /\ cpc[s] = "input" => cbuf[s] = Sent(s) + 1
    /\ ~Past(s) => Sent(s) = 0

(* Nothing is typed, read from the socket or sent.                         *)
LEMMA TypedAside ==
    ASSUME CloudTypes, NEW s \in Session, TypedOf(s),
           UNCHANGED <<typed[s], fromBrowser[s], cbuf[s]>>,
           cpc'[s] = cpc[s] \/ (cpc[s] # "input" /\ cpc'[s] # "input"),
           Past(s) => Past(s)'
    PROVE  TypedOf(s)' /\ Sent(s)' = Sent(s)
BY DEF TypedOf, Sent

LEMMA SentSteps ==
    ASSUME CloudTypes, TypedInv, [Next]_vars, NEW s \in Session
    PROVE  /\ TypedOf(s)'
           /\ Sent(s)' = Sent(s) \/ (SendInput(s) /\ Sent(s)' = Sent(s) + 1)
<1> DEFINE Goal == /\ TypedOf(s)'
                   /\ Sent(s)' = Sent(s) \/ (SendInput(s) /\ Sent(s)' = Sent(s) + 1)
<1> SUFFICES Goal
  OBVIOUS
<1>0. /\ TypedOf(s) /\ (Past(s) => Past(s)')
      /\ typed[s] \in Nat /\ fromBrowser[s] \in Seq(Chunk) /\ Len(fromBrowser[s]) \in Nat
  BY StaysPast, TypedBound, ChunkNat DEF TypedInv, TypedOf, CloudTypes, TInv, BrokerTypeOK
<1>a. CASE /\ UNCHANGED <<typed[s], fromBrowser[s], cbuf[s]>>
           /\ cpc'[s] = cpc[s] \/ (cpc[s] # "input" /\ cpc'[s] # "input")
  BY <1>0, <1>a, TypedAside
<1> HIDE DEF Goal
<1>1. ASSUME NEW c \in Conn, Connect(c) \/ BrokerStep(c) \/ AgentStep(c) \/ NetworkStep(c) PROVE Goal
  <2>1. UNCHANGED <<typed, fromBrowser, cbuf, cpc>>
    BY <1>1 DEF Connect, Accept, BrokerStep, AgentStep, NetworkStep, AgentWS, ReadRegister,
       ReadRegisterFails, CheckAgentToken, Deny, Attach, RegAdd, SendRegistered, ServeOutput,
       WriteBrowser, ServeClose, HangUp, ServeIgnored, ServeErr, Detach, RegRemove,
       brokerVars, termSide, webVars
  <2> QED
    BY <1>a, <2>1
<1>2. ASSUME NEW t \in Session, ShowStep(t) \/ ShellStep(t) \/ ReaderStep(t) PROVE Goal
  <2>1. UNCHANGED <<typed, fromBrowser, cbuf, cpc>>
    BY <1>2 DEF ShowStep, BrowserShow, ShellStep, ReaderStep, brokerVars, termSide, webVars
  <2> QED
    BY <1>a, <2>1
<1>3. ASSUME NEW t \in Session, t # s, TerminalStep(t) \/ UserStep(t) PROVE Goal
  <2>1. UNCHANGED <<typed[s], fromBrowser[s], cbuf[s], cpc[s]>>
    BY <1>3 DEF TerminalStep, UserStep, ConnectWS, Lookup, UpgradeFails, Publish, SendOpen, ReadBrowser,
       ReadBrowserErr, SendInput, SendClose, CloseSession, CloseBrowser, Unauthorized, Authorized,
       BrowserType, BrowserLeave, GoTerm, termSide, webVars, CloudTypes, TInv, BrokerTypeOK
  <2> QED
    BY <1>a, <2>1
<1>4. CASE TerminalStep(s)
  <2> USE DEF GoTerm, webVars, CloudTypes, TInv, BrokerTypeOK
  <2>1. CASE ReadBrowser(s)
    <3>1. /\ cpc[s] = "read" /\ fromBrowser[s] # <<>>
          /\ cbuf' = [cbuf EXCEPT ![s] = Head(fromBrowser[s])]
          /\ fromBrowser' = [fromBrowser EXCEPT ![s] = Tail(fromBrowser[s])]
          /\ cpc' = [cpc EXCEPT ![s] = "input"]
          /\ UNCHANGED <<typed, cac>>
      BY <2>1 DEF ReadBrowser, Readable
    <3>2. /\ Len(Tail(fromBrowser[s])) = Len(fromBrowser[s]) - 1
          /\ \A i \in 1..Len(Tail(fromBrowser[s])) :
               i + 1 \in 1..Len(fromBrowser[s]) /\ Tail(fromBrowser[s])[i] = fromBrowser[s][i + 1]
          /\ Head(fromBrowser[s]) = fromBrowser[s][1] /\ 1 \in 1..Len(fromBrowser[s])
      BY <1>0, <3>1, HeadRest
    <3>3. Sent(s)' = Sent(s) /\ Sent(s) = typed[s] - Len(fromBrowser[s])
      BY <1>0, <3>1, <3>2 DEF Sent
    <3>4. \A i \in 1..Len(fromBrowser'[s]) :
            fromBrowser'[s][i] = typed'[s] - Len(fromBrowser'[s]) + i
      BY <1>0, <3>1, <3>2 DEF TypedOf
    <3>5. cbuf'[s] = Sent(s) + 1
      BY <1>0, <3>1, <3>2, <3>3 DEF TypedOf
    <3>6. Past(s)
      BY <3>1, ConnNone DEF Past, Phases, Bridged
    <3> QED
      BY <1>0, <3>3, <3>4, <3>5, <3>6 DEF TypedOf, Goal
  <2>2. CASE SendInput(s)
    <3>1. /\ cpc[s] = "input" /\ UNCHANGED <<typed, fromBrowser, cac>>
          /\ cpc'[s] \in {"read", "bye"}
      BY <2>2 DEF SendInput
    <3>2. Sent(s)' = Sent(s) + 1
      BY <1>0, <3>1 DEF Sent
    <3>3. Past(s)
      BY <3>1, ConnNone DEF Past, Phases, Bridged
    <3> QED
      BY <1>0, <2>2, <3>1, <3>2, <3>3 DEF TypedOf, Goal
  <2>3. CASE Lookup(s) \/ UpgradeFails(s) \/ Publish(s) \/ ReadBrowserErr(s) \/ SendClose(s)
               \/ CloseSession(s) \/ CloseBrowser(s)
    BY <1>a, <2>3 DEF Lookup, UpgradeFails, Publish, ReadBrowserErr, SendClose, CloseSession,
                      CloseBrowser
  <2>4. CASE SendOpen(s)
    BY <1>a, <2>4 DEF SendOpen
  <2> QED
    BY <1>4, <2>1, <2>2, <2>3, <2>4 DEF TerminalStep, ConnectWS
<1>5. CASE UserStep(s)
  <2> USE DEF GoTerm, webVars, termSide, CloudTypes, TInv, BrokerTypeOK
  <2>1. CASE BrowserType(s)
    <3>1. /\ typed' = [typed EXCEPT ![s] = @ + 1]
          /\ fromBrowser' = [fromBrowser EXCEPT ![s] = Append(@, typed[s] + 1)]
          /\ UNCHANGED <<cpc, cac, cbuf>>
      BY <2>1 DEF BrowserType
    <3>2. typed[s] + 1 \in Nat /\ fromBrowser[s] \in Seq(Nat)
      BY <1>0, ChunkNat DEF Chunk
    <3>3. /\ Len(fromBrowser'[s]) = Len(fromBrowser[s]) + 1 /\ typed'[s] = typed[s] + 1
          /\ \A i \in 1..Len(fromBrowser[s]) : fromBrowser'[s][i] = fromBrowser[s][i]
          /\ fromBrowser'[s][Len(fromBrowser[s]) + 1] = typed[s] + 1
      BY <3>1, <3>2, Appended
    <3>4. Sent(s)' = Sent(s)
      BY <1>0, <3>1, <3>3 DEF Sent
    <3>5. \A i \in 1..Len(fromBrowser'[s]) :
            fromBrowser'[s][i] = typed'[s] - Len(fromBrowser'[s]) + i
      <4> TAKE i \in 1..Len(fromBrowser'[s])
      <4>1. CASE i = Len(fromBrowser[s]) + 1
        BY <1>0, <3>3, <4>1
      <4>2. CASE i # Len(fromBrowser[s]) + 1
        <5>1. i \in 1..Len(fromBrowser[s])
          BY <1>0, <3>3, <4>2
        <5> QED
          BY <1>0, <3>3, <5>1 DEF TypedOf
      <4> QED
        BY <4>1, <4>2
    <3> QED
      BY <1>0, <3>1, <3>4, <3>5 DEF TypedOf, Goal, Past
  <2>2. CASE Unauthorized(s) \/ BrowserLeave(s)
    BY <1>a, <2>2 DEF Unauthorized, BrowserLeave
  <2>3. ASSUME NEW d \in Device, Authorized(s, d) PROVE Goal
    BY <1>a, <2>3 DEF Authorized
  <2> QED
    BY <1>5, <2>1, <2>2, <2>3 DEF UserStep
<1>6. CASE UNCHANGED vars
  BY <1>a, <1>6 DEF vars, brokerVars, termSide, webVars
<1> QED
  BY <1>1, <1>2, <1>3, <1>4, <1>5, <1>6 DEF Next, Quiescent

LEMMA KeepsTyped ==
    ASSUME CloudTypes, TypedInv, [Next]_vars
    PROVE  TypedInv'
<1>1. \A s \in Session : TypedOf(s)'
  BY SentSteps
<1> QED
  BY <1>1 DEF TypedInv, TypedOf

-----------------------------------------------------------------------------
(***************************************************************************)
(* InputInv.                                                               *)
(***************************************************************************)
InputOf(s) ==
    /\ \A i \in 1..Len(got[s]) : got[s][i] = i
    /\ Len(got[s]) <= Sent(s)
    /\ \A c \in Conn : Rising(toAgent[c], "in", s, Sent(s))
    /\ Hears(s) =>
         /\ Follows(toAgent[cac[s]], "in", s, Len(got[s]))
         /\ link[cac[s]] = "up" => Reaches(toAgent[cac[s]], "in", s, Len(got[s]), Sent(s))

(* Only input() gives a shell anything.                                    *)
Gets(c, s) ==
    /\ ShellInput(c) /\ Takes(c) /\ s \in shells[c]
    /\ Received(c).type = "in" /\ Received(c).sess = s
    /\ got'[s] = Append(got[s], Received(c).data)

LEMMA GotSteps ==
    ASSUME CloudTypes, [Next]_vars, NEW s \in Session
    PROVE  got'[s] = got[s] \/ \E c \in Conn : Gets(c, s)
<1>1. ASSUME NEW c \in Conn, ShellInput(c) PROVE got'[s] = got[s] \/ Gets(c, s)
  <2> DEFINE m == Received(c)
  <2>1. /\ m.type = "in" /\ Readable(toAgent[c]) /\ toAgent'[c] = Tail(toAgent[c])
        /\ got' = [got EXCEPT ![m.sess] = IF m.sess \in shells[c] THEN Append(@, m.data) ELSE @]
    BY <1>1 DEF ShellInput, Take, CloudTypes, TInv, WireTypeOK
  <2> HIDE DEF m
  <2>2. got'[s] = got[s] \/ (m.sess = s /\ s \in shells[c] /\ got'[s] = Append(got[s], m.data))
    BY <2>1 DEF CloudTypes, AgentTypeOK
  <2> QED
    BY <1>1, <2>1, <2>2 DEF Gets, Takes, m
<1>2. ASSUME NEW c \in Conn, AgentStep(c), ~ShellInput(c) PROVE UNCHANGED got
  BY <1>2 DEF AgentStep, Run, WriteRegister, AwaitReply, OpenShell, RunClose, RunKill, RunNotify, RunErr,
              CloseAll, Exit, shellVars
<1>3. ASSUME NEW t \in Session, ShellStep(t) \/ ReaderStep(t) PROVE UNCHANGED got
  BY <1>3 DEF ShellStep, ReaderStep, ReadShell, ShellExits, Reader, SendOutput, ReadShellErr,
              ReaderClose, ReaderKill, ReaderNotify
<1> QED
  BY <1>1, <1>2, <1>3, AsideSteps DEF ShellsAside, shellVars

(* A shell comes into the map only by openShell.                           *)
LEMMA NewShell ==
    ASSUME CloudTypes, OpenInv, [Next]_vars, NEW s \in Session, NEW c \in Conn, s \in shells'[c]
    PROVE  s \in shells[c] \/ (Received(c) = Open(s) /\ Readable(toAgent[c]) /\ OpenShell(c))
<1> USE DEF CloudTypes, AgentTypeOK
<1>1. ASSUME NEW k \in Conn, OpenShell(k)
      PROVE  s \in shells[c] \/ (Received(c) = Open(s) /\ Readable(toAgent[c]) /\ OpenShell(c))
  <2> DEFINE t == Received(k).sess
  <2>1. shells' = [shells EXCEPT ![k] = @ \cup {t}] \/ shells' = shells
    BY <1>1 DEF OpenShell
  <2>2. Received(k) = Open(t) /\ Readable(toAgent[k])
    BY <1>1, OpensNew DEF OpenShell
  <2> HIDE DEF t
  <2>3. CASE shells' = shells
    BY <2>3
  <2>4. CASE shells' = [shells EXCEPT ![k] = @ \cup {t}] /\ k # c
    BY <2>4
  <2>5. CASE shells' = [shells EXCEPT ![k] = @ \cup {t}] /\ k = c
    <3>1. shells'[c] = shells[c] \cup {t}
      BY <2>5
    <3>2. s \in shells[c] \/ s = t
      BY <3>1
    <3> QED
      BY <1>1, <2>2, <2>5, <3>2
  <2> QED
    BY <2>1, <2>3, <2>4, <2>5
<1>2. ASSUME NEW k \in Conn, AgentStep(k), ~OpenShell(k) PROVE s \in shells[c]
  BY <1>2 DEF AgentStep, Run, WriteRegister, AwaitReply, ShellInput, RunClose, RunKill, RunNotify, RunErr,
              CloseAll, Exit
<1>3. ASSUME NEW t \in Session, ShellStep(t) \/ ReaderStep(t) PROVE s \in shells[c]
  BY <1>3 DEF ShellStep, ReaderStep, ReadShell, ShellExits, Reader, SendOutput, ReadShellErr,
              ReaderClose, ReaderKill, ReaderNotify
<1> QED
  BY <1>1, <1>2, <1>3, AsideSteps DEF ShellsAside

(* An Open is sent by SendOpen.                                            *)
LEMMA TellsOpen ==
    ASSUME NEW c \in Conn, NEW s \in Session, Tells(c, Open(s))
    PROVE  SendOpen(s)
<1>1. \A t \in Session : Open(t) = Open(s) => t = s
  BY DEF Open
<1>2. Open(s).type = "open" /\ \A t \in Session : Input(t, cbuf[t]).type = "in" /\ Close(t).type = "close"
  BY DEF Open, Input, Close
<1>3. Registered.type = "registered" /\ Error.type = "error"
  BY DEF Registered, Error
<1> QED
  BY <1>1, <1>2, <1>3 DEF Tells

(* A terminal is heard from its Open on.                                   *)
LEMMA HearsSteps ==
    ASSUME CloudTypes, LiveInv, RunInv, ShellInv, OpenInv, [Next]_vars, NEW s \in Session, Hears(s)'
    PROVE  Hears(s) \/ (SendOpen(s) /\ ~Past(s))
<1> DEFINE k == cac'[s]
<1>1. k \in Conn
  BY TypeSteps DEF Hears, Past, CloudTypes, TInv, BrokerTypeOK
<1>2. ASSUME s \in shells'[k] PROVE Hears(s)
  <2>1. CASE s \in shells[k]
    <3>1. home[s] = k
      BY <1>1, <2>1 DEF RunInv
    <3> QED
      BY <1>1, <2>1, <3>1, ConnNone DEF ShellInv, Hears
  <2>2. CASE Received(k) = Open(s) /\ Readable(toAgent[k]) /\ OpenShell(k)
    <3>1. cac[s] = k /\ Past(s)
      BY <1>1, <2>2, HeadIsFirst, OpenIsAbout
    <3>2. InFlight(toAgent[k], Open(s))
      <4>1. toAgent[k] \in Seq(BrokerFrame)
        BY <1>1 DEF CloudTypes, TInv, WireTypeOK
      <4>2. toAgent[k][1] = Open(s) /\ 1 \in 1..Len(toAgent[k])
        BY <2>2, <4>1, HeadRest DEF Received, Readable
      <4> QED
        BY <4>2 DEF InFlight
    <3> QED
      BY <3>1, <3>2 DEF Hears
  <2> QED
    BY <1>1, <1>2, <2>1, <2>2, NewShell
<1>3. ASSUME InFlight(toAgent'[k], Open(s)) PROVE Hears(s) \/ (SendOpen(s) /\ ~Past(s))
  <2>0. toAgent[k] \in Seq(BrokerFrame)
    BY <1>1 DEF CloudTypes, TInv, WireTypeOK
  <2>1. InFlight(toAgent[k], Open(s)) => Hears(s)
    BY <1>1, OpenIsAbout DEF InFlight, OpenInv, Hears
  <2>2. ASSUME NEW f \in BrokerFrame, toAgent'[k] = Append(toAgent[k], f), Tells(k, f)
        PROVE  Hears(s) \/ (SendOpen(s) /\ ~Past(s))
    <3>1. InFlight(toAgent[k], Open(s)) \/ f = Open(s)
      BY <1>3, <2>0, <2>2, Flying
    <3>2. f = Open(s) => SendOpen(s)
      BY <1>1, <2>2, TellsOpen
    <3> QED
      BY <2>1, <3>1, <3>2 DEF SendOpen, Past
  <2>3. Takes(k) => InFlight(toAgent[k], Open(s))
    BY <1>3, <2>0, Landing DEF Takes, Readable
  <2>4. toAgent'[k] # <<>>
    BY <1>3 DEF InFlight
  <2> QED
    BY <1>1, <1>3, <2>1, <2>2, <2>3, <2>4, ToAgentSteps
<1> QED
  BY <1>2, <1>3 DEF Hears

(* The frames of one step: at most one is sent, or one read.               *)
LEMMA OneFrame ==
    ASSUME NEW S, NEW q \in Seq(S), NEW f \in S
    PROVE  /\ Append(q, f) # q
           /\ q # <<>> => Tail(q) # q /\ Tail(q) # Append(q, f)
           /\ \A g \in S : Append(q, f) = Append(q, g) => f = g
<1>1. Len(Append(q, f)) = Len(q) + 1 /\ Len(q) \in Nat
  BY Appended
<1>2. q # <<>> => Len(Tail(q)) = Len(q) - 1
  BY HeadRest
<1>3. \A g \in S : Append(q, g)[Len(q) + 1] = g
  BY Appended
<1> QED
  BY <1>1, <1>2, <1>3

(* An Input sent is the next chunk.                                        *)
LEMMA SendsInput ==
    ASSUME CloudTypes, NEW s \in Session, SendInput(s)
    PROVE  /\ cac[s] \in Conn /\ Input(s, cbuf[s]) \in BrokerFrame /\ cpc[s] = "input"
           /\ \/ toAgent'[cac[s]] = toAgent[cac[s]] /\ link[cac[s]] # "up"
              \/ toAgent'[cac[s]] = Append(toAgent[cac[s]], Input(s, cbuf[s]))
<1>1. cac[s] \in Conn /\ Input(s, cbuf[s]) \in BrokerFrame /\ cpc[s] = "input"
  BY FrameTypes DEF SendInput, CloudTypes, TInv, Phases, Bridged
<1>2. \/ toAgent' = toAgent /\ link[cac[s]] # "up"
      \/ toAgent' = [toAgent EXCEPT ![cac[s]] = Append(@, Input(s, cbuf[s]))]
  BY DEF SendInput, SendOK, SendErr
<1> QED
  BY <1>1, <1>2 DEF CloudTypes, TInv, WireTypeOK

(* An "in" frame about s is sent by SendInput(s).                          *)
LEMMA TellsInput ==
    ASSUME NEW c \in Conn, NEW f, Tells(c, f), NEW s \in Session, Is(f, "in", s)
    PROVE  SendInput(s) /\ f = Input(s, cbuf[s]) /\ cac[s] = c
BY DEF Tells, Is, Open, Input, Close, Registered, Error

LEMMA KeepsInput ==
    ASSUME CloudTypes, LiveInv, RunInv, ShellInv, OpenInv, TypedInv, InputInv, [Next]_vars
    PROVE  InputInv'
<1> SUFFICES ASSUME NEW s \in Session PROVE InputOf(s)'
  BY DEF InputInv, InputOf
<1>0. /\ InputOf(s) /\ Sent(s) \in Nat /\ Sent(s)' \in Nat /\ Sent(s) <= Sent(s)'
      /\ Sent(s)' = Sent(s) \/ (SendInput(s) /\ Sent(s)' = Sent(s) + 1)
      /\ cpc[s] = "input" => cbuf[s] = Sent(s) + 1
  BY SentSteps DEF InputInv, InputOf, TypedInv, TypedOf
<1>1. /\ \A c \in Conn : toAgent[c] \in Seq(BrokerFrame)
      /\ got[s] \in Seq(Chunk) /\ Len(got[s]) \in Nat
  BY DEF CloudTypes, TInv, WireTypeOK, AgentTypeOK
<1>2. ASSUME NEW c \in Conn PROVE Rising(toAgent'[c], "in", s, Sent(s)')
  <2>0. Rising(toAgent[c], "in", s, Sent(s)) /\ toAgent[c] \in Seq(BrokerFrame)
    BY <1>0, <1>1 DEF InputOf
  <2>1. CASE toAgent'[c] = toAgent[c]
    BY <1>0, <2>0, <2>1, RisingUp
  <2>2. ASSUME NEW f \in BrokerFrame, toAgent'[c] = Append(toAgent[c], f), Tells(c, f)
        PROVE  Rising(toAgent'[c], "in", s, Sent(s)')
    <3>1. CASE Is(f, "in", s)
      <4>1. SendInput(s) /\ f.data = cbuf[s] /\ cpc[s] = "input"
        BY <2>2, <3>1, TellsInput DEF Input, SendInput
      <4>2. f.data = Sent(s) + 1
        BY <1>0, <4>1
      <4>3. Rising(toAgent'[c], "in", s, Sent(s) + 1)
        BY <1>0, <2>0, <2>2, <3>1, <4>2, NextSent
      <4>4. Sent(s)' = Sent(s) + 1
        BY <4>1, SentSteps DEF Sent, SendInput, webVars, CloudTypes, TInv, BrokerTypeOK, GoTerm
      <4> QED
        BY <4>3, <4>4
    <3>2. CASE ~Is(f, "in", s)
      <4>1. Rising(toAgent'[c], "in", s, Sent(s))
        BY <1>0, <2>0, <2>2, <3>2, OtherSent
      <4> QED
        BY <1>0, <4>1, RisingUp
    <3> QED
      BY <3>1, <3>2
  <2>3. CASE Takes(c)
    <3>1. Rising(toAgent'[c], "in", s, Sent(s))
      BY <1>0, <2>0, <2>3, OtherTaken DEF Takes, Readable
    <3> QED
      BY <1>0, <3>1, RisingUp
  <2>4. CASE toAgent'[c] = <<>>
    BY <2>4 DEF Rising
  <2> QED
    BY <2>1, <2>2, <2>3, <2>4, ToAgentSteps
(* What is given to the shell of s was heard.                              *)
<1>3. ASSUME NEW c \in Conn, Gets(c, s)
      PROVE  /\ Hears(s) /\ cac[s] = c /\ toAgent[c] # <<>> /\ toAgent'[c] = Tail(toAgent[c])
             /\ Is(Head(toAgent[c]), "in", s)
             /\ Received(c).data = Len(got[s]) + 1 /\ Len(got[s]) + 1 <= Sent(s)
             /\ Len(got'[s]) = Len(got[s]) + 1
             /\ \A i \in 1..Len(got'[s]) : got'[s][i] = i
  <2>1. home[s] = c /\ cac[s] = c /\ Past(s)
    BY <1>3, ConnNone DEF Gets, RunInv, ShellInv
  <2>2. Hears(s)
    BY <1>3, <2>1 DEF Hears, Gets
  <2>3. /\ toAgent[c] # <<>> /\ toAgent'[c] = Tail(toAgent[c])
        /\ Is(Head(toAgent[c]), "in", s)
    BY <1>3 DEF Gets, Takes, Readable, Is, Received
  <2>4. Received(c).data = Len(got[s]) + 1 /\ Len(got[s]) + 1 <= Sent(s)
    <3> DEFINE q == toAgent[c]
               g == Len(got[s])
    <3>1. Rising(q, "in", s, Sent(s)) /\ Follows(q, "in", s, g)
      BY <1>0, <2>1, <2>2 DEF InputOf
    <3>2. q \in Seq(BrokerFrame) /\ g \in Nat /\ q # <<>> /\ Is(Head(q), "in", s)
      BY <1>1, <2>3
    <3>3. Sent(s) \in Nat
      BY <1>0
    <3> HIDE DEF q, g
    <3>4. Head(q).data = g + 1 /\ g + 1 <= Sent(s)
      BY <3>1, <3>2, <3>3, NextTaken
    <3> QED
      BY <3>4 DEF q, g, Received
  <2>5. got'[s] = Append(got[s], Len(got[s]) + 1)
    BY <1>3, <2>4 DEF Gets
  <2>6. got[s] \in Seq(Nat) /\ Len(got[s]) + 1 \in Nat
    <3>1. got[s] \in Seq(Nat)
      BY <1>1, ChunkNat DEF Chunk
    <3> QED
      BY <1>1, <3>1
  <2>7. /\ Len(got'[s]) = Len(got[s]) + 1
        /\ \A i \in 1..Len(got[s]) : got'[s][i] = got[s][i]
        /\ got'[s][Len(got[s]) + 1] = Len(got[s]) + 1
    BY <2>5, <2>6, Appended
  <2>8. \A i \in 1..Len(got'[s]) : got'[s][i] = i
    <3> TAKE i \in 1..Len(got'[s])
    <3>1. CASE i = Len(got[s]) + 1
      BY <2>7, <3>1
    <3>2. CASE i # Len(got[s]) + 1
      <4>1. i \in 1..Len(got[s])
        BY <1>1, <2>7, <3>2
      <4> QED
        BY <1>0, <2>7, <4>1 DEF InputOf
    <3> QED
      BY <3>1, <3>2
  <2> QED
    BY <2>1, <2>2, <2>3, <2>4, <2>7, <2>8
<1>4. /\ \A i \in 1..Len(got'[s]) : got'[s][i] = i
      /\ Len(got'[s]) <= Sent(s)'
  BY <1>0, <1>1, <1>3, GotSteps DEF InputOf
<1>5. ASSUME Hears(s)'
      PROVE  /\ Follows(toAgent'[cac'[s]], "in", s, Len(got'[s]))
             /\ link'[cac'[s]] = "up" =>
                  Reaches(toAgent'[cac'[s]], "in", s, Len(got'[s]), Sent(s)')
  <2>1. CASE ~Hears(s)
    <3>1. SendOpen(s) /\ ~Past(s) /\ cac'[s] \in Conn
      BY <1>5, <2>1, HearsSteps, TypeSteps DEF CloudTypes, TInv, BrokerTypeOK, Hears, Past
    <3>2. Sent(s) = 0 /\ Sent(s)' = 0
      BY <1>0, <3>1 DEF TypedInv, SendOpen, SendInput
    <3>3. got[s] = <<>> /\ got'[s] = got[s]
      BY <1>3, <2>1, <3>1, GotSteps DEF ShellInv
    <3>4. Rising(toAgent'[cac'[s]], "in", s, 0)
      BY <1>2, <3>1, <3>2
    <3>5. Len(got'[s]) = 0 /\ Follows(toAgent'[cac'[s]], "in", s, 0)
      BY <3>3, <3>4 DEF Rising, Follows
    <3> QED
      BY <3>2, <3>5 DEF Reaches
  <2>2. CASE Hears(s)
    <3> DEFINE c == cac[s]
               q == toAgent[c]
    <3>0. /\ Past(s) /\ c \in Conn /\ cac'[s] = c /\ q \in Seq(BrokerFrame)
          /\ Follows(q, "in", s, Len(got[s])) /\ Rising(q, "in", s, Sent(s))
          /\ link[c] = "up" => Reaches(q, "in", s, Len(got[s]), Sent(s))
          /\ link'[c] = "up" => link[c] = "up"
      BY <1>0, <1>1, <2>2, StaysPast, StaysDown
         DEF Hears, Past, InputOf, CloudTypes, TInv, BrokerTypeOK
    <3> SUFFICES /\ Follows(toAgent'[c], "in", s, Len(got'[s]))
                 /\ link[c] = "up" => Reaches(toAgent'[c], "in", s, Len(got'[s]), Sent(s)')
      BY <3>0
    <3>1. SendInput(s) => /\ Input(s, cbuf[s]) \in BrokerFrame
                          /\ \/ toAgent'[c] = q /\ link[c] # "up"
                             \/ toAgent'[c] = Append(q, Input(s, cbuf[s]))
      BY SendsInput
    <3>2. got'[s] = got[s] \/ (q # <<>> /\ toAgent'[c] = Tail(q) /\ Is(Head(q), "in", s))
      BY <1>3, GotSteps
    <3> HIDE DEF c, q
    <3>3. CASE toAgent'[c] = q
      <4>1. got'[s] = got[s]
        BY <3>0, <3>2, <3>3, OneFrame
      <4>2. link[c] = "up" => Sent(s)' = Sent(s)
        BY <1>0, <3>0, <3>1, <3>3, OneFrame
      <4> QED
        BY <3>0, <3>3, <4>1, <4>2
    <3>4. ASSUME NEW f \in BrokerFrame, toAgent'[c] = Append(q, f), Tells(c, f)
          PROVE  /\ Follows(toAgent'[c], "in", s, Len(got'[s]))
                 /\ link[c] = "up" => Reaches(toAgent'[c], "in", s, Len(got'[s]), Sent(s)')
      <4>1. got'[s] = got[s]
        BY <3>0, <3>2, <3>4, OneFrame
      <4>2. CASE Is(f, "in", s)
        <5>1. SendInput(s) /\ f.data = cbuf[s] /\ cpc[s] = "input"
          BY <3>0, <3>4, <4>2, TellsInput DEF Input, SendInput
        <5>2. f.data = Sent(s) + 1
          BY <1>0, <5>1
        <5>3. Sent(s)' = Sent(s) + 1
          BY <5>1, SentSteps DEF Sent, SendInput, webVars, CloudTypes, TInv, BrokerTypeOK, GoTerm
        <5>4. Len(got[s]) <= Sent(s) /\ Len(got[s]) \in Nat /\ Sent(s) \in Nat
          BY <1>0, <1>1 DEF InputOf
        <5>5. link[c] = "up" => /\ Follows(Append(q, f), "in", s, Len(got[s]))
                                /\ Reaches(Append(q, f), "in", s, Len(got[s]), Sent(s) + 1)
          BY <3>0, <4>2, <5>2, <5>4, NextSent
        <5>6. link[c] = "up"
          <6>1. SendOK(c, Input(s, cbuf[s])) \/ SendErr(c)
            BY <5>1 DEF SendInput, c
          <6>2. toAgent'[c] # q
            BY <3>0, <3>4, OneFrame
          <6> QED
            BY <6>1, <6>2 DEF SendOK, SendErr, q
        <5> QED
          BY <3>4, <4>1, <5>3, <5>5, <5>6
      <4>3. CASE ~Is(f, "in", s)
        <5>1. ~SendInput(s)
          BY <3>0, <3>1, <3>4, <4>3, OneFrame DEF Is, Input
        <5> QED
          BY <1>0, <1>1, <3>0, <3>4, <4>1, <4>3, <5>1, OtherSent
      <4> QED
        BY <4>2, <4>3
    <3>5. CASE Takes(c)
      <4>0. q # <<>> /\ toAgent'[c] = Tail(q) /\ Received(c) = Head(q)
        BY <3>5 DEF Takes, Readable, Received, q
      <4>1. Sent(s)' = Sent(s)
        BY <1>0, <3>0, <3>1, <4>0, OneFrame
      <4>2. CASE Is(Head(q), "in", s)
        <5>1. s \in shells[c]
          <6>1. About(Received(c), s) /\ Received(c) # Open(s)
            BY <4>0, <4>2 DEF Is, About, Open
          <6>2. ~InFlight(toAgent[c], Open(s))
            BY <3>0, <4>0, <6>1, HeadIsFirst DEF Readable, q
          <6> QED
            BY <2>2, <6>2 DEF Hears, c
        <5>2. rpc[c] # "await"
          BY <3>0, <5>1 DEF RunInv
        <5>3. ShellInput(c)
          BY <3>5, <4>0, <4>2, <5>2 DEF Takes, AwaitReply, OpenShell, RunClose, Is
        <5>4. Gets(c, s)
          <6>1. Received(c).type = "in" /\ Received(c).sess = s
            BY <4>0, <4>2 DEF Is
          <6>2. got'[s] = Append(got[s], Received(c).data)
            BY <5>1, <5>3, <6>1 DEF ShellInput, CloudTypes, AgentTypeOK
          <6> QED
            BY <3>5, <5>1, <5>3, <6>1, <6>2 DEF Gets
        <5>5. Len(got'[s]) = Len(got[s]) + 1
          BY <1>3, <3>0, <5>4
        <5>6. Len(got[s]) \in Nat /\ Sent(s) \in Nat
          BY <1>0, <1>1
        <5>7. /\ Follows(Tail(q), "in", s, Len(got[s]) + 1)
              /\ Reaches(q, "in", s, Len(got[s]), Sent(s)) =>
                   Reaches(Tail(q), "in", s, Len(got[s]) + 1, Sent(s))
          BY <3>0, <4>0, <4>2, <5>6, NextTaken
        <5> QED
          BY <3>0, <4>0, <4>1, <5>5, <5>7
      <4>3. CASE ~Is(Head(q), "in", s)
        <5>1. got'[s] = got[s]
          BY <3>2, <4>3
        <5> QED
          BY <1>0, <1>1, <3>0, <4>0, <4>1, <4>3, <5>1, OtherTaken
      <4> QED
        BY <4>2, <4>3
    <3>6. CASE Exit(c) /\ toAgent'[c] = <<>>
      <4>1. ~InFlight(toAgent'[c], Open(s))
        BY <3>6 DEF InFlight
      <4>2. rpc[c] = "return" /\ shells' = shells
        BY <3>6 DEF Exit
      <4>3. s \notin shells'[c]
        BY <3>0, <4>2 DEF RunInv
      <4> QED
        BY <1>5, <3>0, <4>1, <4>3 DEF Hears, c
    <3> QED
      BY <3>0, <3>3, <3>4, <3>5, <3>6, ToAgentSteps DEF q
  <2> QED
    BY <2>1, <2>2
<1> QED
  BY <1>2, <1>4, <1>5 DEF InputOf

-----------------------------------------------------------------------------
(***************************************************************************)
(* PageInv: what a step does to the frame in agentWS's hand, the browser's *)
(* socket and the page.                                                    *)
(***************************************************************************)
(* The frames about s in a hand other than c's stay there.                 *)
HeldElsewhere(c, s) ==
    \A k \in Conn \ {c} : /\ Holding(k, s)' <=> Holding(k, s)
                          /\ Holding(k, s) => held'[k] = held[k]

Aside(s) ==
    /\ UNCHANGED <<shown[s], toBrowser[s]>> /\ HeldElsewhere(None, s)
    /\ ws'[s] = "open" => ws[s] = "open" \/ home[s] = None

Serves(c, s) ==
    /\ ServeOutput(c) /\ sessions[s] # None
    /\ toBroker[c] # <<>> /\ Is(Head(toBroker[c]), "out", s) /\ toBroker'[c] = Tail(toBroker[c])
    /\ apc[c] = "serve" /\ Holding(c, s)' /\ held'[c] = Head(toBroker[c])
    /\ UNCHANGED <<shown[s], toBrowser[s], ws[s]>> /\ HeldElsewhere(c, s)

Writes(c, s) ==
    /\ Holding(c, s) /\ ~Holding(c, s)'
    /\ \/ ws[s] = "open" /\ toBrowser'[s] = Append(toBrowser[s], held[c].data)
       \/ ws[s] # "open" /\ UNCHANGED toBrowser[s]
    /\ UNCHANGED <<shown[s], ws[s]>> /\ HeldElsewhere(c, s)

Shows(s) ==
    /\ toBrowser[s] # <<>> /\ toBrowser'[s] = Tail(toBrowser[s])
    /\ shown'[s] = Append(shown[s], Head(toBrowser[s]))
    /\ UNCHANGED ws[s] /\ HeldElsewhere(None, s)

Leaves(s) ==
    /\ ws'[s] = "gone" /\ toBrowser'[s] = <<>>
    /\ UNCHANGED shown[s] /\ HeldElsewhere(None, s)

LEMMA ServesOutput ==
    ASSUME CloudTypes, NEW c \in Conn, ServeOutput(c), UNCHANGED shown, NEW s \in Session
    PROVE  /\ Aside(s) \/ Serves(c, s)
           /\ sessions[s] # None /\ Is(Head(toBroker[c]), "out", s) => Serves(c, s)
<1> DEFINE m == Head(toBroker[c])
<1>1. /\ apc[c] = "serve" /\ m.type = "out" /\ toBroker[c] # <<>>
      /\ toBroker'[c] = Tail(toBroker[c])
      /\ UNCHANGED <<shown, toBrowser, ws>>
      /\ IF sessions[m.sess] # None
           THEN apc' = [apc EXCEPT ![c] = "write"] /\ held' = [held EXCEPT ![c] = m]
           ELSE UNCHANGED <<apc, held>>
  BY DEF ServeOutput, Readable, GoAgent, webVars, CloudTypes, TInv, WireTypeOK
<1>a. Is(Head(toBroker[c]), "out", s) => m.sess = s
  BY DEF Is
<1> HIDE DEF m
<1>2. CASE sessions[m.sess] # None /\ m.sess = s
  <2>1. Is(m, "out", s)
    BY <1>1, <1>2 DEF Is
  <2>2. Holding(c, s)' /\ held'[c] = m /\ HeldElsewhere(c, s)
    BY <1>1, <1>2 DEF Holding, HeldElsewhere, CloudTypes, TInv, BrokerTypeOK
  <2> QED
    BY <1>1, <1>2, <2>1, <2>2 DEF Serves, m
<1>3. CASE sessions[m.sess] # None /\ m.sess # s
  BY <1>1, <1>a, <1>3 DEF Holding, HeldElsewhere, Aside, CloudTypes, TInv, BrokerTypeOK
<1>4. CASE sessions[m.sess] = None
  BY <1>1, <1>a, <1>4 DEF Holding, HeldElsewhere, Aside
<1> QED
  BY <1>2, <1>3, <1>4 DEF Is, m

LEMMA WritesBrowser ==
    ASSUME CloudTypes, NEW c \in Conn, WriteBrowser(c), UNCHANGED shown, NEW s \in Session
    PROVE  Aside(s) \/ Writes(c, s)
<1> DEFINE t == held[c].sess
<1>1. /\ apc[c] = "write" /\ t \in Session
      /\ apc' = [apc EXCEPT ![c] = "serve"] /\ held' = [held EXCEPT ![c] = None]
      /\ UNCHANGED <<shown, ws>>
      /\ \/ ws[t] = "open" /\ toBrowser' = [toBrowser EXCEPT ![t] = Append(@, held[c].data)]
         \/ ws[t] # "open" /\ UNCHANGED toBrowser
  BY DEF WriteBrowser, GoAgent, CloudTypes, TInv, Phases
<1>2. HeldElsewhere(c, s) /\ ~Holding(c, s)'
  BY <1>1 DEF Holding, HeldElsewhere, CloudTypes, TInv, BrokerTypeOK
<1> HIDE DEF t
<1>3. CASE t = s
  <2>1. Holding(c, s)
    BY <1>1, <1>3 DEF Holding, t
  <2> QED
    BY <1>1, <1>2, <1>3, <2>1 DEF Writes, CloudTypes, TInv, BrokerTypeOK
<1>4. CASE t # s
  <2>1. ~Holding(c, s)
    BY <1>4 DEF Holding, t
  <2>2. HeldElsewhere(None, s)
    BY <1>2, <2>1 DEF HeldElsewhere
  <2>3. UNCHANGED <<shown[s], toBrowser[s], ws[s]>>
    BY <1>1, <1>4 DEF CloudTypes, TInv, BrokerTypeOK
  <2> QED
    BY <2>2, <2>3 DEF Aside
<1> QED
  BY <1>3, <1>4

LEMMA PageSteps ==
    ASSUME CloudTypes, LiveInv, ShellInv, [Next]_vars, NEW s \in Session
    PROVE  \/ Aside(s) \/ Shows(s) \/ Leaves(s)
           \/ \E c \in Conn : Serves(c, s) \/ Writes(c, s)
<1> DEFINE Goal == \/ Aside(s) \/ Shows(s) \/ Leaves(s)
                   \/ \E c \in Conn : Serves(c, s) \/ Writes(c, s)
<1> HIDE DEF Goal
<1> SUFFICES Goal
  BY DEF Goal
<1>a. CASE UNCHANGED <<shown[s], toBrowser[s], ws[s], apc, held>>
  BY <1>a DEF Aside, HeldElsewhere, Holding, Goal
<1>1. CASE Setup
  BY <1>1 DEF Setup, Aside, HeldElsewhere, Holding, Goal, webVars
<1>2. ASSUME NEW c \in Conn, Connect(c) \/ NetworkStep(c) \/ BrokerStep(c) PROVE Goal
  <2>1. CASE ServeOutput(c) /\ UNCHANGED shown
    BY <2>1, ServesOutput DEF Goal
  <2>2. CASE WriteBrowser(c) /\ UNCHANGED shown
    BY <2>2, WritesBrowser DEF Goal
  <2>3. CASE (ServeClose(c) \/ HangUp(c)) /\ UNCHANGED shown
    <3>1. /\ apc[c] # "write" /\ apc'[c] # "write" /\ UNCHANGED <<shown, toBrowser>>
          /\ \A k \in Conn \ {c} : apc'[k] = apc[k] /\ held'[k] = held[k]
          /\ ws'[s] = "open" => ws[s] = "open"
      BY <2>3 DEF ServeClose, HangUp, GoAgent, webVars, CloudTypes, TInv, BrokerTypeOK, Phases
    <3> QED
      BY <3>1 DEF Aside, HeldElsewhere, Holding, Goal
  <2> QED
    BY <1>1, <1>2, <2>1, <2>2, <2>3, SetupSteps DEF BrokerStep, AgentWS, SetsUp
<1>3. ASSUME NEW t \in Session, TerminalStep(t) PROVE Goal
  <2>1. UNCHANGED <<apc, held, shown, toBrowser>> /\ (ws'[s] = "open" => ws[s] = "open" \/ home[s] = None)
    <3>1. CASE Publish(t)
      <4>1. ~Past(t)
        BY <3>1 DEF Publish, Past
      <4>2. ws' = [ws EXCEPT ![t] = "open"]
        BY <3>1 DEF Publish
      <4>3. home[t] = None
        BY <4>1 DEF ShellInv
      <4> QED
        BY <1>3, <3>1, <4>2, <4>3 DEF TerminalStep, Publish, agentSide, CloudTypes, TInv, BrokerTypeOK
    <3>2. CASE CloseBrowser(t)
      BY <1>3, <3>2 DEF TerminalStep, CloseBrowser, agentSide, CloudTypes, TInv, BrokerTypeOK
    <3> QED
      BY <1>3, <3>1, <3>2 DEF TerminalStep, ConnectWS, Lookup, UpgradeFails, SendOpen, ReadBrowser,
         ReadBrowserErr, SendInput, SendClose, CloseSession, agentSide, webVars
  <2> QED
    BY <2>1 DEF Aside, HeldElsewhere, Holding, Goal
<1>4. ASSUME NEW t \in Session, UserStep(t) \/ ShowStep(t) PROVE Goal
  <2>1. CASE BrowserLeave(t) /\ UNCHANGED shown
    <3>1. /\ ws' = [ws EXCEPT ![t] = "gone"] /\ toBrowser' = [toBrowser EXCEPT ![t] = <<>>]
          /\ UNCHANGED <<apc, held, shown>>
      BY <2>1 DEF BrowserLeave, agentSide
    <3>2. HeldElsewhere(None, s)
      BY <3>1 DEF HeldElsewhere, Holding
    <3>3. CASE t = s
      BY <3>1, <3>2, <3>3 DEF Leaves, Goal, CloudTypes, TInv, BrokerTypeOK
    <3>4. CASE t # s
      BY <1>a, <3>1, <3>4 DEF CloudTypes, TInv, BrokerTypeOK
    <3> QED
      BY <3>3, <3>4
  <2>2. CASE ShowStep(t)
    <3>1. /\ toBrowser[t] # <<>> /\ toBrowser' = [toBrowser EXCEPT ![t] = Tail(@)]
          /\ shown' = [shown EXCEPT ![t] = Append(@, Head(toBrowser[t]))]
          /\ UNCHANGED <<apc, held, ws>>
      BY <2>2 DEF ShowStep, BrowserShow, Readable, agentSide
    <3>2. HeldElsewhere(None, s)
      BY <3>1 DEF HeldElsewhere, Holding
    <3>3. CASE t = s
      BY <3>1, <3>2, <3>3 DEF Shows, Goal, CloudTypes, TInv, BrokerTypeOK
    <3>4. CASE t # s
      BY <1>a, <3>1, <3>4 DEF CloudTypes, TInv, BrokerTypeOK
    <3> QED
      BY <3>3, <3>4
  <2> QED
    BY <1>4, <1>a, <2>1, <2>2 DEF UserStep, Unauthorized, Authorized, BrowserType, agentSide, webVars
<1>5. ASSUME NEW c \in Conn, AgentStep(c) PROVE Goal
  BY <1>5, <1>a DEF AgentStep, brokerVars, webVars, agentSide
<1>6. ASSUME NEW t \in Session, ShellStep(t) \/ ReaderStep(t) PROVE Goal
  BY <1>6, <1>a DEF ShellStep, ReaderStep, brokerVars, webVars, agentSide
<1>7. CASE UNCHANGED vars
  BY <1>7, <1>a DEF vars, brokerVars, webVars, agentSide
<1> QED
  BY <1>2, <1>3, <1>4, <1>5, <1>6, <1>7 DEF Next, Quiescent
-----------------------------------------------------------------------------
(***************************************************************************)
(* What a step does to the queue of frames from an agent, and OutputInv.   *)
(***************************************************************************)
(* What the agent sends.                                                   *)
Says(c, f) ==
    \/ \E d \in Device : f = Register(d)
    \/ \E s \in Session : f = Close(s)
    \/ \E s \in Session : SendOutput(s) /\ f = Output(s, printed[s]) /\ home[s] = c

(* What agentWS reads.                                                     *)
Reads(c) ==
    /\ toBroker[c] # <<>> /\ toBroker'[c] = Tail(toBroker[c])
    /\ \/ Head(toBroker[c]).type = "register"
       \/ Head(toBroker[c]).type = "close" /\ ServeClose(c)
       \/ apc[c] \in Pre
       \/ ServeOutput(c) /\ UNCHANGED shown

LEMMA WrittenOut ==
    ASSUME CloudTypes, NEW k \in Conn, NEW f \in AgentFrame, WriteOK(k, f) \/ WriteErr(k),
           NEW c \in Conn
    PROVE  toBroker'[c] = toBroker[c] \/ (k = c /\ toBroker'[c] = Append(toBroker[c], f))
<1>1. toBroker' = toBroker \/ toBroker' = [toBroker EXCEPT ![k] = Append(@, f)]
  BY DEF WriteOK, WriteErr
<1> QED
  BY <1>1 DEF CloudTypes, TInv, WireTypeOK

LEMMA ToBrokerSteps ==
    ASSUME CloudTypes, LiveInv, RunInv, ShellInv, [Next]_vars, NEW c \in Conn
    PROVE  \/ toBroker'[c] = toBroker[c]
           \/ \E f \in AgentFrame : toBroker'[c] = Append(toBroker[c], f) /\ Says(c, f)
           \/ Reads(c)
<1> DEFINE Goal == \/ toBroker'[c] = toBroker[c]
                   \/ \E f \in AgentFrame : toBroker'[c] = Append(toBroker[c], f) /\ Says(c, f)
                   \/ Reads(c)
<1> HIDE DEF Goal
<1> SUFFICES Goal
  BY DEF Goal
<1>0. toBroker \in [Conn -> Seq(AgentFrame)]
  BY DEF CloudTypes, TInv, WireTypeOK
<1>a. CASE UNCHANGED toBroker
  BY <1>a DEF Goal
<1>1. CASE Setup
  BY <1>1 DEF Setup, Reads, Goal
<1>2. ASSUME NEW k \in Conn, Connect(k) \/ NetworkStep(k) \/ BrokerStep(k) PROVE Goal
  <2>1. CASE ServeOutput(k) /\ UNCHANGED shown
    <3>1. toBroker' = [toBroker EXCEPT ![k] = Tail(@)] /\ toBroker[k] # <<>>
      BY <2>1 DEF ServeOutput, Readable
    <3> QED
      BY <1>0, <2>1, <3>1 DEF Reads, Goal
  <2>2. CASE ServeClose(k)
    BY <1>0, <2>2 DEF ServeClose, Readable, Reads, Goal
  <2>3. CASE WriteBrowser(k) \/ HangUp(k)
    BY <1>a, <2>3 DEF WriteBrowser, HangUp, wireVars
  <2> QED
    BY <1>1, <1>2, <2>1, <2>2, <2>3, SetupSteps DEF BrokerStep, AgentWS, SetsUp
<1>3. ASSUME NEW k \in Conn, AgentStep(k) PROVE Goal
  <2>1. ASSUME NEW d \in Device, WriteRegister(k, d) PROVE Goal
    BY <2>1, WrittenOut, AgentFrameTypes DEF WriteRegister, Says, Goal
  <2>2. CASE RunNotify(k)
    <3>1. cur[k] \in Session
      BY <2>2 DEF RunNotify, RunInv, CloudTypes, AgentTypeOK
    <3> QED
      BY <2>2, <3>1, WrittenOut, AgentFrameTypes DEF RunNotify, Says, Goal
  <2> QED
    BY <1>3, <1>a, <2>1, <2>2 DEF AgentStep, Run, AwaitReply, OpenShell, ShellInput, RunClose, RunKill,
       RunErr, CloseAll, Exit, Take, wireVars
<1>4. ASSUME NEW s \in Session, ShellStep(s) \/ ReaderStep(s) PROVE Goal
  <2>1. CASE SendOutput(s)
    <3>1. printed[s] \in Chunk /\ home[s] \in Conn
      BY <2>1, ChunkNat DEF SendOutput, ShellInv, Chunk, Alive, CloudTypes, AgentTypeOK
    <3>2. Output(s, printed[s]) \in AgentFrame
      BY <3>1, AgentFrameTypes
    <3>3. WriteOK(home[s], Output(s, printed[s])) \/ WriteErr(home[s])
      BY <2>1 DEF SendOutput
    <3> QED
      BY <2>1, <3>1, <3>2, <3>3, WrittenOut DEF Says, Goal
  <2>2. CASE ReaderNotify(s)
    <3>1. /\ home[s] \in Conn /\ Close(s) \in AgentFrame
          /\ WriteOK(home[s], Close(s)) \/ WriteErr(home[s])
      BY <2>2, AgentFrameTypes DEF ReaderNotify, Alive, CloudTypes, AgentTypeOK
    <3> QED
      BY <3>1, WrittenOut DEF Says, Goal
  <2> QED
    BY <1>4, <1>a, <2>1, <2>2 DEF ShellStep, ReaderStep, ReadShell, ShellExits, Reader, ReadShellErr,
       ReaderClose, ReaderKill, wireVars
<1>5. ASSUME NEW s \in Session, TerminalStep(s) \/ UserStep(s) \/ ShowStep(s) PROVE UNCHANGED toBroker
  BY <1>5 DEF TerminalStep, UserStep, ShowStep, ConnectWS, Lookup, UpgradeFails, Publish, SendOpen,
     ReadBrowser, ReadBrowserErr, SendInput, SendClose, CloseSession, CloseBrowser, Unauthorized,
     Authorized, BrowserType, BrowserShow, BrowserLeave, wireVars
<1>6. CASE UNCHANGED vars
  BY <1>6, <1>a DEF vars, wireVars
<1> QED
  BY <1>a, <1>2, <1>3, <1>4, <1>5, <1>6 DEF Next, Quiescent

(* The reader sends one chunk at a time.                                   *)
LEMMA OutSteps ==
    ASSUME CloudTypes, ShellInv, OpenInv, [Next]_vars, NEW s \in Session
    PROVE  /\ OutSent(s) \in Nat /\ OutSent(s)' \in Nat
           /\ \/ ~SendOutput(s) /\ OutSent(s)' = OutSent(s)
              \/ /\ SendOutput(s) /\ OutSent(s)' = OutSent(s) + 1
                 /\ printed[s] = OutSent(s) + 1
<1> DEFINE Goal == \/ ~SendOutput(s) /\ OutSent(s)' = OutSent(s)
                   \/ /\ SendOutput(s) /\ OutSent(s)' = OutSent(s) + 1
                      /\ printed[s] = OutSent(s) + 1
<1> HIDE DEF Goal
<1>0. OutSent(s) \in Nat /\ printed[s] \in Nat
  BY ChunkNat DEF OutSent, ShellInv, CloudTypes, AgentTypeOK
<1> SUFFICES Goal
  BY <1>0 DEF Goal
<1>a. ASSUME rd'[s] = rd[s], printed'[s] = printed[s] PROVE Goal
  <2>1. ~SendOutput(s)
    BY <1>a DEF SendOutput, GoReader, CloudTypes, AgentTypeOK
  <2> QED
    BY <1>a, <2>1 DEF OutSent, Goal
<1>1. CASE ShellsAside
  BY <1>a, <1>1 DEF ShellsAside, shellVars
<1>2. ASSUME NEW c \in Conn, AgentStep(c) PROVE Goal
  <2>1. CASE OpenShell(c)
    <3> DEFINE t == Received(c).sess
    <3>1. t \in Session /\ home[t] = None /\ UNCHANGED printed
      BY <2>1, OpensNew DEF OpenShell
    <3>2. rd' = [rd EXCEPT ![t] = "read"] \/ rd' = rd
      BY <2>1 DEF OpenShell
    <3> HIDE DEF t
    <3>3. rd[t] = "none"
      BY <3>1 DEF ShellInv
    <3>4. rd'[s] = rd[s] \/ (rd[s] = "none" /\ rd'[s] = "read")
      BY <3>1, <3>2, <3>3 DEF CloudTypes, AgentTypeOK
    <3> QED
      BY <1>a, <3>1, <3>4 DEF OutSent, Goal, SendOutput
  <2> QED
    BY <1>2, <1>a, <2>1 DEF AgentStep, Run, WriteRegister, AwaitReply, ShellInput, RunClose, RunKill,
       RunNotify, RunErr, CloseAll, Exit, shellVars
<1>3. ASSUME NEW t \in Session, ShellStep(t) \/ ReaderStep(t) PROVE Goal
  <2> USE DEF CloudTypes, AgentTypeOK, GoReader
  <2>1. CASE t # s
    <3>1. rd'[s] = rd[s] /\ printed'[s] = printed[s]
      <4>1. rd' = rd \/ \E to \in ReaderPC : rd' = [rd EXCEPT ![t] = to]
        BY <1>3 DEF ShellStep, ReaderStep, ReadShell, ShellExits, Reader, SendOutput, ReadShellErr,
                    ReaderClose, ReaderKill, ReaderNotify, ReaderPC
      <4>2. printed' = printed \/ printed' = [printed EXCEPT ![t] = @ + 1]
        BY <1>3 DEF ShellStep, ReaderStep, ReadShell, ShellExits, Reader, SendOutput, ReadShellErr,
                    ReaderClose, ReaderKill, ReaderNotify
      <4> QED
        BY <2>1, <4>1, <4>2
    <3> QED
      BY <1>a, <3>1
  <2>2. CASE t = s
    <3>1. CASE SendOutput(s)
      <4>1. rd[s] = "out" /\ rd'[s] \in {"read", "closing"} /\ printed' = printed
        BY <3>1 DEF SendOutput
      <4> QED
        BY <1>0, <3>1, <4>1 DEF OutSent, Goal
    <3>2. CASE ReadShell(s)
      <4>1. rd[s] = "read" /\ rd'[s] = "out" /\ printed'[s] = printed[s] + 1
        BY <3>2 DEF ReadShell
      <4> QED
        BY <1>0, <4>1 DEF OutSent, Goal, SendOutput
    <3>3. CASE ShellExits(s)
      BY <1>a, <3>3 DEF ShellExits
    <3>4. CASE ReadShellErr(s) \/ ReaderClose(s) \/ ReaderKill(s) \/ ReaderNotify(s)
      <4>1. rd[s] # "out" /\ rd'[s] # "out" /\ printed' = printed
        BY <3>4 DEF ReadShellErr, ReaderClose, ReaderKill, ReaderNotify
      <4> QED
        BY <1>0, <4>1 DEF OutSent, Goal, SendOutput
    <3> QED
      BY <1>3, <2>2, <3>1, <3>2, <3>3, <3>4 DEF ShellStep, ReaderStep, Reader
  <2> QED
    BY <2>1, <2>2
<1> QED
  BY <1>1, <1>2, <1>3, AsideSteps
(* What PageInv says of one terminal.                                      *)
HeldOf(c, s) ==
    Holding(c, s) =>
        /\ home[s] = c /\ held[c].data <= OutSent(s)
        /\ ws[s] = "open" => held[c].data = Arrived(s) + 1

PageOf(s) ==
    /\ \A i \in 1..Len(shown[s]) : shown[s][i] = i
    /\ \A i \in 1..Len(toBrowser[s]) : toBrowser[s][i] = Len(shown[s]) + i
    /\ Arrived(s) <= OutSent(s)
    /\ \A c \in Conn : HeldOf(c, s)

(* What OutputInv says of one.                                             *)
OutputOf(s) ==
    /\ \A c \in Conn :
         /\ \A i \in 1..Len(toBroker[c]) : Is(toBroker[c][i], "out", s) => home[s] = c
         /\ Rising(toBroker[c], "out", s, OutSent(s))
    /\ home[s] # None /\ ws[s] = "open" /\ sessions[s] # None =>
         /\ Follows(toBroker[home[s]], "out", s, Delivered(s))
         /\ link[home[s]] = "up" =>
              Reaches(toBroker[home[s]], "out", s, Delivered(s), OutSent(s))

(* The frame the loop takes for a bridged terminal is the next one.        *)
LEMMA ServesNext ==
    ASSUME CloudTypes, ShellInv, OutputInv, NEW s \in Session, NEW c \in Conn, Serves(c, s),
           OutSent(s) \in Nat
    PROVE  /\ home[s] = c /\ Head(toBroker[c]).data \in 1..OutSent(s)
           /\ ~Holding(c, s)
           /\ ws[s] = "open" =>
                /\ Head(toBroker[c]).data = Arrived(s) + 1
                /\ Delivered(s) = Arrived(s)
                /\ Follows(Tail(toBroker[c]), "out", s, Arrived(s) + 1)
                /\ link[c] = "up" => Reaches(Tail(toBroker[c]), "out", s, Arrived(s) + 1, OutSent(s))
<1> DEFINE q == toBroker[c]
<1>1. /\ q \in Seq(AgentFrame) /\ q # <<>> /\ Is(Head(q), "out", s) /\ apc[c] = "serve"
      /\ sessions[s] # None
  BY DEF Serves, CloudTypes, TInv, WireTypeOK
<1>2. Head(q) = q[1] /\ 1 \in 1..Len(q)
  BY <1>1, HeadRest
<1>3. home[s] = c /\ Rising(q, "out", s, OutSent(s))
  BY <1>1, <1>2 DEF OutputInv
<1>4. Head(q).data \in 1..OutSent(s)
  BY <1>1, <1>2, <1>3 DEF Rising
<1>5. ~Holding(c, s) /\ Delivered(s) = Arrived(s) /\ Arrived(s) \in Nat
  BY <1>1, <1>3 DEF Holding, Delivered, Arrived, CloudTypes, TInv, BrokerTypeOK
<1>6. ASSUME ws[s] = "open"
      PROVE  /\ Head(q).data = Arrived(s) + 1
             /\ Follows(Tail(q), "out", s, Arrived(s) + 1)
             /\ link[c] = "up" => Reaches(Tail(q), "out", s, Arrived(s) + 1, OutSent(s))
  <2>1. /\ Follows(q, "out", s, Arrived(s))
        /\ link[c] = "up" => Reaches(q, "out", s, Arrived(s), OutSent(s))
    BY <1>1, <1>3, <1>5, <1>6, ConnNone DEF OutputInv
  <2> HIDE DEF q
  <2> QED
    BY <1>1, <1>3, <1>5, <2>1, NextTaken
<1> QED
  BY <1>3, <1>4, <1>5, <1>6

LEMMA KeepsPage ==
    ASSUME CloudTypes, LiveInv, ShellInv, OpenInv, PageInv, OutputInv, [Next]_vars
    PROVE  PageInv'
<1> SUFFICES ASSUME NEW s \in Session PROVE PageOf(s)'
  BY DEF PageInv, PageOf, HeldOf
<1>0. /\ PageOf(s) /\ OutSent(s) \in Nat /\ OutSent(s)' \in Nat /\ OutSent(s) <= OutSent(s)'
      /\ home[s] # None => home'[s] = home[s]
      /\ shown[s] \in Seq(Nat) /\ toBrowser[s] \in Seq(Nat)
      /\ Len(shown[s]) \in Nat /\ Len(toBrowser[s]) \in Nat
  <2>1. PageOf(s)
    BY DEF PageInv, PageOf, HeldOf
  <2>2. shown[s] \in Seq(Chunk) /\ toBrowser[s] \in Seq(Chunk)
    BY DEF CloudTypes, TInv, BrokerTypeOK
  <2>3. shown[s] \in Seq(Nat)
    BY <2>2, ChunkNat DEF Chunk
  <2>4. toBrowser[s] \in Seq(Nat)
    BY <2>2, ChunkNat DEF Chunk
  <2> QED
    BY <2>1, <2>2, <2>3, <2>4, OutSteps, HomeStays
<1> DEFINE a == shown[s]
           b == toBrowser[s]
           x == shown'[s]
           y == toBrowser'[s]
<1>c. Arrived(s) = Len(a) + Len(b) /\ Arrived(s)' = Len(x) + Len(y)
  BY DEF Arrived
<1>a. Len(a) \in Nat /\ Len(b) \in Nat /\ a \in Seq(Nat) /\ b \in Seq(Nat)
  BY <1>0
<1>b. /\ Arrived(s) \in Nat /\ Arrived(s) <= OutSent(s)
      /\ OutSent(s) \in Nat /\ OutSent(s)' \in Nat /\ OutSent(s) <= OutSent(s)'
  <2> HIDE DEF a, b, x, y
  <2>1. Arrived(s) \in Nat
    BY <1>a, <1>c
  <2> QED
    BY <1>0, <2>1 DEF PageOf
<1>1. \A c \in Conn : Holding(c, s) => home[s] = c /\ home'[s] = c /\ held[c].data \in Nat
  BY <1>0, ConnNone, ChunkNat DEF PageOf, HeldOf, Holding, Chunk, CloudTypes, TInv, Phases
<1>2. CASE Aside(s)
  <2>1. Arrived(s)' = Arrived(s)
    BY <1>2 DEF Aside, Arrived
  <2>2. \A c \in Conn : HeldOf(c, s)'
    <3> SUFFICES ASSUME NEW c \in Conn, Holding(c, s)'
                 PROVE  /\ home'[s] = c /\ held'[c].data <= OutSent(s)'
                        /\ ws'[s] = "open" => held'[c].data = Arrived(s)' + 1
      BY DEF HeldOf
    <3>1. Holding(c, s) /\ held'[c] = held[c]
      BY <1>2, ConnNone DEF Aside, HeldElsewhere
    <3> QED
      BY <1>0, <1>1, <1>2, <2>1, <3>1, ConnNone DEF Aside, PageOf, HeldOf
  <2>3. shown'[s] = shown[s] /\ toBrowser'[s] = toBrowser[s]
    BY <1>2 DEF Aside
  <2>4. Arrived(s)' <= OutSent(s)'
    BY <1>b, <2>1
  <2> QED
    BY <1>0, <2>2, <2>3, <2>4 DEF PageOf
<1>3. ASSUME NEW c \in Conn, Serves(c, s) PROVE PageOf(s)'
  <2>1. shown'[s] = shown[s] /\ toBrowser'[s] = toBrowser[s] /\ ws'[s] = ws[s]
    BY <1>3 DEF Serves
  <2>2. Arrived(s)' = Arrived(s)
    BY <2>1 DEF Arrived
  <2>3. /\ home[s] = c /\ held'[c].data \in 1..OutSent(s)
        /\ ws[s] = "open" => held'[c].data = Arrived(s) + 1
    BY <1>0, <1>3, ServesNext DEF Serves
  <2>4. HeldOf(c, s)'
    BY <1>0, <2>1, <2>2, <2>3, ConnNone DEF HeldOf
  <2>5. ASSUME NEW k \in Conn, k # c PROVE ~Holding(k, s)'
    BY <1>1, <1>3, <2>3, <2>5 DEF Serves, HeldElsewhere
  <2>6. Arrived(s)' <= OutSent(s)'
    BY <1>b, <2>2
  <2> QED
    BY <1>0, <2>1, <2>4, <2>5, <2>6 DEF PageOf, HeldOf
<1>4. ASSUME NEW c \in Conn, Writes(c, s) PROVE PageOf(s)'
  <2>1. home[s] = c /\ held[c].data <= OutSent(s)
        /\ (ws[s] = "open" => held[c].data = Arrived(s) + 1)
    BY <1>0, <1>4 DEF Writes, PageOf, HeldOf
  <2>2. \A k \in Conn : ~Holding(k, s)'
    BY <1>1, <1>4, <2>1 DEF Writes, HeldElsewhere
  <2>3. CASE ws[s] # "open"
    <3>1. shown'[s] = shown[s] /\ toBrowser'[s] = toBrowser[s]
      BY <1>4, <2>3 DEF Writes
    <3>2. Arrived(s)' = Arrived(s)
      BY <3>1 DEF Arrived
    <3>3. Arrived(s)' <= OutSent(s)'
      BY <1>b, <3>2
    <3> QED
      BY <1>0, <2>2, <3>1, <3>3 DEF PageOf, HeldOf
  <2>4. CASE ws[s] = "open"
    <3>0. \A i \in 1..Len(b) : b[i] = Len(a) + i
      BY <1>0 DEF PageOf
    <3>1. x = a /\ y = Append(b, held[c].data) /\ held[c].data = Len(a) + Len(b) + 1
      BY <1>4, <1>c, <2>1, <2>4 DEF Writes
    <3> HIDE DEF a, b, x, y
    <3>2. /\ Len(y) = Len(b) + 1 /\ \A i \in 1..Len(b) : y[i] = b[i]
          /\ y[Len(b) + 1] = Len(a) + Len(b) + 1
      <4>1. held[c].data \in Nat
        BY <1>a, <3>1
      <4> QED
        BY <1>a, <3>1, <4>1, Appended
    <3>3. \A i \in 1..Len(y) : y[i] = Len(x) + i
      <4> TAKE i \in 1..Len(y)
      <4>1. i \in 1..Len(b) \/ i = Len(b) + 1
        BY <1>a, <3>2
      <4>2. CASE i = Len(b) + 1
        <5>1. y[i] = Len(a) + Len(b) + 1
          BY <3>2, <4>2
        <5> QED
          BY <1>a, <3>1, <4>2, <5>1
      <4>3. CASE i \in 1..Len(b)
        BY <3>0, <3>1, <3>2, <4>3
      <4> QED
        BY <4>1, <4>2, <4>3
    <3>4. Arrived(s)' <= OutSent(s)'
      <4>1. Arrived(s)' = Arrived(s) + 1
        BY <1>a, <1>c, <3>1, <3>2
      <4> QED
        BY <1>b, <2>1, <2>4, <4>1
    <3> USE DEF a, b, x, y
    <3> QED
      BY <1>0, <2>2, <3>1, <3>3, <3>4 DEF PageOf, HeldOf
  <2> QED
    BY <2>3, <2>4
<1>5. CASE Shows(s)
  <2> DEFINE n == Len(shown[s])
  <2>1. /\ toBrowser[s] # <<>> /\ toBrowser'[s] = Tail(toBrowser[s])
        /\ shown'[s] = Append(shown[s], Head(toBrowser[s])) /\ ws'[s] = ws[s]
    BY <1>5 DEF Shows
  <2>2. /\ Head(toBrowser[s]) = toBrowser[s][1] /\ 1 \in 1..Len(toBrowser[s])
        /\ Len(toBrowser'[s]) = Len(toBrowser[s]) - 1
        /\ \A i \in 1..Len(toBrowser'[s]) :
             i + 1 \in 1..Len(toBrowser[s]) /\ toBrowser'[s][i] = toBrowser[s][i + 1]
    BY <1>0, <2>1, HeadRest
  <2>3. shown'[s] = Append(shown[s], n + 1) /\ n + 1 \in Nat
    BY <1>0, <2>1, <2>2 DEF PageOf
  <2>4. /\ Len(shown'[s]) = n + 1 /\ \A i \in 1..n : shown'[s][i] = shown[s][i]
        /\ shown'[s][n + 1] = n + 1
    BY <1>0, <2>3, Appended
  <2>5. \A i \in 1..Len(shown'[s]) : shown'[s][i] = i
    <3> TAKE i \in 1..Len(shown'[s])
    <3>1. i \in 1..n \/ i = n + 1
      BY <1>0, <2>4
    <3> QED
      BY <1>0, <2>4, <3>1 DEF PageOf
  <2>6. \A i \in 1..Len(toBrowser'[s]) : toBrowser'[s][i] = Len(shown'[s]) + i
    BY <1>0, <2>2, <2>4 DEF PageOf
  <2>7. Arrived(s)' = Arrived(s)
    <3>1. Len(x) = Len(a) + 1 /\ Len(y) = Len(b) - 1
      BY <2>2, <2>4
    <3> HIDE DEF a, b, x, y
    <3> QED
      BY <1>a, <1>c, <3>1
  <2>8. \A c \in Conn : HeldOf(c, s)'
    <3> SUFFICES ASSUME NEW c \in Conn, Holding(c, s)'
                 PROVE  /\ home'[s] = c /\ held'[c].data <= OutSent(s)'
                        /\ ws'[s] = "open" => held'[c].data = Arrived(s)' + 1
      BY DEF HeldOf
    <3>1. Holding(c, s) /\ held'[c] = held[c]
      BY <1>5, ConnNone DEF Shows, HeldElsewhere
    <3> QED
      BY <1>0, <1>1, <2>1, <2>7, <3>1 DEF PageOf, HeldOf
  <2>9. Arrived(s)' <= OutSent(s)'
    BY <1>b, <2>7
  <2> QED
    BY <2>5, <2>6, <2>8, <2>9 DEF PageOf
<1>6. CASE Leaves(s)
  <2>1. ws'[s] = "gone" /\ toBrowser'[s] = <<>> /\ shown'[s] = shown[s] /\ Len(toBrowser'[s]) = 0
    BY <1>6 DEF Leaves
  <2>2. Arrived(s)' <= OutSent(s)'
    <3>1. Len(x) = Len(a) /\ Len(y) = 0
      BY <2>1
    <3> HIDE DEF a, b, x, y
    <3> QED
      BY <1>a, <1>b, <1>c, <3>1
  <2>3. \A c \in Conn : HeldOf(c, s)'
    <3> SUFFICES ASSUME NEW c \in Conn, Holding(c, s)'
                 PROVE  home'[s] = c /\ held'[c].data <= OutSent(s)'
      BY <2>1 DEF HeldOf
    <3>1. Holding(c, s) /\ held'[c] = held[c]
      BY <1>6, ConnNone DEF Leaves, HeldElsewhere
    <3> QED
      BY <1>0, <1>1, <3>1 DEF PageOf, HeldOf
  <2> QED
    BY <1>0, <2>1, <2>2, <2>3 DEF PageOf
<1> QED
  BY <1>2, <1>3, <1>4, <1>5, <1>6, PageSteps

(* The next chunk is on its way to the broker, or lost with the link.      *)
LEMMA SendsOutput ==
    ASSUME CloudTypes, ShellInv, NEW s \in Session, SendOutput(s)
    PROVE  /\ home[s] \in Conn /\ Output(s, printed[s]) \in AgentFrame
           /\ \/ toBroker'[home[s]] = toBroker[home[s]] /\ link[home[s]] # "up"
              \/ toBroker'[home[s]] = Append(toBroker[home[s]], Output(s, printed[s]))
<1>1. printed[s] \in Chunk /\ home[s] \in Conn
  BY ChunkNat DEF SendOutput, ShellInv, Chunk, Alive, CloudTypes, AgentTypeOK
<1>2. \/ toBroker' = toBroker /\ link[home[s]] # "up"
      \/ toBroker' = [toBroker EXCEPT ![home[s]] = Append(@, Output(s, printed[s]))]
  BY DEF SendOutput, WriteOK, WriteErr
<1>3. Output(s, printed[s]) \in AgentFrame
  BY <1>1, AgentFrameTypes
<1> QED
  BY <1>1, <1>2, <1>3 DEF CloudTypes, TInv, WireTypeOK

(* An "out" frame about s is sent by SendOutput(s).                        *)
LEMMA SaysOutput ==
    ASSUME NEW c \in Conn, NEW f, Says(c, f), NEW s \in Session, Is(f, "out", s)
    PROVE  SendOutput(s) /\ f = Output(s, printed[s]) /\ home[s] = c
BY DEF Says, Is, Register, Close, Output

(* A terminal is published before it has a shell.                          *)
LEMMA SessionSteps ==
    ASSUME CloudTypes, LiveInv, ShellInv, [Next]_vars, NEW s \in Session, sessions'[s] # None
    PROVE  sessions[s] # None \/ (Publish(s) /\ home[s] = None)
<1> USE DEF CloudTypes, TInv, BrokerTypeOK
<1>1. ASSUME NEW c \in Conn, Connect(c) \/ NetworkStep(c) \/ BrokerStep(c) PROVE sessions[s] # None
  <2>1. CASE ServeClose(c)
    BY <2>1 DEF ServeClose
  <2>2. CASE Setup
    BY <2>2 DEF Setup
  <2> QED
    BY <1>1, <2>1, <2>2, SetupSteps DEF BrokerStep, AgentWS, SetsUp, ServeOutput, WriteBrowser, HangUp,
       tables
<1>2. ASSUME NEW t \in Session, TerminalStep(t)
      PROVE  sessions[s] # None \/ (Publish(s) /\ home[s] = None)
  <2>1. CASE Publish(t)
    <3>1. home[t] = None
      BY <2>1 DEF Publish, ShellInv, Past
    <3>2. sessions' = [sessions EXCEPT ![t] = cac[t]]
      BY <2>1 DEF Publish
    <3> QED
      BY <2>1, <3>1, <3>2
  <2>2. CASE CloseSession(t)
    BY <2>2 DEF CloseSession
  <2> QED
    BY <1>2, <2>1, <2>2 DEF TerminalStep, ConnectWS, Lookup, UpgradeFails, SendOpen, ReadBrowser,
       ReadBrowserErr, SendInput, SendClose, CloseBrowser, tables
<1>3. ASSUME NEW c \in Conn, AgentStep(c) PROVE UNCHANGED sessions
  BY <1>3 DEF AgentStep, brokerVars, tables
<1>4. ASSUME NEW t \in Session, UserStep(t) \/ ShowStep(t) \/ ShellStep(t) \/ ReaderStep(t)
      PROVE  UNCHANGED sessions
  BY <1>4 DEF UserStep, ShowStep, ShellStep, ReaderStep, Unauthorized, Authorized, BrowserType,
     BrowserShow, BrowserLeave, brokerVars, tables
<1>5. CASE UNCHANGED vars
  BY <1>5 DEF vars, brokerVars, tables
<1> QED
  BY <1>1, <1>2, <1>3, <1>4, <1>5 DEF Next, Quiescent

(* What is delivered to an open terminal goes up with what the loop takes. *)
LEMMA DeliveredSteps ==
    ASSUME CloudTypes, LiveInv, ShellInv, OpenInv, PageInv, OutputInv, [Next]_vars, NEW s \in Session,
           home[s] # None, ws'[s] = "open"
    PROVE  /\ ws[s] = "open" /\ Delivered(s) \in Nat
           /\ \/ Delivered(s)' = Delivered(s) /\ \A c \in Conn : ~Serves(c, s)
              \/ Serves(home[s], s) /\ Delivered(s)' = Delivered(s) + 1
<1> DEFINE Goal == /\ ws[s] = "open" /\ Delivered(s) \in Nat
                   /\ \/ Delivered(s)' = Delivered(s) /\ \A c \in Conn : ~Serves(c, s)
                      \/ Serves(home[s], s) /\ Delivered(s)' = Delivered(s) + 1
<1> HIDE DEF Goal
<1> SUFFICES Goal
  BY DEF Goal
<1> DEFINE a == shown[s]
           b == toBrowser[s]
           x == shown'[s]
           y == toBrowser'[s]
<1>a. home[s] \in Conn
  BY DEF CloudTypes, AgentTypeOK
<1>0. PICK h \in Conn :
      /\ OutSent(s) \in Nat /\ home[s] = h /\ home'[s] = h
      /\ \A c \in Conn : Holding(c, s) => c = h /\ (ws[s] = "open" => held[c].data = Arrived(s) + 1)
  BY <1>a, OutSteps, HomeStays DEF PageInv
<1>1. a \in Seq(Chunk) /\ b \in Seq(Chunk) /\ Len(a) \in Nat /\ Len(b) \in Nat
  BY DEF CloudTypes, TInv, BrokerTypeOK
<1>2. Arrived(s) = Len(a) + Len(b) /\ Arrived(s)' = Len(x) + Len(y)
  BY DEF Arrived
<1>3. Arrived(s) \in Nat
  <2> HIDE DEF a, b
  <2> QED
    BY <1>1, <1>2
<1>4. Delivered(s) = Arrived(s) + (IF Holding(h, s) THEN 1 ELSE 0)
  BY <1>0 DEF Delivered
<1>5. Delivered(s)' = Arrived(s)' + (IF Holding(h, s)' THEN 1 ELSE 0)
  BY <1>0 DEF Delivered, Holding
<1>6. Delivered(s) \in Nat
  BY <1>3, <1>4
<1>7. \A c \in Conn : Serves(c, s) => c = h /\ ~Holding(c, s) /\ Holding(c, s)' /\ x = a /\ y = b
  BY <1>0, ServesNext DEF Serves
<1>8. CASE Aside(s)
  <2>1. ws[s] = "open"
    BY <1>8 DEF Aside
  <2>2. x = a /\ y = b /\ (Holding(h, s)' <=> Holding(h, s))
    BY <1>0, <1>8, ConnNone DEF Aside, HeldElsewhere
  <2>3. \A c \in Conn : ~Serves(c, s)
    BY <1>7, <2>2
  <2>4. Delivered(s)' = Delivered(s)
    <3>1. Arrived(s)' = Arrived(s)
      BY <1>2, <2>2
    <3> QED
      BY <1>4, <1>5, <2>2, <3>1
  <2> QED
    BY <1>6, <2>1, <2>3, <2>4 DEF Goal
<1>9. ASSUME NEW c \in Conn, Serves(c, s) PROVE Goal
  <2>1. ws[s] = "open" /\ c = h
    BY <1>7, <1>9 DEF Serves
  <2>2. Arrived(s)' = Arrived(s)
    BY <1>2, <1>7, <1>9
  <2>3. Delivered(s)' = Delivered(s) + 1
    <3>1. ~Holding(h, s) /\ Holding(h, s)'
      BY <1>7, <1>9, <2>1
    <3> QED
      BY <1>3, <1>4, <1>5, <2>2, <3>1
  <2> QED
    BY <1>0, <1>6, <1>9, <2>1, <2>3 DEF Goal
<1>10. ASSUME NEW c \in Conn, Writes(c, s) PROVE Goal
  <2>1. ws[s] = "open" /\ c = h /\ Holding(h, s) /\ ~Holding(h, s)'
    BY <1>0, <1>10 DEF Writes
  <2>2. x = a /\ y = Append(b, held[c].data) /\ held[c].data = Arrived(s) + 1
    BY <1>0, <1>10, <2>1 DEF Writes
  <2>3. \A k \in Conn : ~Serves(k, s)
    BY <1>7, <2>1
  <2>4. Delivered(s)' = Delivered(s)
    <3>1. Holding(c, s)
      BY <2>1
    <3>2. held[c].data \in Chunk
      BY <3>1 DEF Holding, CloudTypes, TInv, Phases
    <3> HIDE DEF a, b, x, y
    <3>3. Len(y) = Len(b) + 1
      BY <1>1, <2>2, <3>2, Appended
    <3>4. Arrived(s)' = Arrived(s) + 1
      BY <1>1, <1>2, <2>2, <3>3
    <3> QED
      BY <1>3, <1>4, <1>5, <2>1, <3>4
  <2> QED
    BY <1>6, <2>1, <2>3, <2>4 DEF Goal
<1>11. CASE Shows(s)
  <2>1. /\ b # <<>> /\ y = Tail(b) /\ x = Append(a, Head(b)) /\ ws'[s] = ws[s]
        /\ Holding(h, s)' <=> Holding(h, s)
    BY <1>0, <1>11, ConnNone DEF Shows, HeldElsewhere
  <2>2. \A k \in Conn : ~Serves(k, s)
    BY <1>7, <2>1
  <2>3. Arrived(s)' = Arrived(s)
    <3> HIDE DEF a, b, x, y
    <3>1. Head(b) \in Chunk /\ Len(y) = Len(b) - 1
      BY <1>1, <2>1, HeadRest
    <3>2. Len(x) = Len(a) + 1
      BY <1>1, <2>1, <3>1, Appended
    <3> QED
      BY <1>1, <1>2, <3>1, <3>2
  <2>4. Delivered(s)' = Delivered(s)
    BY <1>4, <1>5, <2>1, <2>3
  <2> QED
    BY <1>6, <2>1, <2>2, <2>4 DEF Goal
<1>12. CASE Leaves(s)
  BY <1>12 DEF Leaves
<1> QED
  BY <1>8, <1>9, <1>10, <1>11, <1>12, PageSteps

(* No more is delivered than was sent.                                     *)
LEMMA DeliveredBound ==
    ASSUME CloudTypes, PageInv, NEW s \in Session, home[s] \in Conn, ws[s] = "open", OutSent(s) \in Nat
    PROVE  Delivered(s) <= OutSent(s)
<1> DEFINE a == shown[s]
           b == toBrowser[s]
<1>1. Arrived(s) <= OutSent(s) /\ Arrived(s) = Len(a) + Len(b)
  BY DEF PageInv, Arrived
<1>2. Len(a) \in Nat /\ Len(b) \in Nat
  BY DEF CloudTypes, TInv, BrokerTypeOK
<1> HIDE DEF a, b
<1>3. Arrived(s) \in Nat
  BY <1>1, <1>2
<1>4. Holding(home[s], s) => Arrived(s) + 1 <= OutSent(s)
  BY DEF PageInv
<1> QED
  BY <1>1, <1>3, <1>4 DEF Delivered

LEMMA KeepsOutput ==
    ASSUME CloudTypes, LiveInv, RunInv, ShellInv, OpenInv, PageInv, OutputInv, [Next]_vars
    PROVE  OutputInv'
<1> SUFFICES ASSUME NEW s \in Session PROVE OutputOf(s)'
  BY DEF OutputInv, OutputOf
<1>0. /\ OutputOf(s) /\ OutSent(s) \in Nat /\ OutSent(s)' \in Nat /\ OutSent(s) <= OutSent(s)'
      /\ home[s] # None => home'[s] = home[s]
      /\ \A c \in Conn : toBroker[c] \in Seq(AgentFrame)
  BY OutSteps, HomeStays DEF OutputInv, OutputOf, CloudTypes, TInv, WireTypeOK
<1>a. /\ ~SendOutput(s) => OutSent(s)' = OutSent(s)
      /\ SendOutput(s) => OutSent(s)' = OutSent(s) + 1 /\ printed[s] = OutSent(s) + 1
  BY OutSteps
<1>1. ASSUME NEW c \in Conn
      PROVE  /\ \A i \in 1..Len(toBroker'[c]) : Is(toBroker'[c][i], "out", s) => home'[s] = c
             /\ Rising(toBroker'[c], "out", s, OutSent(s)')
  <2> DEFINE q == toBroker[c]
             r == toBroker'[c]
  <2>0. /\ Rising(q, "out", s, OutSent(s)) /\ q \in Seq(AgentFrame)
        /\ \A i \in 1..Len(q) : Is(q[i], "out", s) => home[s] = c /\ home'[s] = c
    BY <1>0, ConnNone DEF OutputOf
  <2>1. CASE r = q
    BY <1>0, <2>0, <2>1, RisingUp
  <2>2. ASSUME NEW f \in AgentFrame, r = Append(q, f), Says(c, f)
        PROVE  /\ \A i \in 1..Len(r) : Is(r[i], "out", s) => home'[s] = c
               /\ Rising(r, "out", s, OutSent(s)')
    <3> HIDE DEF q, r
    <3>0. \A i \in 1..Len(r) : (i \in 1..Len(q) /\ r[i] = q[i]) \/ r[i] = f
      BY <2>0, <2>2, Appended
    <3>1. CASE Is(f, "out", s)
      <4>1. SendOutput(s) /\ f.data = printed[s] /\ home[s] = c
        BY <2>2, <3>1, SaysOutput DEF Output
      <4>2. f.data = OutSent(s) + 1 /\ OutSent(s)' = OutSent(s) + 1
        BY <1>a, <4>1
      <4>3. Rising(r, "out", s, OutSent(s) + 1)
        BY <1>0, <2>0, <2>2, <3>1, <4>2, NextSent
      <4> QED
        BY <1>0, <2>0, <3>0, <4>1, <4>2, <4>3, ConnNone
    <3>2. CASE ~Is(f, "out", s)
      <4>1. Rising(r, "out", s, OutSent(s))
        BY <1>0, <2>0, <2>2, <3>2, OtherSent
      <4>2. Rising(r, "out", s, OutSent(s)')
        BY <1>0, <4>1, RisingUp
      <4> QED
        BY <2>0, <3>0, <3>2, <4>2
    <3> QED
      BY <3>1, <3>2
  <2>3. CASE Reads(c)
    <3>1. q # <<>> /\ r = Tail(q)
      BY <2>3 DEF Reads
    <3> HIDE DEF q, r
    <3>2. Rising(r, "out", s, OutSent(s))
      BY <1>0, <2>0, <3>1, OtherTaken
    <3>3. Rising(r, "out", s, OutSent(s)')
      BY <1>0, <3>2, RisingUp
    <3>4. \A i \in 1..Len(r) : i + 1 \in 1..Len(q) /\ r[i] = q[i + 1]
      BY <2>0, <3>1, HeadRest
    <3> QED
      BY <2>0, <3>3, <3>4 DEF q, r
  <2> QED
    BY <2>1, <2>2, <2>3, ToBrokerSteps
<1>2. ASSUME home'[s] # None, ws'[s] = "open", sessions'[s] # None
      PROVE  /\ Follows(toBroker'[home'[s]], "out", s, Delivered(s)')
             /\ link'[home'[s]] = "up" =>
                  Reaches(toBroker'[home'[s]], "out", s, Delivered(s)', OutSent(s)')
  <2>1. CASE home[s] = None
    <3>1. CloudTypes' /\ home'[s] \in Conn
      BY <1>2, TypeSteps DEF CloudTypes, AgentTypeOK
    <3>2. OutSent(s)' = 0
      BY <1>a, <2>1 DEF ShellInv, OutSent, SendOutput, Alive
    <3>3. Rising(toBroker'[home'[s]], "out", s, 0)
      BY <1>1, <3>1, <3>2
    <3>4. Follows(toBroker'[home'[s]], "out", s, 0)
      BY <3>3 DEF Rising, Follows
    <3>5. Delivered(s)' = 0
      <4>1. PageInv'
        BY KeepsPage
      <4> DEFINE x == shown'[s]
                 y == toBrowser'[s]
      <4>2. Arrived(s)' = Len(x) + Len(y) /\ Arrived(s)' <= 0
        BY <3>2, <4>1 DEF PageInv, Arrived
      <4>3. Len(x) \in Nat /\ Len(y) \in Nat
        BY <3>1 DEF CloudTypes, TInv, BrokerTypeOK
      <4>4. Arrived(s)' = 0
        <5> HIDE DEF x, y
        <5> QED
          BY <4>2, <4>3
      <4>5. ASSUME NEW k \in Conn, Holding(k, s)' PROVE FALSE
        <5>1. held'[k].data <= 0
          BY <3>2, <4>1, <4>5 DEF PageInv
        <5>2. held'[k].data \in Chunk
          BY <3>1, <4>5 DEF Holding, CloudTypes, TInv, Phases
        <5> QED
          BY <5>1, <5>2, ChunkNat DEF Chunk
      <4> QED
        BY <3>1, <4>4, <4>5 DEF Delivered, Holding
    <3> QED
      BY <3>2, <3>4, <3>5 DEF Reaches
  <2>2. CASE home[s] # None
    <3>0. PICK c \in Conn : home[s] = c /\ home'[s] = c /\ cac[s] = c
      BY <1>0, <2>2 DEF ShellInv, CloudTypes, AgentTypeOK
    <3> DEFINE q == toBroker[c]
               r == toBroker'[c]
               g == Delivered(s)
    <3>1. /\ ws[s] = "open" /\ g \in Nat
          /\ \/ Delivered(s)' = g /\ \A k \in Conn : ~Serves(k, s)
             \/ Serves(c, s) /\ Delivered(s)' = g + 1
      BY <1>2, <2>2, <3>0, DeliveredSteps
    <3>2. sessions[s] # None
      BY <1>2, <2>2, SessionSteps
    <3>3. q \in Seq(AgentFrame) /\ Rising(q, "out", s, OutSent(s))
      BY <1>0 DEF OutputOf
    <3>4. Follows(q, "out", s, g)
      BY <1>0, <2>2, <3>0, <3>1, <3>2 DEF OutputOf
    <3>5. link[c] = "up" => Reaches(q, "out", s, g, OutSent(s))
      BY <1>0, <2>2, <3>0, <3>1, <3>2 DEF OutputOf
    <3>6. link'[c] = "up" => link[c] = "up"
      BY <3>0, StaysDown, ConnNone
    <3>7. g <= OutSent(s)
      BY <1>0, <2>2, <3>0, <3>1, DeliveredBound
    <3> SUFFICES /\ Follows(r, "out", s, Delivered(s)')
                 /\ link[c] = "up" => Reaches(r, "out", s, Delivered(s)', OutSent(s)')
      BY <3>0, <3>6
    <3>8. SendOutput(s) => /\ Output(s, printed[s]) \in AgentFrame
                           /\ \/ r = q /\ link[c] # "up"
                              \/ r = Append(q, Output(s, printed[s]))
      BY <3>0, SendsOutput
    <3>9. Serves(c, s) => q # <<>> /\ r = Tail(q) /\ Is(Head(q), "out", s)
      BY DEF Serves
    <3> HIDE DEF q, r, g
    <3>10. CASE r = q
      <4>1. Delivered(s)' = g
        BY <3>1, <3>3, <3>9, <3>10, OneFrame, <1>0
      <4>2. link[c] = "up" => OutSent(s)' = OutSent(s)
        BY <1>a, <3>3, <3>8, <3>10, OneFrame
      <4> QED
        BY <3>4, <3>5, <3>10, <4>1, <4>2
    <3>11. ASSUME NEW f \in AgentFrame, r = Append(q, f), Says(c, f)
           PROVE  /\ Follows(r, "out", s, Delivered(s)')
                  /\ link[c] = "up" => Reaches(r, "out", s, Delivered(s)', OutSent(s)')
      <4>1. Delivered(s)' = g
        BY <3>1, <3>3, <3>9, <3>11, OneFrame
      <4>2. CASE Is(f, "out", s)
        <5>1. SendOutput(s) /\ f.data = printed[s]
          BY <3>11, <4>2, SaysOutput DEF Output
        <5>2. f.data = OutSent(s) + 1 /\ OutSent(s)' = OutSent(s) + 1
          BY <1>a, <5>1
        <5>3. link[c] = "up"
          <6>1. WriteOK(c, Output(s, printed[s])) \/ WriteErr(c)
            BY <3>0, <5>1 DEF SendOutput
          <6>2. r # q
            BY <3>3, <3>11, OneFrame
          <6> QED
            BY <6>1, <6>2 DEF WriteOK, WriteErr, q, r
        <5>4. /\ Follows(Append(q, f), "out", s, g)
              /\ Reaches(Append(q, f), "out", s, g, OutSent(s) + 1)
          BY <1>0, <3>1, <3>3, <3>4, <3>5, <3>7, <4>2, <5>2, <5>3, NextSent
        <5> QED
          BY <3>11, <4>1, <5>2, <5>4
      <4>3. CASE ~Is(f, "out", s)
        <5>1. ~SendOutput(s)
          BY <3>3, <3>8, <3>11, <4>3, OneFrame DEF Is, Output
        <5>2. OutSent(s)' = OutSent(s)
          BY <1>a, <5>1
        <5> QED
          BY <1>0, <3>1, <3>3, <3>4, <3>5, <3>11, <4>1, <4>3, <5>2, OtherSent
      <4> QED
        BY <4>2, <4>3
    <3>12. CASE Reads(c)
      <4>0. q # <<>> /\ r = Tail(q)
        BY <3>12 DEF Reads, q, r
      <4>1. OutSent(s)' = OutSent(s)
        BY <1>a, <3>3, <3>8, <4>0, OneFrame
      <4>2. CASE Is(Head(q), "out", s)
        <5>1. apc[c] \notin Pre
          BY <3>0, ConnNone DEF LiveInv
        <5>2. ServeOutput(c) /\ UNCHANGED shown
          BY <3>12, <4>2, <5>1 DEF Reads, Is, q
        <5>3. Serves(c, s)
          BY <3>2, <4>2, <5>2, ServesOutput DEF q
        <5>4. Delivered(s)' = g + 1
          BY <3>1, <5>3
        <5>5. /\ Follows(Tail(q), "out", s, g + 1)
              /\ Reaches(q, "out", s, g, OutSent(s)) => Reaches(Tail(q), "out", s, g + 1, OutSent(s))
          BY <1>0, <3>1, <3>3, <3>4, <4>0, <4>2, NextTaken
        <5> QED
          BY <3>5, <4>0, <4>1, <5>4, <5>5
      <4>3. CASE ~Is(Head(q), "out", s)
        <5>1. Delivered(s)' = g
          BY <3>1, <3>9, <4>3
        <5> QED
          BY <1>0, <3>1, <3>3, <3>4, <3>5, <4>0, <4>1, <4>3, <5>1, OtherTaken
      <4> QED
        BY <4>2, <4>3
    <3> QED
      BY <3>10, <3>11, <3>12, ToBrokerSteps DEF q, r
  <2> QED
    BY <2>1, <2>2
<1> QED
  BY <1>1, <1>2 DEF OutputOf
-----------------------------------------------------------------------------
(***************************************************************************)
(* LeakInv and TerminalHasShell.                                           *)
(***************************************************************************)
Ending == {"end", "close", "done"}

(* How a terminal that has sent Open ends, and how one comes to its loop.  *)
LEMMA TermEnds ==
    ASSUME CloudTypes, [Next]_vars, NEW s \in Session
    PROVE  /\ Past(s) /\ cpc[s] \notin Ending /\ cpc'[s] \in Ending => SendClose(s)
           /\ cpc[s] \notin {"read", "input"} /\ cpc'[s] \in {"read", "input"} => SendOpen(s)
<1> DEFINE Goal == /\ Past(s) /\ cpc[s] \notin Ending /\ cpc'[s] \in Ending => SendClose(s)
                   /\ cpc[s] \notin {"read", "input"} /\ cpc'[s] \in {"read", "input"} => SendOpen(s)
<1> HIDE DEF Goal
<1> SUFFICES Goal
  BY DEF Goal
<1>a. CASE cpc'[s] = cpc[s]
  BY <1>a DEF Goal
<1>1. ASSUME NEW c \in Conn, Connect(c) \/ BrokerStep(c) \/ AgentStep(c) \/ NetworkStep(c)
      PROVE  UNCHANGED cpc
  <2>1. CASE BrokerStep(c)
    BY <2>1 DEF BrokerStep, AgentWS, ReadRegister, ReadRegisterFails, CheckAgentToken, Deny, Attach,
                RegAdd, SendRegistered, ServeOutput, WriteBrowser, ServeClose, HangUp, ServeIgnored,
                ServeErr, Detach, RegRemove, termSide
  <2> QED
    BY <1>1, <2>1 DEF Connect, Accept, AgentStep, NetworkStep, brokerVars, termSide
<1>2. ASSUME NEW t \in Session, ShowStep(t) \/ ShellStep(t) \/ ReaderStep(t) PROVE UNCHANGED cpc
  BY <1>2 DEF ShowStep, BrowserShow, ShellStep, ReaderStep, brokerVars, termSide
<1>3. ASSUME NEW t \in Session, t # s, TerminalStep(t) \/ UserStep(t) PROVE cpc'[s] = cpc[s]
  BY <1>3, TermSteps DEF TermGoes
<1>4. CASE TerminalStep(s)
  <2> USE DEF CloudTypes, TInv, BrokerTypeOK, GoTerm, Ending
  <2>1. CASE SendOpen(s)
    <3>1. cpc[s] = "open"
      BY <2>1 DEF SendOpen
    <3> QED
      BY <2>1, <3>1 DEF Goal, Past
  <2>2. CASE SendClose(s)
    <3>1. cpc[s] = "bye" /\ cpc'[s] = "end"
      BY <2>2 DEF SendClose
    <3> QED
      BY <2>2, <3>1 DEF Goal
  <2>3. CASE Lookup(s) \/ UpgradeFails(s) \/ Publish(s)
    BY <2>3 DEF Lookup, UpgradeFails, Publish, Past, Goal
  <2>4. CASE ReadBrowser(s) \/ ReadBrowserErr(s)
    BY <2>4 DEF ReadBrowser, ReadBrowserErr, Goal
  <2>5. CASE SendInput(s)
    <3>1. cpc[s] = "input" /\ cpc'[s] \in {"read", "bye"}
      BY <2>5 DEF SendInput
    <3> QED
      BY <3>1 DEF Goal
  <2>6. CASE CloseSession(s) \/ CloseBrowser(s)
    BY <2>6 DEF CloseSession, CloseBrowser, Goal
  <2> QED
    BY <1>4, <2>1, <2>2, <2>3, <2>4, <2>5, <2>6 DEF TerminalStep, ConnectWS
<1>5. CASE UserStep(s)
  <2> USE DEF CloudTypes, TInv, BrokerTypeOK, GoTerm, Ending
  <2>1. CASE Unauthorized(s) \/ \E d \in Device : Authorized(s, d)
    BY <2>1 DEF Unauthorized, Authorized, Past, Goal
  <2>2. CASE BrowserType(s) \/ BrowserLeave(s)
    BY <1>a, <2>2 DEF BrowserType, BrowserLeave, termSide
  <2> QED
    BY <1>5, <2>1, <2>2 DEF UserStep
<1>6. CASE UNCHANGED vars
  BY <1>a, <1>6 DEF vars, brokerVars, termSide
<1> QED
  BY <1>a, <1>1, <1>2, <1>3, <1>4, <1>5, <1>6 DEF Next, Quiescent

(* Run reads Close(s) in its loop and removes the shell.                   *)
LEMMA TakesClose ==
    ASSUME CloudTypes, RunInv, OpenInv, NEW s \in Session, NEW c \in Conn, Takes(c),
           Head(toAgent[c]) = Close(s), Hears(s), cac[s] = c
    PROVE  s \notin shells'[c] /\ ~InFlight(toAgent'[c], Open(s))
<1> DEFINE q == toAgent[c]
<1>1. /\ q \in Seq(BrokerFrame) /\ q # <<>> /\ toAgent'[c] = Tail(q) /\ Readable(q)
      /\ Received(c) = Close(s)
  BY DEF Takes, Readable, Received, CloudTypes, TInv, WireTypeOK
<1>2. Close(s) # Open(s) /\ Close(s).type = "close" /\ Close(s).sess = s
  BY DEF Open, Close
<1>3. ~InFlight(q, Open(s))
  BY <1>1, <1>2, HeadIsFirst, OpenIsAbout
<1>4. s \in shells[c]
  BY <1>3 DEF Hears
<1>5. rpc[c] # "await"
  BY <1>4 DEF RunInv
<1>6. RunClose(c)
  BY <1>1, <1>2, <1>5 DEF Takes, AwaitReply, OpenShell, ShellInput
<1>7. shells' = [shells EXCEPT ![c] = @ \ {s}]
  BY <1>1, <1>2, <1>6 DEF RunClose
<1>8. s \notin shells'[c]
  BY <1>7 DEF CloudTypes, AgentTypeOK
<1> QED
  BY <1>1, <1>3, <1>8, Landing

LEMMA ExitCuts == \A c \in Conn : CloudTypes /\ Exit(c) => link'[c] # "up"
BY DEF CloudTypes, TInv, WireTypeOK, Exit

LEMMA KeepsLeak ==
    ASSUME CloudTypes, LiveInv, RunInv, ShellInv, OpenInv, LeakInv, [Next]_vars
    PROVE  LeakInv'
<1> SUFFICES ASSUME NEW s \in Session, Hears(s)', link'[cac'[s]] = "up", cpc'[s] \in Ending
             PROVE  InFlight(toAgent'[cac'[s]], Close(s))
  BY DEF LeakInv, Ending
<1>1. CASE ~Hears(s)
  <2>1. SendOpen(s) /\ cac[s] \in Conn
    BY <1>1, HearsSteps DEF SendOpen, Bridged, CloudTypes, TInv, Phases
  <2>2. cac'[s] = cac[s] /\ link' = link
    BY <2>1 DEF SendOpen
  <2>3. link[cac[s]] # "up"
    BY <2>1 DEF SendOpen, SendErr, GoTerm, Ending, CloudTypes, TInv, BrokerTypeOK
  <2> QED
    BY <2>2, <2>3
<1>2. CASE Hears(s)
  <2>1. PICK c \in Conn : cac[s] = c /\ cac'[s] = c /\ link[c] = "up" /\ link'[c] = "up"
    BY <1>2, StaysPast, StaysDown DEF Hears, Past, CloudTypes, TInv, BrokerTypeOK
  <2> DEFINE q == toAgent[c]
  <2>2. q \in Seq(BrokerFrame) /\ Past(s)
    BY <1>2 DEF CloudTypes, TInv, WireTypeOK, Hears
  <2>3. CASE cpc[s] \in Ending
    <3>1. InFlight(q, Close(s))
      BY <1>2, <2>1, <2>3 DEF LeakInv, Ending
    <3>2. ASSUME NEW f \in BrokerFrame, toAgent'[c] = Append(q, f)
          PROVE  InFlight(toAgent'[c], Close(s))
      BY <2>2, <3>1, <3>2, Flying
    <3>3. CASE Takes(c)
      <4>1. q # <<>> /\ toAgent'[c] = Tail(q)
        BY <3>3 DEF Takes, Readable
      <4>2. InFlight(Tail(q), Close(s)) \/ Head(q) = Close(s)
        BY <2>2, <3>1, <4>1, Landing
      <4>3. Head(q) # Close(s)
        BY <1>2, <2>1, <3>3, TakesClose DEF Hears
      <4> QED
        BY <2>1, <4>1, <4>2, <4>3
    <3> QED
      BY <2>1, <3>1, <3>2, <3>3, ToAgentSteps, ExitCuts
  <2>4. CASE cpc[s] \notin Ending
    <3>1. SendClose(s)
      BY <2>2, <2>4, TermEnds
    <3>2. toAgent' = [toAgent EXCEPT ![c] = Append(@, Close(s))]
      BY <2>1, <3>1 DEF SendClose, SendOK, SendErr
    <3>3. toAgent'[c] = Append(q, Close(s))
      BY <3>2 DEF CloudTypes, TInv, WireTypeOK
    <3> QED
      BY <2>1, <2>2, <3>3, Flying, FrameTypes
  <2> QED
    BY <2>3, <2>4
<1> QED
  BY <1>1, <1>2

(***************************************************************************)
(* Who still has to do something about a terminal's shell, and what that   *)
(* leaves when it is done.                                                 *)
(***************************************************************************)
LEMMA ShellGoes ==
    ASSUME CloudTypes, ShellInv, OpenInv, [Next]_vars, NEW s \in Session, NEW c \in Conn, s \in shells[c],
           home[s] = c
    PROVE  s \in shells'[c] \/ cur'[c] = s \/ rd'[s] = "kill" \/ ReadFails(c)
<1> DEFINE Goal == s \in shells'[c] \/ cur'[c] = s \/ rd'[s] = "kill" \/ ReadFails(c)
<1> HIDE DEF Goal
<1> SUFFICES Goal
  BY DEF Goal
<1>1. CASE shells'[c] = shells[c]
  BY <1>1 DEF Goal
<1>2. ASSUME NEW k \in Conn, AgentStep(k) PROVE Goal
  <2> USE DEF CloudTypes, AgentTypeOK
  <2>1. CASE RunClose(k)
    <3> DEFINE t == Received(k).sess
    <3>1. /\ shells' = [shells EXCEPT ![k] = @ \ {t}]
          /\ t \in shells[k] => cur' = [cur EXCEPT ![k] = t]
      BY <2>1 DEF RunClose
    <3> HIDE DEF t
    <3>2. CASE k = c /\ t = s
      BY <3>1, <3>2 DEF Goal
    <3>3. CASE k # c \/ t # s
      BY <3>1, <3>3 DEF Goal
    <3> QED
      BY <3>2, <3>3
  <2>2. CASE RunErr(k)
    <3>1. shells' = [shells EXCEPT ![k] = {}] /\ ReadFails(k)
      BY <2>2 DEF RunErr
    <3> QED
      BY <3>1 DEF Goal
  <2>3. CASE OpenShell(k)
    <3>1. \E t : shells' = [shells EXCEPT ![k] = @ \cup {t}] \/ shells' = shells
      BY <2>3 DEF OpenShell
    <3> QED
      BY <3>1 DEF Goal
  <2> QED
    BY <1>1, <1>2, <2>1, <2>2, <2>3 DEF AgentStep, Run, WriteRegister, AwaitReply, ShellInput, RunKill,
       RunNotify, CloseAll, Exit
<1>3. ASSUME NEW t \in Session, ShellStep(t) \/ ReaderStep(t) PROVE Goal
  <2>1. CASE ReaderClose(t)
    <3>1. /\ shells' = [shells EXCEPT ![home[t]] = @ \ {t}]
          /\ rd' = [rd EXCEPT ![t] = IF t \in shells[home[t]] THEN "kill" ELSE "done"]
      BY <2>1 DEF ReaderClose, GoReader
    <3>2. CASE t = s
      BY <3>1, <3>2 DEF Goal, CloudTypes, AgentTypeOK
    <3>3. CASE t # s
      BY <3>1, <3>3 DEF Goal, CloudTypes, AgentTypeOK
    <3> QED
      BY <3>2, <3>3
  <2> QED
    BY <1>1, <1>3, <2>1 DEF ShellStep, ReaderStep, ReadShell, ShellExits, Reader, SendOutput,
       ReadShellErr, ReaderKill, ReaderNotify
<1> QED
  BY <1>1, <1>2, <1>3, AsideSteps DEF ShellsAside

LEMMA ReaderGoes ==
    ASSUME CloudTypes, ShellInv, OpenInv, [Next]_vars, NEW s \in Session, rd[s] \in {"kill", "notify"}
    PROVE  rd'[s] \in {"kill", "notify"} \/ ReaderNotify(s)
<1> DEFINE Goal == rd'[s] \in {"kill", "notify"} \/ ReaderNotify(s)
<1> HIDE DEF Goal
<1> SUFFICES Goal
  BY DEF Goal
<1>1. CASE rd'[s] = rd[s]
  BY <1>1 DEF Goal
<1>2. ASSUME NEW k \in Conn, AgentStep(k) PROVE Goal
  <2>1. CASE OpenShell(k)
    <3> DEFINE t == Received(k).sess
    <3>1. t \in Session /\ home[t] = None
      BY <2>1, OpensNew
    <3>2. rd[t] = "none"
      BY <3>1 DEF ShellInv
    <3>3. rd' = [rd EXCEPT ![t] = "read"] \/ rd' = rd
      BY <2>1 DEF OpenShell
    <3> HIDE DEF t
    <3> QED
      BY <1>1, <3>1, <3>2, <3>3 DEF CloudTypes, AgentTypeOK
  <2> QED
    BY <1>1, <1>2, <2>1 DEF AgentStep, Run, WriteRegister, AwaitReply, ShellInput, RunClose, RunKill,
       RunNotify, RunErr, CloseAll, Exit, shellVars
<1>3. ASSUME NEW t \in Session, ShellStep(t) \/ ReaderStep(t) PROVE Goal
  <2> USE DEF CloudTypes, AgentTypeOK, GoReader
  <2>1. CASE t # s
    <3>1. rd' = rd \/ \E to \in ReaderPC : rd' = [rd EXCEPT ![t] = to]
      BY <1>3 DEF ShellStep, ReaderStep, ReadShell, ShellExits, Reader, SendOutput, ReadShellErr,
                  ReaderClose, ReaderKill, ReaderNotify, ReaderPC
    <3> QED
      BY <1>1, <2>1, <3>1
  <2>2. CASE t = s
    <3>1. CASE ReaderKill(s)
      BY <3>1 DEF ReaderKill, Goal
    <3>2. CASE ReaderNotify(s)
      BY <3>2 DEF Goal
    <3>3. CASE ShellExits(s)
      BY <1>1, <3>3 DEF ShellExits
    <3> QED
      BY <1>3, <2>2, <3>1, <3>2, <3>3 DEF ShellStep, ReaderStep, Reader, ReadShell, SendOutput,
         ReadShellErr, ReaderClose
  <2> QED
    BY <2>1, <2>2
<1> QED
  BY <1>1, <1>2, <1>3, AsideSteps DEF ShellsAside, shellVars

LEMMA RunGoes ==
    ASSUME CloudTypes, RunInv, [Next]_vars, NEW c \in Conn, NEW s \in Session
    PROVE  /\ cur[c] = s => cur'[c] = s \/ RunNotify(c)
           /\ rpc[c] = "return" => rpc'[c] = "return" \/ Exit(c)
<1> DEFINE Goal == /\ cur[c] = s => cur'[c] = s \/ RunNotify(c)
                   /\ rpc[c] = "return" => rpc'[c] = "return" \/ Exit(c)
<1> HIDE DEF Goal
<1> SUFFICES Goal
  BY DEF Goal
<1>a. CASE cur'[c] = cur[c] /\ (rpc[c] = "return" => rpc'[c] = "return")
  BY <1>a DEF Goal
<1>b. rpc[c] \notin {"kill", "notify"} => cur[c] # s
  BY SessionNone DEF RunInv
<1>1. ASSUME NEW k \in Conn, k # c, AgentStep(k) PROVE cur'[c] = cur[c] /\ rpc'[c] = rpc[c]
  BY <1>1 DEF AgentStep, Run, WriteRegister, AwaitReply, OpenShell, ShellInput, RunClose, RunKill,
     RunNotify, RunErr, CloseAll, Exit, GoRun, runVars, CloudTypes, AgentTypeOK
<1>2. CASE AgentStep(c)
  <2> USE DEF GoRun, runVars, CloudTypes, AgentTypeOK
  <2>1. CASE RunNotify(c)
    BY <2>1 DEF RunNotify, Goal
  <2>2. CASE Exit(c)
    BY <1>b, <2>2 DEF Exit, Goal
  <2>3. CASE RunKill(c)
    BY <2>3 DEF RunKill, Goal
  <2>4. CASE ShellInput(c)
    BY <1>a, <2>4 DEF ShellInput
  <2>5. CASE OpenShell(c) \/ RunClose(c) \/ RunErr(c)
    <3>1. rpc[c] = "serve"
      BY <2>5 DEF OpenShell, RunClose, RunErr
    <3> QED
      BY <1>b, <3>1 DEF Goal
  <2>6. CASE AwaitReply(c) \/ CloseAll(c) \/ \E d \in Device : WriteRegister(c, d)
    <3>1. rpc[c] \in {"await", "closeall", "register"}
      BY <2>6 DEF AwaitReply, CloseAll, WriteRegister
    <3> QED
      BY <1>b, <3>1 DEF Goal
  <2> QED
    BY <1>2, <2>1, <2>2, <2>3, <2>4, <2>5, <2>6 DEF AgentStep, Run
<1>3. ASSUME NEW t \in Session, ShellStep(t) \/ ReaderStep(t) PROVE UNCHANGED <<cur, rpc>>
  BY <1>3 DEF ShellStep, ReaderStep, ReadShell, ShellExits, Reader, SendOutput, ReadShellErr,
              ReaderClose, ReaderKill, ReaderNotify, runVars
<1> QED
  BY <1>a, <1>1, <1>2, <1>3, AsideSteps DEF ShellsAside

(* A Close on its way to the broker ends the terminal.                     *)
LEMMA CloseComes ==
    ASSUME CloudTypes, LiveInv, RunInv, ShellInv, [Next]_vars, NEW s \in Session, NEW c \in Conn,
           cac[s] = c, InFlight(toBroker[c], Close(s)), sessions'[s] # None
    PROVE  InFlight(toBroker'[c], Close(s))
<1> DEFINE q == toBroker[c]
<1>1. q \in Seq(AgentFrame)
  BY DEF CloudTypes, TInv, WireTypeOK
<1>2. ASSUME NEW f \in AgentFrame, toBroker'[c] = Append(q, f) PROVE InFlight(toBroker'[c], Close(s))
  BY <1>1, <1>2, Flying
<1>3. CASE Reads(c)
  <2>1. q # <<>> /\ toBroker'[c] = Tail(q) /\ apc[c] \notin Pre
    BY <1>3, ConnNone DEF Reads, LiveInv
  <2>2. InFlight(Tail(q), Close(s)) \/ Head(q) = Close(s)
    BY <1>1, <2>1, Landing
  <2>3. ASSUME Head(q) = Close(s) PROVE FALSE
    <3>1. Head(q).type = "close" /\ Head(q).sess = s
      BY <2>3 DEF Close
    <3>2. ServeClose(c)
      BY <1>3, <2>1, <3>1 DEF Reads, ServeOutput
    <3>3. sessions' = [sessions EXCEPT ![s] = None]
      BY <3>1, <3>2 DEF ServeClose
    <3> QED
      BY <3>3 DEF CloudTypes, TInv, BrokerTypeOK
  <2> QED
    BY <2>1, <2>2, <2>3
<1> QED
  BY <1>2, <1>3, ToBrokerSteps

(* Run reads Open(s) and opens the shell, or has to answer with Close, or  *)
(* takes it for the answer to its registration and gives up.               *)
LEMMA TakesOpen ==
    ASSUME CloudTypes, OpenInv, NEW s \in Session, NEW c \in Conn, Takes(c), Head(toAgent[c]) = Open(s)
    PROVE  s \in shells'[c] \/ cur'[c] = s \/ rpc'[c] = "return"
<1> USE DEF CloudTypes, AgentTypeOK, GoRun
<1>1. Received(c) = Open(s) /\ Received(c).type = "open" /\ Received(c).sess = s
  BY DEF Received, Open
<1>2. CASE AwaitReply(c)
  <2>1. \/ rpc' = [rpc EXCEPT ![c] = IF Received(c).type = "registered" THEN "serve" ELSE "return"]
        \/ rpc' = [rpc EXCEPT ![c] = "return"]
    BY <1>2 DEF AwaitReply
  <2> QED
    BY <1>1, <2>1
<1>3. CASE OpenShell(c)
  <2>1. \/ shells' = [shells EXCEPT ![c] = @ \cup {s}]
        \/ cur' = [cur EXCEPT ![c] = s]
    BY <1>1, <1>3 DEF OpenShell
  <2> QED
    BY <2>1
<1>4. ~ShellInput(c) /\ ~RunClose(c)
  BY <1>1 DEF ShellInput, RunClose
<1> QED
  BY <1>2, <1>3, <1>4 DEF Takes

LEMMA KeepsTerminalHasShell ==
    ASSUME CloudTypes, LiveInv, RunInv, ShellInv, OpenInv, TerminalHasShell, [Next]_vars
    PROVE  TerminalHasShell'
<1> SUFFICES ASSUME NEW s \in Session, sessions'[s] # None, cpc'[s] \in {"read", "input"},
                    link'[cac'[s]] = "up"
             PROVE  \/ s \in shells'[cac'[s]] \/ InFlight(toAgent'[cac'[s]], Open(s))
                    \/ rd'[s] \in {"kill", "notify"} \/ cur'[cac'[s]] = s
                    \/ InFlight(toBroker'[cac'[s]], Close(s))
                    \/ rpc'[cac'[s]] = "return"
  BY DEF TerminalHasShell
<1>1. CASE cpc[s] \notin {"read", "input"}
  <2>1. SendOpen(s)
    BY <1>1, TermEnds
  <2>2. PICK c \in Conn : cac[s] = c /\ cac'[s] = c /\ link[c] = "up"
    BY <2>1 DEF SendOpen, Bridged, CloudTypes, TInv, Phases
  <2>3. toAgent' = [toAgent EXCEPT ![c] = Append(@, Open(s))]
    BY <2>1, <2>2 DEF SendOpen, SendOK, SendErr
  <2>4. toAgent'[c] = Append(toAgent[c], Open(s)) /\ toAgent[c] \in Seq(BrokerFrame)
    BY <2>3 DEF CloudTypes, TInv, WireTypeOK
  <2> QED
    BY <2>2, <2>4, Flying, FrameTypes
<1>2. CASE cpc[s] \in {"read", "input"}
  <2>1. PICK c \in Conn : /\ Past(s) /\ cac[s] = c /\ cac'[s] = c
                          /\ link[c] = "up" /\ link'[c] = "up"
    <3>1. cac[s] \in Conn /\ Past(s)
      BY <1>2, ConnNone DEF Bridged, Past, CloudTypes, TInv, Phases
    <3> QED
      BY <3>1, StaysPast, StaysDown, ConnNone
  <2> DEFINE q == toAgent[c]
  <2>2. sessions[s] # None
    <3>1. ~Publish(s)
      BY <1>2 DEF Publish
    <3> QED
      BY <3>1, SessionSteps
  <2>3. q \in Seq(BrokerFrame) /\ ~ReadFails(c) /\ toBroker \in [Conn -> Seq(AgentFrame)]
    BY <2>1 DEF CloudTypes, TInv, WireTypeOK, ReadFails
  <2>4. CASE s \in shells[c]
    <3>1. home[s] = c
      BY <2>4 DEF RunInv
    <3> QED
      BY <2>1, <2>3, <2>4, <3>1, ShellGoes
  <2>5. CASE InFlight(q, Open(s))
    <3>1. ASSUME NEW f \in BrokerFrame, toAgent'[c] = Append(q, f) PROVE InFlight(toAgent'[c], Open(s))
      BY <2>3, <2>5, <3>1, Flying
    <3>2. CASE Takes(c)
      <4>1. q # <<>> /\ toAgent'[c] = Tail(q)
        BY <3>2 DEF Takes, Readable
      <4>2. InFlight(Tail(q), Open(s)) \/ Head(q) = Open(s)
        BY <2>3, <2>5, <4>1, Landing
      <4> QED
        BY <2>1, <3>2, <4>1, <4>2, TakesOpen
    <3> QED
      BY <2>1, <2>5, <3>1, <3>2, ToAgentSteps, ExitCuts
  <2>6. CASE rd[s] \in {"kill", "notify"}
    <3>1. CASE ReaderNotify(s)
      <4>1. home[s] = c
        BY <2>1, <3>1 DEF ReaderNotify, Alive, ShellInv
      <4>2. toBroker' = [toBroker EXCEPT ![c] = Append(@, Close(s))]
        BY <2>1, <3>1, <4>1 DEF ReaderNotify, WriteOK, WriteErr
      <4>3. toBroker'[c] = Append(toBroker[c], Close(s)) /\ toBroker[c] \in Seq(AgentFrame)
        BY <2>3, <4>2
      <4> QED
        BY <2>1, <4>3, Flying, AgentFrameTypes
    <3> QED
      BY <2>6, <3>1, ReaderGoes
  <2>7. CASE cur[c] = s
    <3>1. CASE RunNotify(c)
      <4>1. toBroker' = [toBroker EXCEPT ![c] = Append(@, Close(s))]
        BY <2>1, <2>7, <3>1 DEF RunNotify, WriteOK, WriteErr
      <4>2. toBroker'[c] = Append(toBroker[c], Close(s)) /\ toBroker[c] \in Seq(AgentFrame)
        BY <2>3, <4>1
      <4> QED
        BY <2>1, <4>2, Flying, AgentFrameTypes
    <3> QED
      BY <2>1, <2>7, <3>1, RunGoes
  <2>8. CASE InFlight(toBroker[c], Close(s))
    BY <2>1, <2>8, CloseComes
  <2>9. CASE rpc[c] = "return"
    BY <2>1, <2>9, RunGoes, ExitCuts
  <2> QED
    BY <1>2, <2>1, <2>2, <2>4, <2>5, <2>6, <2>7, <2>8, <2>9 DEF TerminalHasShell
<1> QED
  BY <1>1, <1>2
-----------------------------------------------------------------------------
(***************************************************************************)
(* The invariant, and what follows from it.                                *)
(***************************************************************************)
LEMMA InitCloud == Init => CloudInv /\ LeakInv /\ TerminalHasShell
<1> SUFFICES ASSUME Init PROVE CloudInv /\ LeakInv /\ TerminalHasShell
  OBVIOUS
<1>1. TInv
  BY InitTypes DEF Init
<1>2. CloudTypes
  BY <1>1, ChunkNat DEF Init, AgentInit, CloudTypes, AgentTypeOK, RunPC, ProcState, ReaderPC
<1>3. /\ link = [c \in Conn |-> "none"] /\ apc = [c \in Conn |-> "idle"]
      /\ toAgent = [c \in Conn |-> <<>>] /\ toBroker = [c \in Conn |-> <<>>]
      /\ agents = [d \in Device |-> None] /\ cac = [s \in Session |-> None]
      /\ cpc = [s \in Session |-> "idle"] /\ sessions = [s \in Session |-> None]
      /\ fromBrowser = [s \in Session |-> <<>>] /\ toBrowser = [s \in Session |-> <<>>]
      /\ typed = [s \in Session |-> 0] /\ shown = [s \in Session |-> <<>>]
      /\ ws = [s \in Session |-> "none"]
  BY DEF Init, WireInit, BrokerInit
<1>4. /\ rpc = [c \in Conn |-> "idle"] /\ cur = [c \in Conn |-> None]
      /\ doomed = [c \in Conn |-> {}] /\ shells = [c \in Conn |-> {}]
      /\ home = [s \in Session |-> None] /\ proc = [s \in Session |-> "none"]
      /\ rd = [s \in Session |-> "none"] /\ printed = [s \in Session |-> 0]
      /\ got = [s \in Session |-> <<>>]
  BY DEF Init, AgentInit
<1>5. LiveInv
  BY <1>3 DEF LiveInv
<1>6. RunInv
  BY <1>4 DEF RunInv
<1>7. ShellInv
  BY <1>4 DEF ShellInv
<1>8. OpenInv
  BY <1>3 DEF OpenInv
<1>9. TypedInv
  BY <1>3 DEF TypedInv, Sent
<1>10. InputInv
  BY <1>3, <1>4 DEF InputInv, Sent, Rising, Hears, Past
<1>11. PageInv
  BY <1>3, <1>4 DEF PageInv, Arrived, OutSent, Holding
<1>12. OutputInv
  BY <1>3, <1>4 DEF OutputInv, Rising
<1>13. LeakInv /\ TerminalHasShell
  BY <1>3 DEF LeakInv, TerminalHasShell, Hears, Past
<1> QED
  BY <1>2, <1>5, <1>6, <1>7, <1>8, <1>9, <1>10, <1>11, <1>12, <1>13 DEF CloudInv

(* Every step of the broker, the agents, the users and the network keeps   *)
(* CloudInv, and with it LeakInv and TerminalHasShell.                     *)
THEOREM CloudInvariant == Spec => [](CloudInv /\ LeakInv /\ TerminalHasShell)
<1> DEFINE Inv == CloudInv /\ LeakInv /\ TerminalHasShell
<1>1. Init => Inv
  BY InitCloud
<1>2. Inv /\ [Next]_vars => Inv'
  <2> SUFFICES ASSUME CloudInv, LeakInv, TerminalHasShell, [Next]_vars PROVE Inv'
    OBVIOUS
  <2> USE DEF CloudInv
  <2>1. CloudTypes'
    BY TypeSteps
  <2>2. LiveInv'
    BY KeepsLive
  <2>3. RunInv' /\ ShellInv' /\ OpenInv'
    BY KeepsRun, KeepsShell, KeepsOpen
  <2>4. TypedInv' /\ InputInv'
    BY KeepsTyped, KeepsInput
  <2>5. PageInv' /\ OutputInv'
    BY KeepsPage, KeepsOutput
  <2>6. LeakInv' /\ TerminalHasShell'
    BY KeepsLeak, KeepsTerminalHasShell
  <2> QED
    BY <2>1, <2>2, <2>3, <2>4, <2>5, <2>6
<1> QED
  BY <1>1, <1>2, PTL DEF Spec

(* Broker, agents and pages hold values of their types, whatever the       *)
(* goroutines of the two programs interleave.                              *)
THEOREM CloudTypeCorrect == Spec => []TypeOK
<1>1. CloudInv => TypeOK
  BY DEF CloudInv, CloudTypes, TInv, TypeOK
<1> QED
  BY <1>1, CloudInvariant, PTL

(* Nobody has a shell that somebody else has too.                          *)
LEMMA ClosersAlone ==
    ASSUME CloudInv, NEW s \in Session
    PROVE  \A x, y \in Closers(s) : x = y
<1> SUFFICES ASSUME NEW x \in Closers(s), NEW y \in Closers(s) PROVE x = y
  OBVIOUS
<1>1. /\ \A c \in Conn : s \in shells[c] => home[s] = c /\ rpc[c] \in {"serve", "kill", "notify"}
      /\ \A c \in Conn : s \in doomed[c] => home[s] = c /\ rpc[c] = "closeall"
      /\ \A c \in Conn : rpc[c] = "kill" /\ cur[c] = s => home[s] = c /\ s \notin shells[c]
      /\ rd[s] = "kill" =>
           \A c \in Conn : ~(s \in shells[c] \/ s \in doomed[c] \/ (rpc[c] = "kill" /\ cur[c] = s))
  BY DEF CloudInv, RunInv, ShellInv, RunHas
<1>2. CASE rd[s] = "kill"
  BY <1>1, <1>2 DEF Closers
<1>3. CASE rd[s] # "kill"
  <2>1. \A z \in Closers(s) :
          \/ z = <<home[s], "run">> /\ rpc[home[s]] = "kill" /\ s \notin shells[home[s]]
          \/ z = <<home[s], "all">> /\ rpc[home[s]] = "closeall"
          \/ z = <<home[s], "map">> /\ s \in shells[home[s]]
               /\ rpc[home[s]] \in {"serve", "kill", "notify"}
    BY <1>1, <1>3 DEF Closers
  <2> QED
    BY <2>1
<1> QED
  BY <1>2, <1>3

(* Two goroutines of an agent never close the same shell, so cmd.Wait is   *)
(* called once; and a running shell of an agent that serves has one that   *)
(* will (agent.go:145-164).                                                *)
THEOREM OneCloserCorrect == Spec => []OneCloser
<1>1. ASSUME CloudInv PROVE OneCloser
  <2> SUFFICES ASSUME NEW s \in Session
               PROVE  proc[s] = "running" /\ rpc[home[s]] # "exited" => Closers(s) # {}
    BY <1>1, ClosersAlone DEF OneCloser
  <2>1. proc[s] = "running" => home[s] \in Conn
    BY <1>1 DEF CloudInv, ShellInv, CloudTypes, AgentTypeOK
  <2>2. proc[s] = "running" /\ rpc[home[s]] # "exited" => rd[s] = "kill" \/ RunHas(home[s], s)
    BY <1>1 DEF CloudInv, ShellInv
  <2> QED
    BY <2>1, <2>2 DEF Closers, RunHas
<1> QED
  BY <1>1, CloudInvariant, PTL

(* The shell is given the user's bytes from the first, in order, none lost *)
(* in between and none twice (broker.go:198-209, agent.go:136-143).        *)
THEOREM InputIsPrefixCorrect == Spec => []InputIsPrefix
<1>1. ASSUME CloudInv PROVE InputIsPrefix
  <2> SUFFICES ASSUME NEW s \in Session
               PROVE  Len(got[s]) <= typed[s] /\ got[s] = Upto(Len(got[s]))
    BY DEF InputIsPrefix
  <2>1. got[s] \in Seq(Chunk) /\ fromBrowser[s] \in Seq(Chunk) /\ typed[s] \in Nat
    BY <1>1, TypedBound, ChunkNat DEF CloudInv, CloudTypes, TInv, BrokerTypeOK, AgentTypeOK
  <2>2. (\A i \in 1..Len(got[s]) : got[s][i] = i) /\ Len(got[s]) <= Sent(s)
    BY <1>1 DEF CloudInv, InputInv
  <2>3. Len(got[s]) \in Nat /\ Len(fromBrowser[s]) \in Nat
    BY <2>1
  <2>4. Sent(s) <= typed[s]
    BY <2>1, <2>3 DEF Sent
  <2>5. Len(got[s]) <= typed[s]
    BY <2>1, <2>2, <2>3, <2>4 DEF Sent
  <2>6. got[s] = [i \in 1..Len(got[s]) |-> got[s][i]]
    BY <2>1
  <2> QED
    BY <2>2, <2>5, <2>6 DEF Upto
<1> QED
  BY <1>1, CloudInvariant, PTL

(* The page shows the shell's output from the first byte, in order, none   *)
(* lost in between and none twice (agent.go:118-131, broker.go:147-153).   *)
THEOREM OutputIsPrefixCorrect == Spec => []OutputIsPrefix
<1>1. ASSUME CloudInv PROVE OutputIsPrefix
  <2> SUFFICES ASSUME NEW s \in Session
               PROVE  Len(shown[s]) <= printed[s] /\ shown[s] = Upto(Len(shown[s]))
    BY DEF OutputIsPrefix
  <2>1. shown[s] \in Seq(Chunk) /\ toBrowser[s] \in Seq(Chunk) /\ printed[s] \in Nat
    BY <1>1, ChunkNat DEF CloudInv, CloudTypes, TInv, BrokerTypeOK, AgentTypeOK
  <2>2. (\A i \in 1..Len(shown[s]) : shown[s][i] = i) /\ Arrived(s) <= OutSent(s)
    BY <1>1 DEF CloudInv, PageInv
  <2> DEFINE a == Len(shown[s])
             b == Len(toBrowser[s])
  <2>3. a \in Nat /\ b \in Nat
    BY <2>1
  <2>4. a + b <= OutSent(s)
    BY <2>2 DEF Arrived
  <2>5. a <= printed[s]
    <3> HIDE DEF a, b
    <3> QED
      BY <2>1, <2>3, <2>4 DEF OutSent
  <2>6. shown[s] = [i \in 1..Len(shown[s]) |-> shown[s][i]]
    BY <2>1
  <2> QED
    BY <2>2, <2>5, <2>6 DEF Upto
<1> QED
  BY <1>1, CloudInvariant, PTL

(* A shell whose terminal has ended has its Close on the way, also when    *)
(* the browser left before the agent read the Open (broker.go:192-211).    *)
THEOREM NoLeakedShellCorrect == Spec => []NoLeakedShell
<1>1. ASSUME CloudInv, LeakInv PROVE NoLeakedShell
  <2> SUFFICES ASSUME NEW s \in Session, home[s] # None, s \in shells[home[s]],
                      link[home[s]] = "up", cpc[s] \in {"end", "close", "done"}
               PROVE  InFlight(toAgent[home[s]], Close(s))
    BY DEF NoLeakedShell
  <2>1. home[s] = cac[s] /\ Past(s)
    BY <1>1 DEF CloudInv, ShellInv
  <2>2. Hears(s)
    BY <2>1 DEF Hears
  <2> QED
    BY <1>1, <2>1, <2>2 DEF LeakInv
<1> QED
  BY <1>1, CloudInvariant, PTL

(* A terminal that is open has its shell, or whoever ended the shell is    *)
(* about to tell the broker (agent.go:106-111, 145-154).                   *)
THEOREM TerminalHasShellCorrect == Spec => []TerminalHasShell
BY CloudInvariant, PTL

=============================================================================
