---------------------------- MODULE LegacyBroker ----------------------------
(***************************************************************************)
(* The prototype under _legacy/: an agent registers over HTTP and then     *)
(* beacons; the terminal page (XTerminal.jsx) opens a control socket to    *)
(* the hub, is given a session and authenticates in it; the hub opens a    *)
(* port for the session, which the agent learns of from the answer to its  *)
(* next beacon; the page opens a second socket, which joins the channelIO  *)
(* of the latest authentication (ChannelHub).                              *)
(*                                                                         *)
(* The hub's loop (Start) is one goroutine: a message it handles is one    *)
(* step. The HTTP handlers, createChannel and authTokenValidation run      *)
(* beside it and use the same maps without a lock. Requests of different   *)
(* senders reach the hub's channels in any order, so a channel is the set  *)
(* of those waiting. A control socket that closes changes nothing.         *)
(***************************************************************************)
EXTENDS ChannelHub

CONSTANTS Device,  \* agents, by the id each one draws
          Wants,   \* the device each browser is for
          Unknown

ASSUME WantsDevice == Wants \in [Client -> Device] /\ Unknown \notin Device
ASSUME SessionBound == IsFiniteSet(Client) /\ Cardinality(Client) <= MaxSid

VARIABLES
    agent,       \* the agent processes
    registered,  \* hub.agents and hub.devices
    pending,     \* registrations in hub.register or being checked
    client,      \* the browsers: how far the page is, and its sid
    nsid,        \* _sid
    source,      \* sources["127.0.0.1"]
    port,        \* sessions: the port, as its sid, given to each device
    channel,     \* createChannel of each sid
    dial,        \* the device of each shell, and the port it dials
    strayed      \* history: pages that joined a channel not their own

legacyOnly == <<agent, registered, pending, client, nsid, source, port, channel, dial, strayed>>
legacyVars == <<channelVars, legacyOnly>>

(* A session is authenticated once, so its channelIO goes by its sid.      *)
Sid == 1..Cardinality(Client)
Sid0 == Sid \cup {0}
Stage == {"away", "queued", "refused", "asking", "acked"}
Named == Device \cup {Unknown}

LegacyTypeOK ==
    /\ ChannelTypeOK
    /\ broker \in {"up", "nilClient", "authUnreachable", "portTaken", "mapRace"}
    /\ agent \in [Device -> {"off", "up", "gone"}]
    /\ registered \subseteq Device
    /\ pending \subseteq Device
    /\ client \in [Client -> [at : Stage, sid : Sid0]]
    /\ nsid \in Sid0 /\ source \in Sid0
    /\ port \in [Device -> Sid0]
    /\ channel \in [Sid -> {"none", "starting", "serving"}]
    /\ dial \in [Shell -> [dev : Named, port : Sid0]]
    /\ strayed \subseteq Client

LegacyInit ==
    /\ ChannelInit
    /\ agent = [d \in Device |-> "off"] /\ registered = {} /\ pending = {}
    /\ client = [c \in Client |-> [at |-> "away", sid |-> 0]]
    /\ nsid = 0 /\ source = 0 /\ port = [d \in Device |-> 0]
    /\ channel = [s \in Sid |-> "none"]
    /\ dial = [h \in Shell |-> [dev |-> Unknown, port |-> 0]]
    /\ strayed = {}

Up == broker = "up"

(* The broker's process ends, and all that it kept. What its peers do then *)
(* is of no more interest.                                                 *)
Ends(why) ==
    /\ broker' = why
    /\ queue' = [s \in Cio |-> [k \in Chan |-> <<>>]]
    /\ sock' = [x \in Socket |-> Apart]
    /\ sent' = [x \in Socket |-> 0] /\ got' = [x \in Socket |-> <<>>] /\ lost' = {}
    /\ agent' = [d \in Device |-> "gone"] /\ registered' = {} /\ pending' = {}
    /\ client' = [c \in Client |-> [at |-> "away", sid |-> 0]]
    /\ nsid' = 0 /\ source' = 0 /\ port' = [d \in Device |-> 0]
    /\ channel' = [s \in Sid |-> "none"]
    /\ dial' = [h \in Shell |-> [dev |-> Unknown, port |-> 0]]
    /\ strayed' = {}

-----------------------------------------------------------------------------
(* main of the agent: sendAuthentication with its secret token. There is   *)
(* no session for a new device, and serverHandler passes it to the hub. If *)
(* the post fails secureHTTPPost waits for ever for its own goroutine, and *)
(* the agent is never heard of.                                            *)
Register(d) ==
    /\ Up /\ agent[d] = "off"
    /\ agent' = [agent EXCEPT ![d] = "up"]
    /\ pending' = pending \cup {d}
    /\ UNCHANGED <<channelVars, registered, client, nsid, source, port, channel, dial, strayed>>

(* handleAgentRegistration and authTokenValidation: mm-auth knows the      *)
(* token or not ...                                                        *)
HandleRegistration(d) ==
    /\ Up /\ d \in pending
    /\ pending' = pending \ {d}
    /\ registered' \in {registered, registered \cup {d}}
    /\ UNCHANGED <<channelVars, agent, client, nsid, source, port, channel, dial, strayed>>

(* ... or cannot be reached: log.Fatalln.                                  *)
AuthUnreachable(d) == Up /\ d \in pending /\ Ends("authUnreachable")

(* The process of an agent ends, and with it its shells and the dials that *)
(* are under way.                                                          *)
Dies(d) ==
    /\ agent' = [agent EXCEPT ![d] = "gone"]
    /\ sock' = [x \in Socket |-> IF x \in Shell /\ dial[x].dev = d
                                   THEN [sock[x] EXCEPT !.up = FALSE] ELSE sock[x]]
    /\ dial' = [h \in Shell |-> IF dial[h].dev = d /\ sock[h].hub = "none"
                                  THEN [dial[h] EXCEPT !.port = 0] ELSE dial[h]]

(* Pipe.in and Pipe.out panic when a shell exits or a socket fails.        *)
AgentDies(d) ==
    /\ agent[d] = "up" /\ Dies(d)
    /\ UNCHANGED <<broker, queue, sent, got, lost, registered, pending, client, nsid, source,
                   port, channel, strayed>>

(* sendBeacon, every thirty seconds. serverHandler answers with the port   *)
(* of the device's session ...                                             *)
Beacon(d, h) ==
    /\ Up /\ agent[d] = "up" /\ port[d] # 0 /\ dial[h].dev = Unknown
    /\ dial' = [dial EXCEPT ![h] = [dev |-> d, port |-> port[d]]]
    /\ UNCHANGED <<channelVars, agent, registered, pending, client, nsid, source, port,
                   channel, strayed>>

(* ... or, without one, passes the hub a registration with an empty token, *)
(* which is refused unless the device is registered, and answers nothing;  *)
(* the agent takes that for port 0, fails to dial it and ends.             *)
BeaconUnanswered(d) ==
    /\ Up /\ agent[d] = "up" /\ port[d] = 0
    /\ \/ /\ Dies(d)
          /\ UNCHANGED <<broker, queue, sent, got, lost, registered, pending, client, nsid,
                         source, port, channel, strayed>>
       \/ d \notin registered /\ Ends("authUnreachable")

(* A mutant: the shell joins the channelIO of the latest authentication.   *)
DialChannelLatest(h) ==
    /\ Up /\ dial[h].port # 0 /\ sock[h].hub = "none"
    /\ IF channel[dial[h].port] = "serving"
         THEN Join(h, source) /\ UNCHANGED <<agent, dial>>
         ELSE Dies(dial[h].dev)
    /\ UNCHANGED <<broker, queue, sent, got, lost, registered, pending, client, nsid, source,
                   port, channel, strayed>>

(* createClientPlainChannel and pttyAttach: the shell's socket joins the   *)
(* channelIO behind the port, or nobody listens yet and the agent ends.    *)
DialChannel(h) ==
    /\ Up /\ dial[h].port # 0 /\ sock[h].hub = "none"
    /\ IF channel[dial[h].port] = "serving"
         THEN Join(h, dial[h].port) /\ UNCHANGED <<agent, dial>>
         ELSE Dies(dial[h].dev)
    /\ UNCHANGED <<broker, queue, sent, got, lost, registered, pending, client, nsid, source,
                   port, channel, strayed>>

-----------------------------------------------------------------------------
Advance(c, stage) == client' = [client EXCEPT ![c].at = stage]

(* connect, and wsPeersHandler: a control socket for the device.           *)
OpenControl(c) ==
    /\ Up /\ client[c].at = "away" /\ Advance(c, "queued")
    /\ UNCHANGED <<channelVars, agent, registered, pending, nsid, source, port, channel,
                   dial, strayed>>

(* A mutant: the counter is not advanced.                                  *)
HandleSessionSame(c) ==
    /\ Up /\ client[c].at = "queued" /\ Wants[c] \in registered
    /\ client' = [client EXCEPT ![c].at = "asking", ![c].sid = 1]
    /\ UNCHANGED <<channelVars, agent, registered, pending, nsid, source, port, channel,
                   dial, strayed>>

(* handleSession: a session if the device is registered, whether or not    *)
(* its agent still runs. The page answers the sid with its auth message,   *)
(* which Client.read brings to the hub some time later.                    *)
HandleSession(c) ==
    /\ Up /\ client[c].at = "queued"
    /\ IF Wants[c] \in registered
         THEN /\ nsid' = nsid + 1
              /\ client' = [client EXCEPT ![c].at = "asking", ![c].sid = nsid']
         ELSE Advance(c, "refused") /\ UNCHANGED nsid
    /\ UNCHANGED <<channelVars, agent, registered, pending, source, port, channel, dial, strayed>>

(* handleIncomingMessages: the session becomes the source of the next page *)
(* and gets a channelIO and a port; createChannel starts, whose net.Listen *)
(* ends the broker if the port is taken; the ack. The page authenticates   *)
(* only in a session and with a placeholder, so neither refusal (no sid,   *)
(* "not_authorised_user") occurs.                                          *)
HandleAuth(c) ==
    LET s == client[c].sid IN
    /\ Up /\ client[c].at = "asking"
    /\ IF channel[s] # "none" THEN Ends("portTaken") ELSE
       /\ Advance(c, "acked")
       /\ source' = s
       /\ port' = [port EXCEPT ![Wants[c]] = s]
       /\ channel' = [channel EXCEPT ![s] = "starting"]
       /\ UNCHANGED <<channelVars, agent, registered, pending, nsid, dial, strayed>>

(* createChannel reaches net.Listen.                                       *)
Listen(s) ==
    /\ Up /\ channel[s] = "starting"
    /\ channel' = [channel EXCEPT ![s] = "serving"]
    /\ UNCHANGED <<channelVars, agent, registered, pending, client, nsid, source, port,
                   dial, strayed>>

(* wsChannelHandler: the page's second socket joins the channelIO of the   *)
(* latest source, whatever token its address names.                        *)
OpenPage(c) ==
    /\ Up /\ client[c].at = "acked" /\ sock[c].hub = "none"
    /\ Join(c, source)
    /\ strayed' = IF source = client[c].sid THEN strayed ELSE strayed \cup {c}
    /\ UNCHANGED <<broker, queue, sent, got, lost, agent, registered, pending, client, nsid,
                   source, port, channel, dial>>

(* The runtime ends the broker when it notices a map read while another    *)
(* goroutine writes it: the hub at an authentication against a beacon or   *)
(* page, a validated registration against the hub at a session.            *)
MapRace ==
    /\ Up
    /\ \/ /\ \E c \in Client : client[c].at = "asking"
          /\ \/ \E d \in Device : agent[d] = "up"
             \/ \E c \in Client : client[c].at = "acked" /\ sock[c].hub = "none"
       \/ pending # {} /\ \E c \in Client : client[c].at = "queued"
    /\ Ends("mapRace")

LegacyNext ==
    \/ ChannelStep /\ UNCHANGED legacyOnly
    \/ \E d \in Device :
         \/ Register(d) \/ AgentDies(d) \/ BeaconUnanswered(d)
         \/ \E h \in Shell : Beacon(d, h)
         \/ HandleRegistration(d) \/ AuthUnreachable(d)
    \/ \E h \in Shell : DialChannel(h)
    \/ \E c \in Client : OpenControl(c) \/ HandleSession(c) \/ HandleAuth(c) \/ OpenPage(c)
    \/ \E s \in Sid : Listen(s)
    \/ MapRace

LegacySpec == LegacyInit /\ [][LegacyNext]_legacyVars /\ ChannelFairness

-----------------------------------------------------------------------------
(* A page and a shell exchange messages only if the shell was opened for   *)
(* the page's session, on the page's device, or the latest authentication  *)
(* before the page joined was not its own: wsChannelHandler goes by the    *)
(* source alone (channels.go:131: "create pipeline attached to session").  *)
OwnSession ==
    \A c \in Client, h \in Shell :
        (\E m \in ToSet(got[h]) : m[1] = c) \/ (\E m \in ToSet(got[c]) : m[1] = h) =>
          \/ c \in strayed
          \/ dial[h] = [dev |-> Wants[c], port |-> client[c].sid]

(* The broker never ends because a session's port is taken: two sessions   *)
(* never get the same one (7000 + sid), however registrations, sessions    *)
(* and authentications interleave.                                         *)
PortsAreApart == broker # "portTaken"

=============================================================================
