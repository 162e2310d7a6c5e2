------------------------------ MODULE Identity ------------------------------
(***************************************************************************)
(* The long-lived keys of the broker and of one agent: LoadOrCreateIdentity*)
(* (secure.go), and the starts of mm-broker and mm-agent around it. The    *)
(* broker publishes its public key with -pubkey-out; whoever starts the    *)
(* agent hands it that key to pin.                                         *)
(*                                                                         *)
(* os.WriteFile creates or truncates the file in one step and writes it in *)
(* another; the process can be killed in between, and the write can fail.  *)
(* The contents, some ninety bytes, are written whole or not at all. Both  *)
(* processes end with log.Fatal on every error.                            *)
(***************************************************************************)
EXTENDS Naturals

CONSTANTS
    Key,       \* keypairs, each generated once
    NoKey,
    MaxKills   \* bound: how often a process is killed

ASSUME NoKeyFresh == Key \cap {NoKey, "absent", "empty"} = {}
ASSUME KillsNat == MaxKills \in Nat

VARIABLES
    keyFile,    \* identity files
    published,  \* the broker's -pubkey-out file
    proc,       \* where each process is
    static,     \* cfg.Static of each process
    pin,        \* the agent's -broker-key
    generated,  \* keys generated so far
    kills,      \* the bound's counter
    shown       \* history: keys each process has run with

idVars == <<keyFile, published, proc, static, pin, generated, kills, shown>>

End == {"agent", "broker"}
Peer(e) == IF e = "agent" THEN "broker" ELSE "agent"
FileT == Key \cup {"absent", "empty"}

IdTypeOK ==
    /\ keyFile \in [End -> FileT] /\ published \in FileT
    /\ proc \in [End -> {"down", "create", "write", "publish", "truncated", "up"}]
    /\ static \in [End -> Key \cup {NoKey}] /\ pin \in Key \cup {NoKey}
    /\ generated \subseteq Key /\ kills \in 0..MaxKills
    /\ shown \in [End -> SUBSET Key]

IdInit ==
    /\ keyFile = [e \in End |-> "absent"] /\ published = "absent"
    /\ proc = [e \in End |-> "down"]
    /\ static = [e \in End |-> NoKey] /\ pin = NoKey
    /\ generated = {} /\ kills = 0
    /\ shown = [e \in End |-> {}]

(* main up to the identity: the agent needs a broker key to pin.           *)
MayStart(e) ==
    /\ proc[e] = "down"
    /\ IF e = "agent" THEN published \in Key /\ pin' = published ELSE UNCHANGED pin

(* main after it: the broker publishes its key, the agent dials.           *)
HasIdentity(e, k) ==
    /\ static' = [static EXCEPT ![e] = k]
    /\ shown' = [shown EXCEPT ![e] = @ \cup {k}]
    /\ proc' = [proc EXCEPT ![e] = IF e = "broker" THEN "publish" ELSE "up"]

(* LoadOrCreateIdentity finds a key. It refuses an empty file: malformed.  *)
LoadIdentity(e) ==
    /\ MayStart(e) /\ keyFile[e] \in Key
    /\ HasIdentity(e, keyFile[e])
    /\ UNCHANGED <<keyFile, published, generated, kills>>

(* It finds no file and generates a key ...                                *)
GenerateKeypair(e, k) ==
    /\ MayStart(e) /\ keyFile[e] = "absent" /\ k \notin generated
    /\ generated' = generated \cup {k}
    /\ static' = [static EXCEPT ![e] = k]
    /\ proc' = [proc EXCEPT ![e] = "create"]
    /\ UNCHANGED <<keyFile, published, kills, shown>>

(* ... creates the file ...                                                *)
CreateFile(e) ==
    /\ proc[e] = "create"
    /\ keyFile' = [keyFile EXCEPT ![e] = "empty"]
    /\ proc' = [proc EXCEPT ![e] = "write"]
    /\ UNCHANGED <<published, static, pin, generated, kills, shown>>

(* ... and writes it.                                                      *)
WriteKey(e) ==
    /\ proc[e] = "write"
    /\ keyFile' = [keyFile EXCEPT ![e] = static[e]]
    /\ HasIdentity(e, static[e])
    /\ UNCHANGED <<published, pin, generated, kills>>

(* A mutant: the error of WriteFile is ignored.                            *)
WriteKeyFailsIgnored(e) ==
    /\ proc[e] = "write"
    /\ HasIdentity(e, static[e])
    /\ UNCHANGED <<keyFile, published, pin, generated, kills>>

WriteKeyFails(e) ==
    /\ proc[e] = "write"
    /\ proc' = [proc EXCEPT ![e] = "down"]
    /\ UNCHANGED <<keyFile, published, static, pin, generated, kills, shown>>

(* The broker writes -pubkey-out, at every start.                          *)
TruncatePubkey ==
    /\ proc["broker"] = "publish"
    /\ published' = "empty"
    /\ proc' = [proc EXCEPT !["broker"] = "truncated"]
    /\ UNCHANGED <<keyFile, static, pin, generated, kills, shown>>

WritePubkey ==
    /\ proc["broker"] = "truncated"
    /\ published' = static["broker"]
    /\ proc' = [proc EXCEPT !["broker"] = "up"]
    /\ UNCHANGED <<keyFile, static, pin, generated, kills, shown>>

KillProc(e) ==
    /\ proc[e] # "down" /\ kills < MaxKills
    /\ kills' = kills + 1
    /\ proc' = [proc EXCEPT ![e] = "down"]
    /\ UNCHANGED <<keyFile, published, static, pin, generated, shown>>

(* The operator deletes a malformed identity file, which no start accepts. *)
RemoveMalformed(e) ==
    /\ proc[e] = "down" /\ keyFile[e] = "empty"
    /\ keyFile' = [keyFile EXCEPT ![e] = "absent"]
    /\ UNCHANGED <<published, proc, static, pin, generated, kills, shown>>

IdNext ==
    \/ \E e \in End :
         \/ LoadIdentity(e) \/ CreateFile(e) \/ WriteKey(e) \/ WriteKeyFails(e)
         \/ \E k \in Key : GenerateKeypair(e, k)
         \/ RemoveMalformed(e)
    \/ TruncatePubkey \/ WritePubkey

(* secure.go:76: "This gives each device a stable long-lived identity". A  *)
(* process runs with one key for ever, through kills and failed writes at  *)
(* any point and even if a malformed file is deleted: such a file was      *)
(* never anybody's identity. So the key an agent has pinned is the one the *)
(* broker runs with.                                                       *)
StableIdentity ==
    /\ \A e \in End : /\ \A j, k \in shown[e] : j = k
                      /\ keyFile[e] = "empty" => shown[e] = {}
    /\ pin # NoKey /\ proc["broker"] = "up" => pin = static["broker"]

=============================================================================
