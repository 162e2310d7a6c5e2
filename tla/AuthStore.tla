------------------------------ MODULE AuthStore -----------------------------
(***************************************************************************)
(* internal/auth/store.go: mm-auth's mutex-guarded store, its JSON file,   *)
(* and the process being killed and started again.                         *)
(*                                                                         *)
(* A request holds s.mu from its first look at the maps to the end of      *)
(* save, so it is one step. save writes a temporary file and renames it:   *)
(* the step ends with the file replaced, with an error and the old file,   *)
(* or with the process killed on either side of the rename and nobody      *)
(* answered. PeekInvite and GetUser change nothing. A store without a path *)
(* keeps nothing and is not modelled; what a user record holds is left out *)
(* here.                                                                   *)
(***************************************************************************)
EXTENDS Naturals

CONSTANTS
    User,        \* user names
    Invite,      \* invites, each drawn once (32 random bytes)
    AgentToken,  \* device-enrollment tokens, likewise
    MaxKills     \* bound: how often the process is killed

ASSUME KillsNat == MaxKills \in Nat
ASSUME TokenKinds == Invite \cap AgentToken = {}

VARIABLES
    up,        \* mm-auth is running
    mem,       \* s.d: the keys of its maps
    disk,      \* the file at s.path
    minted,    \* tokens and invites drawn so far
    expired,   \* those whose time has passed
    kills,     \* the bound's counter
    issued,    \* history: creations answered without an error
    spent,     \* history: tokens and invites a request has deleted
    granted,   \* history: how often each was accepted
    slipped,   \* history: those whose deletion was once not saved
    behind     \* history: the last save failed

storeVars == <<up, mem, disk, minted, expired, kills, issued, spent, granted, slipped, behind>>

Token == Invite \cup AgentToken

Data == [users : SUBSET User, tokens : SUBSET Token]
Empty == [users |-> {}, tokens |-> {}]

TypeOK ==
    /\ up \in BOOLEAN /\ behind \in BOOLEAN
    /\ mem \in Data /\ disk \in Data /\ issued \in Data
    /\ minted \in SUBSET Token /\ expired \in SUBSET Token
    /\ spent \in SUBSET Token /\ slipped \in SUBSET Token
    /\ granted \in [Token -> Nat]
    /\ kills \in 0..MaxKills

(* OpenStore with no file. *)
Init ==
    /\ up = TRUE /\ behind = FALSE
    /\ mem = Empty /\ disk = Empty /\ issued = Empty
    /\ minted = {} /\ expired = {} /\ spent = {} /\ slipped = {}
    /\ granted = [t \in Token |-> 0]
    /\ kills = 0

-----------------------------------------------------------------------------
(* How save may end. Only the first two answer the caller.                 *)
Outcome == {"ok", "failed", "killed before", "killed after"}
Answers(out) == out \in {"ok", "failed"}

(* A mutant: save writes s.path itself, with no temporary file, and a kill *)
(* leaves it truncated.                                                    *)
SaveInPlace(d, out) ==
    /\ up
    /\ disk' = CASE out \in {"ok", "killed after"} -> d
                 [] out = "failed" -> disk
                 [] out = "killed before" -> Empty
    /\ IF Answers(out)
         THEN /\ mem' = d /\ behind' = (out = "failed")
              /\ UNCHANGED <<up, kills>>
         ELSE /\ kills < MaxKills /\ kills' = kills + 1
              /\ up' = FALSE /\ mem' = Empty /\ behind' = FALSE

(* save, called with s.d = d.                                              *)
Save(d, out) ==
    /\ up
    /\ disk' = IF out \in {"ok", "killed after"} THEN d ELSE disk
    /\ IF Answers(out)
         THEN /\ mem' = d /\ behind' = (out = "failed")
              /\ UNCHANGED <<up, kills>>
         ELSE /\ kills < MaxKills /\ kills' = kills + 1
              /\ up' = FALSE /\ mem' = Empty /\ behind' = FALSE

(* CreateUser: refused if the name is taken. The user stays in memory when *)
(* the save fails.                                                         *)
CreateUser(u, out) ==
    /\ u \notin mem.users
    /\ Save([mem EXCEPT !.users = @ \cup {u}], out)
    /\ issued' = [issued EXCEPT !.users = IF out = "ok" THEN @ \cup {u} ELSE @]
    /\ UNCHANGED <<minted, expired, spent, granted, slipped>>

(* PutUser is called with a record that GetUser returned and the handler   *)
(* has changed in place: the maps keep their keys and are saved.           *)
PutUser(u, out) ==
    /\ u \in mem.users
    /\ Save(mem, out)
    /\ UNCHANGED <<minted, expired, issued, spent, granted, slipped>>

(* A fresh token stays in memory when the save fails, though nobody is     *)
(* given it.                                                               *)
CreateToken(t, out) ==
    /\ t \notin minted
    /\ minted' = minted \cup {t}
    /\ Save([mem EXCEPT !.tokens = @ \cup {t}], out)
    /\ issued' = [issued EXCEPT !.tokens = IF out = "ok" THEN @ \cup {t} ELSE @]
    /\ UNCHANGED <<expired, spent, granted, slipped>>

CreateInvite(i, out) == CreateToken(i, out)
CreateAgentToken(t, out) == CreateToken(t, out)

(* The bookkeeping of a request that deleted t: accepted or not, and       *)
(* whether the file still has it.                                          *)
Spend(t, out, accepted) ==
    /\ spent' = spent \cup {t}
    /\ granted' = [granted EXCEPT ![t] = IF accepted THEN @ + 1 ELSE @]
    /\ slipped' = IF out = "failed" THEN slipped \cup {t} ELSE slipped
    /\ UNCHANGED <<minted, expired, issued>>

(* A mutant: success is reported although the deletion was not saved.      *)
ConsumeInviteIgnoresError(i, out) ==
    /\ Save([mem EXCEPT !.tokens = @ \ {i}], out)
    /\ IF i \in mem.tokens
         THEN Spend(i, out, Answers(out) /\ i \notin expired)
         ELSE UNCHANGED <<minted, expired, issued, spent, granted, slipped>>

(* A mutant: an expired invite is deleted and nothing is saved.            *)
ConsumeInviteUnsaved(i, out) ==
    /\ i \in mem.tokens
    /\ IF i \in expired
         THEN /\ up /\ out = "ok"
              /\ mem' = [mem EXCEPT !.tokens = @ \ {i}]
              /\ UNCHANGED <<up, disk, kills, behind>>
         ELSE Save([mem EXCEPT !.tokens = @ \ {i}], out)
    /\ Spend(i, out, out = "ok" /\ i \notin expired)

(* ConsumeInvite: an error of the save is the caller's error. It deletes   *)
(* and saves also when it refuses, an expired invite or an unknown one.    *)
ConsumeInvite(i, out) ==
    /\ Save([mem EXCEPT !.tokens = @ \ {i}], out)
    /\ IF i \in mem.tokens
         THEN Spend(i, out, out = "ok" /\ i \notin expired)
         ELSE UNCHANGED <<minted, expired, issued, spent, granted, slipped>>

(* A mutant: the token is deleted in memory and not saved.                 *)
CheckAgentTokenUnsaved(t, out) ==
    /\ up /\ t \in mem.tokens /\ out = "ok"
    /\ mem' = [mem EXCEPT !.tokens = @ \ {t}]
    /\ UNCHANGED <<up, disk, kills, behind>>
    /\ Spend(t, out, t \notin expired)

(* CheckAgentToken: the error of the save is ignored. An unknown token is  *)
(* refused without a save.                                                 *)
CheckAgentToken(t, out) ==
    /\ t \in mem.tokens
    /\ Save([mem EXCEPT !.tokens = @ \ {t}], out)
    /\ Spend(t, out, Answers(out) /\ t \notin expired)

(* Time passes: PeekInvite, ConsumeInvite and CheckAgentToken compare the  *)
(* clock with a token's Expires.                                           *)
Expire(t) ==
    /\ t \in minted \ expired
    /\ expired' = expired \cup {t}
    /\ UNCHANGED <<up, mem, disk, minted, kills, issued, spent, granted, slipped, behind>>

(* The process ends between two requests, and what was not saved with it.  *)
Kill ==
    /\ up /\ kills < MaxKills
    /\ kills' = kills + 1
    /\ up' = FALSE /\ mem' = Empty /\ behind' = FALSE
    /\ UNCHANGED <<disk, minted, expired, issued, spent, granted, slipped>>

(* OpenStore reads the file. *)
OpenStore ==
    /\ ~up
    /\ up' = TRUE /\ mem' = disk
    /\ UNCHANGED <<disk, minted, expired, kills, issued, spent, granted, slipped, behind>>

Next ==
    \/ \E out \in Outcome :
         \/ \E u \in User : CreateUser(u, out)
         \/ \E u \in User : PutUser(u, out)
         \/ \E i \in Invite : CreateInvite(i, out)
         \/ \E t \in AgentToken : CreateAgentToken(t, out)
         \/ \E i \in Invite : ConsumeInvite(i, out)
         \/ \E t \in AgentToken : CheckAgentToken(t, out)
    \/ \E t \in Token : Expire(t)
    \/ Kill \/ OpenStore

Spec == Init /\ [][Next]_storeVars

-----------------------------------------------------------------------------
(* The file lags behind memory only after a save that failed: every        *)
(* operation that changes a map saves it before it unlocks.                *)
FileCurrent == up /\ ~behind => mem = disk

(* d has what was acknowledged and not spent since.                        *)
Holds(d) == issued.users \subseteq d.users /\ issued.tokens \ spent \subseteq d.tokens

(* What was acknowledged survives every kill: a user, an invite or a token *)
(* whose creation returned no error is in the file, and in memory whenever *)
(* the process runs, until a request spends it, whatever saves fail and    *)
(* wherever the process is killed (store.go:78: "save writes the store     *)
(* atomically").                                                           *)
IssuedSurvives == Holds(disk) /\ (up => Holds(mem))

(* ConsumeInvite reports success at most once per invite, kills and failed *)
(* saves included (store.go:129: "single-use"), because it reports the     *)
(* error of the save (store.go:161).                                       *)
InviteOnce == \A i \in Invite : granted[i] <= 1

(* A device token is accepted again only if an earlier deletion was not    *)
(* saved.                                                                  *)
TokenOnceIfSaved ==
    \A t \in AgentToken : granted[t] > 1 => t \in slipped

(* store.go:173-174: CheckAgentToken "validates and consumes (deletes) an  *)
(* agent token ... single-use by design".                                  *)
TokenOnce == \A t \in AgentToken : granted[t] <= 1

=============================================================================
